---------------------------- MODULE FormatsProofs ----------------------------
(***************************************************************************)
(* BytesMeanPieces for bytes of any width and any numbers of pieces.  The  *)
(* argument: a piece is one bit of one byte and no other piece's, the bytes*)
(* for n pieces have room for each of them, and a field's bits are those of*)
(* the pieces its peer has spoken of, as far as the field reaches.         *)
(*                                                                         *)
(* HashesApart for any hashes, by induction over the positions of a string:*)
(* what was escaped is read as it was, and a second reading loses a byte at*)
(* least where there is a "%".                                             *)
(*                                                                         *)
(* TruncatedRefused for any files that are one node, any peers and any     *)
(* lengths of a list.  What is read from a position on depends only on what*)
(* is there up to its end, so a node that ends in t is the same node in    *)
(* every string that begins with t: of two whole nodes none begins the     *)
(* other.                                                                  *)
(*                                                                         *)
(* PeersArrive for any peers and lists.  What BInt, BStr, a list or a      *)
(* dictionary writes is read as that wherever it stands, so the answer is  *)
(* read as it was written; then an address is dialled once, by induction   *)
(* over the list.                                                          *)
(***************************************************************************)
EXTENDS Bitfields, HashFormat, Formats, WellFoundedInduction, TLAPS

LEMMA DivMod ==
    ASSUME NEW b \in Nat \ {0}, NEW i \in Nat
    PROVE  /\ i \div b \in Nat
           /\ i % b \in 0..b - 1
           /\ i = b * (i \div b) + (i % b)
  BY SMT

(* A piece is known by its byte and its bit.                               *)
LEMMA OneBit ==
    ASSUME NEW i \in Nat, NEW j \in Nat
    PROVE  /\ ByteIndex(i) \in Nat /\ BitIndex(i) \in 0..Bits - 1
           /\ ByteIndex(i) = ByteIndex(j) /\ BitIndex(i) = BitIndex(j) => i = j
<1> DEFINE q(k) == k \div Bits
<1> DEFINE r(k) == k % Bits
<1>1. \A k \in {i, j} : q(k) \in Nat /\ r(k) \in 0..Bits - 1 /\ k = Bits * q(k) + r(k)
  BY DivMod, BitfieldConstants
<1>2. \A k \in {i, j} : ByteIndex(k) = q(k) /\ BitIndex(k) = Bits - 1 - r(k)
  BY DEF ByteIndex, BitIndex
<1> HIDE DEF q, r
<1> QED
  BY <1>1, <1>2, BitfieldConstants

(* The bytes for n pieces have a bit for each of them.                     *)
LEMMA Room ==
    ASSUME NEW n \in Nat, NEW i \in Nat
    PROVE  /\ Size(n) \in Nat
           /\ i < n => ByteIndex(i) < Size(n)
<1>1. Bits \in Nat \ {0} /\ n + Bits - 1 \in Nat
  BY BitfieldConstants
<1> DEFINE q == i \div Bits
<1> DEFINE s == (n + Bits - 1) \div Bits
<1> DEFINE r == i % Bits
<1> DEFINE t == (n + Bits - 1) % Bits
<1>2. /\ q \in Nat /\ r \in 0..Bits - 1 /\ i = Bits * q + r
      /\ s \in Nat /\ t \in 0..Bits - 1 /\ n + Bits - 1 = Bits * s + t
  BY <1>1, DivMod
<1>3. ByteIndex(i) = q /\ Size(n) = s
  BY DEF ByteIndex, Size
<1> HIDE DEF q, s, r, t
<1>4. ASSUME i < n, s <= q PROVE FALSE
  <2>1. Bits * s <= Bits * q
    BY <1>1, <1>2, <1>4
  <2> QED
    BY <1>1, <1>2, <1>4, <2>1
<1> QED
  BY <1>2, <1>3, <1>4

-----------------------------------------------------------------------------
(* Bitfield sets the bits of the pieces it is given, and no others.        *)
LEMMA BitfieldTells ==
    ASSUME NEW n \in Nat, NEW pieces \in SUBSET (0..n - 1)
    PROVE  /\ Bitfield(n, pieces) \in Seq(Byte)
           /\ Len(Bitfield(n, pieces)) = Size(n)
           /\ \A i \in Nat : HasPiece(Bitfield(n, pieces), i) <=> i \in pieces
<1> DEFINE bits(k) == { BitIndex(i) : i \in { j \in pieces : j < n /\ ByteIndex(j) = k - 1 } }
<1> DEFINE bf == [k \in 1..Size(n) |-> bits(k)]
<1>1. bf = Bitfield(n, pieces)
  BY DEF Bitfield
<1>2. Size(n) \in Nat
  BY Room
<1>3. \A k \in 1..Size(n) : bits(k) \in Byte
  BY OneBit DEF Byte
<1>4. bf \in Seq(Byte) /\ Len(bf) = Size(n) /\ \A k \in 1..Size(n) : bf[k] = bits(k)
  <2> HIDE DEF bits
  <2> QED
    BY <1>2, <1>3
<1>5. ASSUME NEW i \in Nat PROVE HasPiece(bf, i) <=> i \in pieces
  <2>1. ByteIndex(i) \in Nat
    BY OneBit
  <2>2. CASE i \in pieces
    <3>1. i < n /\ ByteIndex(i) < Size(n)
      BY <2>2, Room
    <3>2. ByteIndex(i) + 1 \in 1..Size(n) /\ (ByteIndex(i) + 1) - 1 = ByteIndex(i)
      BY <1>2, <2>1, <3>1
    <3>3. BitIndex(i) \in bits(ByteIndex(i) + 1)
      BY <2>2, <3>1, <3>2
    <3> QED
      BY <1>4, <2>2, <3>1, <3>2, <3>3 DEF HasPiece
  <2>3. CASE i \notin pieces
    <3>1. SUFFICES ASSUME ByteIndex(i) < Size(n) PROVE BitIndex(i) \notin bits(ByteIndex(i) + 1)
      BY <1>2, <1>4, <2>1, <2>3 DEF HasPiece
    <3>2. \A j \in pieces : ByteIndex(j) = (ByteIndex(i) + 1) - 1 => BitIndex(j) # BitIndex(i)
      BY <2>1, <2>3, OneBit
    <3> QED
      BY <3>2
  <2> QED
    BY <2>2, <2>3
<1> QED
  BY <1>1, <1>4, <1>5

(* WithPiece adds the bit of one piece, if the field reaches that far.     *)
LEMMA WithPieceTells ==
    ASSUME NEW bf \in Seq(Byte), NEW i \in Nat
    PROVE  /\ WithPiece(bf, i) \in Seq(Byte)
           /\ Len(WithPiece(bf, i)) = Len(bf)
           /\ \A j \in Nat : HasPiece(WithPiece(bf, i), j)
                <=> HasPiece(bf, j) \/ (j = i /\ ByteIndex(i) < Len(bf))
<1>1. ByteIndex(i) \in Nat /\ BitIndex(i) \in 0..Bits - 1 /\ Len(bf) \in Nat
  BY OneBit
<1>2. CASE ByteIndex(i) < Len(bf)
  <2> DEFINE k == ByteIndex(i) + 1
  <2> DEFINE new == bf[k] \cup {BitIndex(i)}
  <2>1. k \in 1..Len(bf)
    BY <1>1, <1>2
  <2>2. WithPiece(bf, i) = [bf EXCEPT ![k] = new]
    BY <1>2 DEF WithPiece
  <2>3. new \in Byte
    BY <1>1, <2>1 DEF Byte
  <2>4. /\ [bf EXCEPT ![k] = new] \in Seq(Byte)
        /\ Len([bf EXCEPT ![k] = new]) = Len(bf)
        /\ \A l \in 1..Len(bf) : [bf EXCEPT ![k] = new][l] = IF l = k THEN new ELSE bf[l]
    <3> HIDE DEF k, new
    <3> QED
      BY <2>1, <2>3
  <2>5. ASSUME NEW j \in Nat
        PROVE  HasPiece(WithPiece(bf, i), j) <=> HasPiece(bf, j) \/ j = i
    <3>1. ByteIndex(j) \in Nat /\ (ByteIndex(j) = ByteIndex(i) /\ BitIndex(j) = BitIndex(i) => j = i)
      BY OneBit
    <3>2. ByteIndex(j) < Len(bf) => ByteIndex(j) + 1 \in 1..Len(bf)
      BY <1>1, <3>1
    <3>3. CASE ByteIndex(j) = ByteIndex(i)
      <4>1. WithPiece(bf, i)[ByteIndex(j) + 1] = bf[k] \cup {BitIndex(i)}
        BY <2>1, <2>2, <2>4, <3>3
      <4> QED
        BY <1>2, <2>2, <2>4, <3>1, <3>3, <4>1 DEF HasPiece
    <3>4. CASE ByteIndex(j) # ByteIndex(i)
      <4>1. ByteIndex(j) + 1 # k
        BY <1>1, <3>1, <3>4
      <4>2. ByteIndex(j) < Len(bf) => WithPiece(bf, i)[ByteIndex(j) + 1] = bf[ByteIndex(j) + 1]
        BY <2>2, <2>4, <3>2, <4>1
      <4> QED
        BY <2>2, <2>4, <3>4, <4>2 DEF HasPiece
    <3> QED
      BY <3>3, <3>4
  <2> QED
    BY <1>2, <2>2, <2>4, <2>5
<1>3. CASE ~(ByteIndex(i) < Len(bf))
  BY <1>3 DEF WithPiece
<1> QED
  BY <1>2, <1>3

-----------------------------------------------------------------------------
BitTypeOK ==
    /\ numPieces \in Nat /\ peerPieces \in Nat
    /\ mine \subseteq 0..numPieces - 1
    /\ known \in BOOLEAN
    /\ field \in Seq(Byte)
    /\ told \subseteq 0..peerPieces - 1

\* A field has the size the peer or this node gives it, and its bits are those
\* of the pieces the peer has spoken of, as far as the field reaches.
FieldTells ==
    /\ IF known THEN Len(field) \in {Size(numPieces), Size(peerPieces)}
                ELSE field = <<>> /\ told = {}
    /\ \A i \in Nat : HasPiece(field, i) <=> i \in told /\ ByteIndex(i) < Len(field)

LEMMA BitInitTells == BitInit => BitTypeOK /\ FieldTells
<1> SUFFICES ASSUME BitInit PROVE BitTypeOK /\ FieldTells
  OBVIOUS
<1>1. BitTypeOK
  <2>1. numPieces \in Nat /\ peerPieces \in Nat /\ mine \subseteq 0..numPieces - 1
    BY BitfieldConstants DEF BitInit
  <2>2. known \in BOOLEAN
    BY DEF BitInit
  <2>3. field = <<>> /\ told = {}
    BY DEF BitInit
  <2>4. field \in Seq(Byte)
    BY <2>3
  <2> QED
    BY <2>1, <2>2, <2>3, <2>4 DEF BitTypeOK
<1>2. FieldTells
  BY OneBit DEF BitInit, FieldTells, HasPiece
<1> QED
  BY <1>1, <1>2

LEMMA BitStepTells == BitTypeOK /\ FieldTells /\ [BitNext]_bitVars => BitTypeOK' /\ FieldTells'
<1> SUFFICES ASSUME BitTypeOK, FieldTells, [BitNext]_bitVars
             PROVE  BitTypeOK' /\ FieldTells'
  OBVIOUS
<1>1. ASSUME NEW pieces \in SUBSET (0..peerPieces - 1), UpdatePeerBitfield(pieces)
      PROVE  BitTypeOK' /\ FieldTells'
  <2>1. /\ field' = Bitfield(peerPieces, pieces) /\ told' = pieces /\ known' = TRUE
        /\ UNCHANGED <<numPieces, peerPieces, mine>>
    BY <1>1 DEF UpdatePeerBitfield
  <2>2. /\ field' \in Seq(Byte) /\ Len(field') = Size(peerPieces)
        /\ \A i \in Nat : HasPiece(field', i) <=> i \in pieces
    BY <2>1, BitfieldTells DEF BitTypeOK
  <2>3. \A i \in pieces : ByteIndex(i) < Size(peerPieces)
    BY Room DEF BitTypeOK
  <2>4. FieldTells'
    BY <2>1, <2>2, <2>3 DEF FieldTells
  <2> QED
    BY <2>1, <2>2, <2>4 DEF BitTypeOK
<1>2. ASSUME NEW i \in 0..peerPieces - 1, SetPeerHasPiece(i)
      PROVE  BitTypeOK' /\ FieldTells'
  <2> DEFINE base == IF known THEN field ELSE Bitfield(numPieces, {})
  <2>1. /\ field' = WithPiece(base, i) /\ told' = told \cup {i} /\ known' = TRUE
        /\ UNCHANGED <<numPieces, peerPieces, mine>>
    BY <1>2 DEF SetPeerHasPiece
  <2>2. /\ base \in Seq(Byte) /\ Len(base) \in {Size(numPieces), Size(peerPieces)}
        /\ \A j \in Nat : HasPiece(base, j) <=> j \in told /\ ByteIndex(j) < Len(base)
    <3>1. CASE known
      BY <3>1 DEF BitTypeOK, FieldTells
    <3>2. CASE ~known
      <4>1. told = {} /\ base = Bitfield(numPieces, {}) /\ numPieces \in Nat
        BY <3>2 DEF BitTypeOK, FieldTells
      <4> QED
        BY <4>1, BitfieldTells
    <3> QED
      BY <3>1, <3>2
  <2>3. i \in Nat
    BY DEF BitTypeOK
  <2> HIDE DEF base
  <2>4. /\ field' \in Seq(Byte) /\ Len(field') = Len(base)
        /\ \A j \in Nat : HasPiece(field', j)
             <=> HasPiece(base, j) \/ (j = i /\ ByteIndex(i) < Len(base))
    BY <2>1, <2>2, <2>3, WithPieceTells
  <2>5. Size(numPieces)' = Size(numPieces) /\ Size(peerPieces)' = Size(peerPieces)
    BY <2>1
  <2>6. FieldTells'
    BY <2>1, <2>2, <2>3, <2>4, <2>5 DEF FieldTells
  <2> QED
    BY <2>1, <2>4, <2>6 DEF BitTypeOK
<1>3. ASSUME NEW i \in 0..numPieces - 1, AddPiece(i) PROVE BitTypeOK' /\ FieldTells'
  BY <1>3 DEF AddPiece, BitTypeOK, FieldTells
<1>4. CASE UNCHANGED bitVars
  BY <1>4 DEF bitVars, BitTypeOK, FieldTells
<1> QED
  BY <1>1, <1>2, <1>3, <1>4 DEF BitNext

LEMMA TellsBytesMean == BitTypeOK /\ FieldTells => BytesMeanPieces
<1> SUFFICES ASSUME BitTypeOK, FieldTells, NEW i \in 0..numPieces - 1
             PROVE  HasPiece(field, i) <=> i \in told
  BY DEF BytesMeanPieces, MissingPieces, BitTypeOK
<1>1. i \in Nat /\ ByteIndex(i) < Size(numPieces)
  BY Room DEF BitTypeOK
<1>2. i \in told => ByteIndex(i) < Size(peerPieces)
  BY <1>1, Room DEF BitTypeOK
<1> QED
  BY <1>1, <1>2 DEF FieldTells, BitTypeOK

(* What is asked of a peer is what it has and this node lacks, for any     *)
(* width of a byte and any two numbers of pieces.                          *)
THEOREM BytesMeanPiecesHolds == BitSpec => []BytesMeanPieces
  BY BitInitTells, BitStepTells, TellsBytesMean, PTL DEF BitSpec

-----------------------------------------------------------------------------
(* Induction over the natural numbers, for a set rather than an operator.  *)
LEMMA Induct ==
    ASSUME NEW T, 0 \in T, \A n \in Nat : n \in T => n + 1 \in T
    PROVE  Nat \subseteq T
<1> DEFINE Less == OpToRel(<, Nat)
           Others == Nat \ T
<1>1. IsWellFoundedOn(Less, Nat)
  BY NatLessThanWellFounded
<1>2. \A x, y \in Nat : y < x => <<y, x>> \in Less
  BY DEF OpToRel
<1> HIDE DEF Less
<1>3. SUFFICES ASSUME Others # {} PROVE FALSE
  OBVIOUS
<1>4. PICK x \in Others : \A y \in Others : ~(<<y, x>> \in Less)
  BY <1>1, <1>3, WFMin
<1>5. x \in Nat /\ x \notin T /\ x # 0
  OBVIOUS
<1>6. x - 1 \in Nat /\ x - 1 < x /\ (x - 1) + 1 = x
  BY <1>5
<1>7. <<x - 1, x>> \in Less
  BY <1>2, <1>5, <1>6
<1>8. x - 1 \in T
  BY <1>4, <1>6, <1>7
<1> QED
  BY <1>5, <1>6, <1>8

-----------------------------------------------------------------------------
LEMMA Joining ==
    ASSUME NEW S, NEW a \in Seq(S), NEW b \in Seq(S)
    PROVE  /\ a \o b \in Seq(S)
           /\ Len(a \o b) = Len(a) + Len(b)
           /\ \A j \in 1..Len(a) : (a \o b)[j] = a[j]
           /\ \A j \in 1..Len(b) : Len(a) + j \in 1..Len(a \o b)
                                  /\ (a \o b)[Len(a) + j] = b[j]
           /\ Len(a) <= Len(a \o b)
<1>1. Len(a) \in Nat /\ Len(b) \in Nat /\ a \o b \in Seq(S) /\ Len(a \o b) = Len(a) + Len(b)
  OBVIOUS
<1>2. \A j \in 1..Len(a) + Len(b) : (a \o b)[j] = IF j <= Len(a) THEN a[j] ELSE b[j - Len(a)]
  OBVIOUS
<1>3. \A j \in 1..Len(a) : j \in 1..Len(a) + Len(b) /\ j <= Len(a)
  BY <1>1
<1>4. \A j \in 1..Len(b) : /\ Len(a) + j \in 1..Len(a) + Len(b)
                           /\ ~(Len(a) + j <= Len(a))
                           /\ (Len(a) + j) - Len(a) = j
  BY <1>1
<1> QED
  BY <1>1, <1>2, <1>3, <1>4

\* b is where a begins.
Begins(a, b) == Len(b) <= Len(a) /\ \A j \in 1..Len(b) : a[j] = b[j]

\* The sequences in q, one after the other, make up s; the n-th ends at ends[n].
Parts(q, s, ends) ==
    /\ ends[0] = 0 /\ ends[Len(q)] = Len(s)
    /\ \A n \in 0..Len(q) : ends[n] \in 0..Len(s)
    /\ \A n \in 1..Len(q) :
          /\ ends[n] = ends[n - 1] + Len(q[n])
          /\ \A j \in 1..Len(q[n]) : /\ ends[n - 1] + j \in 1..Len(s)
                                     /\ s[ends[n - 1] + j] = q[n][j]

(* The recursion of FlattenSeq has a solution, and its end is the result.  *)
LEMMA Flattening ==
    ASSUME NEW q, Len(q) \in Nat \ {0}
    PROVE  \E f : /\ \A n \in 1..Len(q) : f[n] = IF n = 1 THEN q[n] ELSE f[n - 1] \o q[n]
                  /\ FlattenSeq(q) = f[Len(q)]
<1> DEFINE Part(f, n) == IF n = 1 THEN q[n] ELSE f[n - 1] \o q[n]
           Solves(f, k) == f = [n \in 1..k |-> Part(f, n)]
           T == { k \in Nat : \E f : Solves(f, k) }
<1>1. 0 \in T
  <2> DEFINE f == [n \in 1..0 |-> q[n]]
  <2>1. Solves(f, 0)
    OBVIOUS
  <2> QED
    BY <2>1
<1>2. ASSUME NEW k \in Nat, k \in T PROVE k + 1 \in T
  <2>1. PICK f : Solves(f, k)
    BY <1>2
  <2> DEFINE g == [n \in 1..k + 1 |-> IF n = k + 1 THEN Part(f, n) ELSE f[n]]
  <2> HIDE DEF Part
  <2>2. \A n \in 1..k : g[n] = f[n] /\ f[n] = Part(f, n)
    BY <2>1
  <2>3. ASSUME NEW n \in 1..k + 1 PROVE g[n] = Part(g, n)
    <3>1. Part(g, n) = Part(f, n)
      <4>1. n # 1 => n - 1 \in 1..k
        OBVIOUS
      <4> HIDE DEF g
      <4> QED
        BY <2>2, <4>1 DEF Part
    <3>2. CASE n = k + 1
      BY <3>1, <3>2
    <3>3. CASE n # k + 1
      <4>1. n \in 1..k
        BY <3>3
      <4> QED
        BY <2>2, <3>1, <4>1
    <3> QED
      BY <3>2, <3>3
  <2>4. g = [n \in 1..k + 1 |-> Part(g, n)]
    <3>1. g = [n \in 1..k + 1 |-> g[n]]
      OBVIOUS
    <3> HIDE DEF g
    <3> QED
      BY <2>3, <3>1
  <2> HIDE DEF g
  <2>5. k + 1 \in Nat /\ Solves(g, k + 1)
    BY <2>4
  <2> HIDE DEF Solves
  <2> QED
    BY <2>5
<1>3. Len(q) \in T
  <2> HIDE DEF T
  <2> QED
    BY <1>1, <1>2, Induct
<1> DEFINE flatten == CHOOSE f : Solves(f, Len(q))
<1>4. Solves(flatten, Len(q))
  BY <1>3
<1>5. FlattenSeq(q) = flatten[Len(q)]
  BY DEF FlattenSeq
<1> HIDE DEF flatten
<1>6. \A n \in 1..Len(q) : flatten[n] = Part(flatten, n)
  <2> HIDE DEF Part
  <2> QED
    BY <1>4
<1> QED
  BY <1>5, <1>6

(* Where its elements come from.                                           *)
LEMMA Flattened ==
    ASSUME NEW S, NEW q \in Seq(Seq(S))
    PROVE  FlattenSeq(q) \in Seq(S) /\ \E ends : Parts(q, FlattenSeq(q), ends)
<1>1. Len(q) \in Nat /\ \A n \in 1..Len(q) : q[n] \in Seq(S)
  OBVIOUS
<1>2. CASE Len(q) = 0
  <2>1. q = <<>> /\ FlattenSeq(q) = <<>>
    BY <1>2 DEF FlattenSeq
  <2> DEFINE ends == [n \in {0} |-> 0]
  <2>2. Parts(q, <<>>, ends)
    BY <1>2 DEF Parts
  <2> QED
    BY <2>1, <2>2
<1>3. CASE Len(q) # 0
  <2> DEFINE N == Len(q)
             s == FlattenSeq(q)
  <2>1. PICK h : /\ \A n \in 1..N : h[n] = IF n = 1 THEN q[n] ELSE h[n - 1] \o q[n]
                 /\ s = h[N]
    BY <1>1, <1>3, Flattening
  <2> HIDE DEF s
  <2> DEFINE f == [n \in 0..N |-> IF n = 0 THEN <<>> ELSE h[n]]
  <2>2. f[0] = <<>> /\ f[N] = s
    BY <1>1, <1>3, <2>1
  <2>3. ASSUME NEW n \in 1..N PROVE f[n] = f[n - 1] \o q[n]
    <3>1. q[n] \in Seq(S) /\ n \in 0..N /\ n # 0 /\ n - 1 \in 0..N
      BY <1>1
    <3>2. CASE n = 1
      <4>1. <<>> \o q[n] = q[n]
        BY <3>1
      <4>2. f[n - 1] = <<>> /\ f[n] = q[n]
        BY <2>1, <3>1, <3>2
      <4> QED
        BY <4>1, <4>2
    <3>3. CASE n # 1
      <4>1. f[n - 1] = h[n - 1] /\ f[n] = h[n]
        BY <3>1, <3>3
      <4> QED
        BY <2>1, <3>3, <4>1
    <3> QED
      BY <3>2, <3>3
  <2> HIDE DEF f
  <2>4. \A n \in 0..N : f[n] \in Seq(S)
    <3> DEFINE T == { n \in Nat : n <= N => f[n] \in Seq(S) }
    <3>1. 0 \in T
      <4>1. <<>> \in Seq(S)
        OBVIOUS
      <4> QED
        BY <2>2, <4>1
    <3>2. ASSUME NEW n \in Nat, n \in T PROVE n + 1 \in T
      <4>1. SUFFICES ASSUME n + 1 <= N PROVE f[n + 1] \in Seq(S)
        OBVIOUS
      <4>2. n + 1 \in 1..N /\ (n + 1) - 1 = n
        BY <1>1, <4>1
      <4>3. f[n] \in Seq(S)
        BY <1>1, <3>2, <4>1
      <4>4. f[n + 1] = f[n] \o q[n + 1] /\ q[n + 1] \in Seq(S)
        BY <1>1, <2>3, <4>2
      <4> QED
        BY <4>3, <4>4, Joining
    <3>3. Nat \subseteq T
      <4> HIDE DEF T
      <4> QED
        BY <3>1, <3>2, Induct
    <3> QED
      BY <3>3
  <2>5. ASSUME NEW n \in 1..N
        PROVE  /\ Len(f[n]) = Len(f[n - 1]) + Len(q[n])
               /\ Len(f[n - 1]) <= Len(f[n])
               /\ \A j \in 1..Len(f[n - 1]) : f[n][j] = f[n - 1][j]
               /\ \A j \in 1..Len(q[n]) : /\ Len(f[n - 1]) + j \in 1..Len(f[n])
                                          /\ f[n][Len(f[n - 1]) + j] = q[n][j]
    <3> DEFINE a == f[n - 1]
               b == q[n]
    <3>1. n - 1 \in 0..N
      BY <1>1
    <3>2. f[n] = a \o b /\ a \in Seq(S) /\ b \in Seq(S)
      BY <1>1, <2>3, <2>4, <3>1
    <3> HIDE DEF a, b
    <3>3. /\ Len(a \o b) = Len(a) + Len(b)
          /\ Len(a) <= Len(a \o b)
          /\ \A j \in 1..Len(a) : (a \o b)[j] = a[j]
          /\ \A j \in 1..Len(b) : Len(a) + j \in 1..Len(a \o b) /\ (a \o b)[Len(a) + j] = b[j]
      BY <3>2, Joining
    <3> QED
      BY <3>2, <3>3, Zenon DEF a, b
  <2>6. \A m \in 0..N : \A n \in 0..m : Begins(f[m], f[n])
    <3> DEFINE T == { m \in Nat : m <= N => \A n \in 0..m : Begins(f[m], f[n]) }
    <3>1. 0 \in T
      <4>1. \A n \in 0..0 : n = 0
        OBVIOUS
      <4> QED
        BY <2>2, <4>1 DEF Begins
    <3>2. ASSUME NEW m \in Nat, m \in T PROVE m + 1 \in T
      <4>1. SUFFICES ASSUME m + 1 <= N, NEW n \in 0..m + 1 PROVE Begins(f[m + 1], f[n])
        OBVIOUS
      <4>2. m + 1 \in 1..N /\ (m + 1) - 1 = m /\ m \in 0..N /\ m + 1 \in 0..N
        BY <1>1, <4>1
      <4>3. f[m] \in Seq(S) /\ f[m + 1] \in Seq(S)
        BY <2>4, <4>2
      <4>4. Len(f[m]) <= Len(f[m + 1]) /\ \A j \in 1..Len(f[m]) : f[m + 1][j] = f[m][j]
        <5>1. /\ Len(f[(m + 1) - 1]) <= Len(f[m + 1])
              /\ \A j \in 1..Len(f[(m + 1) - 1]) : f[m + 1][j] = f[(m + 1) - 1][j]
          BY <2>5, <4>2
        <5> QED
          BY <4>2, <5>1
      <4>5. CASE n = m + 1
        BY <4>3, <4>5 DEF Begins
      <4>6. CASE n # m + 1
        <5>1. n \in 0..m /\ n \in 0..N
          BY <1>1, <4>1, <4>6
        <5>2. Begins(f[m], f[n]) /\ f[n] \in Seq(S)
          BY <2>4, <3>2, <4>1, <5>1
        <5> QED
          BY <4>3, <4>4, <5>2 DEF Begins
      <4> QED
        BY <4>5, <4>6
    <3>3. Nat \subseteq T
      <4> HIDE DEF T
      <4> QED
        BY <3>1, <3>2, Induct
    <3> QED
      BY <3>3
  <2>7. ASSUME NEW n \in 0..N
        PROVE  Len(f[n]) <= Len(s) /\ \A j \in 1..Len(f[n]) : s[j] = f[n][j]
    <3>1. N \in 0..N
      BY <1>1
    <3> QED
      BY <2>2, <2>6, <3>1 DEF Begins
  <2>8. s \in Seq(S)
    BY <1>1, <2>2, <2>4
  <2> DEFINE ends == [n \in 0..N |-> Len(f[n])]
  <2>9. \A n \in 0..N : ends[n] = Len(f[n]) /\ Len(f[n]) \in 0..Len(s)
    <3>1. ASSUME NEW n \in 0..N PROVE Len(f[n]) \in 0..Len(s)
      <4>1. Len(f[n]) \in Nat /\ Len(f[n]) <= Len(s) /\ Len(s) \in Nat
        BY <2>4, <2>7, <2>8
      <4> QED
        BY <4>1
    <3>2. \A n \in 0..N : ends[n] = Len(f[n])
      OBVIOUS
    <3> HIDE DEF ends
    <3> QED
      BY <3>1, <3>2
  <2>10. ASSUME NEW n \in 1..N
         PROVE  /\ ends[n] = ends[n - 1] + Len(q[n])
                /\ \A j \in 1..Len(q[n]) : /\ ends[n - 1] + j \in 1..Len(s)
                                           /\ s[ends[n - 1] + j] = q[n][j]
    <3>1. n \in 0..N /\ n - 1 \in 0..N
      BY <1>1
    <3>2. ends[n] = Len(f[n]) /\ ends[n - 1] = Len(f[n - 1])
      BY <2>9, <3>1
    <3>3. Len(f[n]) = Len(f[n - 1]) + Len(q[n])
      BY <2>5
    <3>4. ASSUME NEW j \in 1..Len(q[n])
          PROVE  /\ Len(f[n - 1]) + j \in 1..Len(s)
                 /\ s[Len(f[n - 1]) + j] = q[n][j]
      <4>1. Len(f[n - 1]) + j \in 1..Len(f[n]) /\ f[n][Len(f[n - 1]) + j] = q[n][j]
        BY <2>5
      <4>2. Len(f[n]) \in 0..Len(s) /\ \A l \in 1..Len(f[n]) : s[l] = f[n][l]
        BY <2>7, <2>9, <3>1
      <4>3. Len(f[n - 1]) + j \in 1..Len(s)
        BY <2>8, <4>1, <4>2
      <4> QED
        BY <4>1, <4>2, <4>3
    <3> HIDE DEF ends
    <3> QED
      BY <3>2, <3>3, <3>4
  <2>11. ends[0] = 0 /\ ends[N] = Len(s)
    <3>1. 0 \in 0..N /\ N \in 0..N /\ Len(<<>>) = 0
      BY <1>1
    <3> QED
      BY <2>2, <2>9, <3>1
  <2>12. Parts(q, s, ends)
    <3> HIDE DEF ends
    <3> QED
      BY <2>9, <2>10, <2>11 DEF Parts
  <2> QED
    BY <2>8, <2>12 DEF s
<1> QED
  BY <1>2, <1>3

-----------------------------------------------------------------------------
\* The recursion of QueryUnescape.
ReadAt(s, f, i) ==
    IF i > Len(s) THEN [ok |-> TRUE, bytes |-> <<>>]
    ELSE IF s[i] # 37 THEN Before(IF s[i] = 43 THEN 32 ELSE s[i], f[i + 1])
    ELSE IF i + 2 <= Len(s) /\ IsHex(s[i + 1]) /\ IsHex(s[i + 2])
    THEN Before(16 * HexValue(s[i + 1]) + HexValue(s[i + 2]), f[i + 3])
    ELSE Invalid

IsReading(s, f) == f = [i \in 1..Len(s) + 1 |-> ReadAt(s, f, i)]

(* It has a solution, from the end of the string on.                       *)
LEMMA Unescaping ==
    ASSUME NEW s, Len(s) \in Nat
    PROVE  \E f : IsReading(s, f) /\ QueryUnescape(s) = f[1]
<1> DEFINE N == Len(s) + 1
           Solves(f, k) == f = [i \in N - k..N |-> ReadAt(s, f, i)]
           T == { k \in Nat : k < N => \E f : Solves(f, k) }
<1>1. 0 \in T
  <2> DEFINE f == [i \in N - 0..N |-> [ok |-> TRUE, bytes |-> <<>>]]
  <2>1. Solves(f, 0)
    BY DEF ReadAt
  <2> QED
    BY <2>1
<1>2. ASSUME NEW k \in Nat, k \in T PROVE k + 1 \in T
  <2>0. SUFFICES ASSUME k + 1 < N PROVE \E f : Solves(f, k + 1)
    OBVIOUS
  <2>1. PICK f : Solves(f, k)
    BY <1>2, <2>0
  <2> DEFINE lo == N - (k + 1)
             g == [i \in lo..N |-> IF i = lo THEN ReadAt(s, f, i) ELSE f[i]]
  <2>2. \A i \in N - k..N : g[i] = f[i] /\ f[i] = ReadAt(s, f, i)
    <3>1. \A i \in N - k..N : i \in lo..N /\ i # lo
      OBVIOUS
    <3>2. \A i \in N - k..N : f[i] = ReadAt(s, f, i)
      BY <2>1
    <3> QED
      BY <3>1, <3>2
  <2>3. ASSUME NEW i \in lo..N PROVE g[i] = ReadAt(s, g, i)
    <3>1. ReadAt(s, g, i) = ReadAt(s, f, i)
      <4>1. i <= Len(s) => i + 1 \in N - k..N
        OBVIOUS
      <4>2. i + 2 <= Len(s) => i + 3 \in N - k..N
        OBVIOUS
      <4> HIDE DEF g
      <4> QED
        BY <2>2, <4>1, <4>2 DEF ReadAt
    <3>2. CASE i = lo
      BY <3>1, <3>2
    <3>3. CASE i # lo
      <4>1. i \in N - k..N
        BY <3>3
      <4> QED
        BY <2>2, <3>1, <4>1
    <3> QED
      BY <3>2, <3>3
  <2>4. g = [i \in lo..N |-> ReadAt(s, g, i)]
    <3>1. g = [i \in lo..N |-> g[i]]
      OBVIOUS
    <3> HIDE DEF g
    <3> QED
      BY <2>3, <3>1
  <2> QED
    BY <2>4
<1>3. \E f : Solves(f, Len(s))
  <2>1. Len(s) \in T
    BY <1>1, <1>2, Induct
  <2> QED
    BY <2>1
<1>4. N - Len(s) = 1
  OBVIOUS
<1> DEFINE from == CHOOSE f : f = [i \in 1..Len(s) + 1 |-> ReadAt(s, f, i)]
<1>5. from = [i \in 1..Len(s) + 1 |-> ReadAt(s, from, i)]
  BY <1>3, <1>4
<1>6. QueryUnescape(s) = from[1]
  BY DEF QueryUnescape, ReadAt
<1> QED
  BY <1>5, <1>6 DEF IsReading

-----------------------------------------------------------------------------
Octet == 0..255

\* s from i on, as it is read when nothing in it is escaped.
Rest(s, i) == [ok |-> TRUE, bytes |-> [j \in 1..Len(s) + 1 - i |-> s[i + j - 1]]]

\* s with a space for each "+".
Spaced(s) == [i \in DOMAIN s |-> IF s[i] = 43 THEN 32 ELSE s[i]]

LEMMA SpacedIs ==
    ASSUME NEW s \in Seq(Octet)
    PROVE  /\ Spaced(s) \in Seq(Octet) /\ Len(Spaced(s)) = Len(s)
           /\ \A i \in 1..Len(s) : Spaced(s)[i] = IF s[i] = 43 THEN 32 ELSE s[i]
<1> DEFINE t == [i \in 1..Len(s) |-> IF s[i] = 43 THEN 32 ELSE s[i]]
<1>1. Spaced(s) = t
  BY DEF Spaced
<1>2. ASSUME NEW i \in 1..Len(s) PROVE (IF s[i] = 43 THEN 32 ELSE s[i]) \in Octet
  <2>1. s[i] \in Octet
    OBVIOUS
  <2> QED
    BY <2>1 DEF Octet
<1>3. t \in Seq(Octet) /\ Len(t) = Len(s)
  BY <1>2
<1> QED
  BY <1>1, <1>3

(* What a byte in front of a sequence does to it.                          *)
LEMMA InFront ==
    ASSUME NEW S, NEW c \in S, NEW b \in Seq(S)
    PROVE  /\ <<c>> \o b \in Seq(S)
           /\ Len(<<c>> \o b) = Len(b) + 1
           /\ (<<c>> \o b)[1] = c
           /\ \A j \in 1..Len(b) : (<<c>> \o b)[j + 1] = b[j]
<1> DEFINE t == <<c>> \o b
<1>1. /\ <<c>> \in Seq(S) /\ Len(<<c>>) = 1 /\ <<c>>[1] = c
      /\ Len(b) \in Nat
  OBVIOUS
<1>2. t \in Seq(S) /\ Len(t) = 1 + Len(b)
  BY <1>1
<1>3. \A j \in 1..1 + Len(b) : t[j] = IF j <= 1 THEN <<c>>[j] ELSE b[j - 1]
  BY <1>1
<1>4. t[1] = c
  BY <1>1, <1>3
<1>5. ASSUME NEW j \in 1..Len(b) PROVE t[j + 1] = b[j]
  <2>1. j + 1 \in 1..1 + Len(b) /\ ~(j + 1 <= 1) /\ (j + 1) - 1 = j
    BY <1>1
  <2> QED
    BY <1>3, <2>1
<1> QED
  BY <1>1, <1>2, <1>4, <1>5

LEMMA BeforeRest ==
    ASSUME NEW s \in Seq(Octet), NEW i \in 1..Len(s)
    PROVE  Before(s[i], Rest(s, i + 1)) = Rest(s, i)
<1> DEFINE b == [j \in 1..Len(s) - i |-> s[i + j]]
           a == [j \in 1..Len(s) + 1 - i |-> s[i + j - 1]]
<1>1. \A j \in 1..Len(s) - i : i + j \in 1..Len(s)
  OBVIOUS
<1>2. b \in Seq(Octet) /\ Len(b) = Len(s) - i /\ \A j \in 1..Len(s) - i : b[j] = s[i + j]
  BY <1>1
<1>3. Rest(s, i + 1) = [ok |-> TRUE, bytes |-> b]
  <2>1. Len(s) + 1 - (i + 1) = Len(s) - i
    OBVIOUS
  <2>2. \A j \in 1..Len(s) - i : (i + 1) + j - 1 = i + j
    OBVIOUS
  <2>3. [j \in 1..Len(s) + 1 - (i + 1) |-> s[(i + 1) + j - 1]] = b
    BY <2>1, <2>2
  <2> QED
    BY <2>3 DEF Rest
<1>4. Rest(s, i) = [ok |-> TRUE, bytes |-> a]
  BY DEF Rest
<1> HIDE DEF b
<1> DEFINE t == <<s[i]>> \o b
<1>5. /\ Before(s[i], [ok |-> TRUE, bytes |-> b]) = [ok |-> TRUE, bytes |-> t]
      /\ t \in Seq(Octet)
      /\ Len(t) = Len(b) + 1
      /\ t[1] = s[i]
      /\ \A j \in 1..Len(b) : t[j + 1] = b[j]
  <2>1. s[i] \in Octet /\ b \in Seq(Octet)
    BY <1>2
  <2>2. Before(s[i], [ok |-> TRUE, bytes |-> b]) = [ok |-> TRUE, bytes |-> t]
    BY DEF Before
  <2>3. /\ t \in Seq(Octet) /\ Len(t) = Len(b) + 1 /\ t[1] = s[i]
        /\ \A j \in 1..Len(b) : t[j + 1] = b[j]
    BY <2>1, InFront
  <2> HIDE DEF t
  <2> QED
    BY <2>2, <2>3
<1> HIDE DEF t
<1>6. t = a
  <2>1. t = [j \in 1..Len(s) + 1 - i |-> t[j]]
    BY <1>2, <1>5
  <2>2. ASSUME NEW j \in 1..Len(s) + 1 - i PROVE t[j] = s[i + j - 1]
    <3>1. CASE j = 1
      BY <1>5, <3>1
    <3>2. CASE j # 1
      <4>1. j - 1 \in 1..Len(b) /\ (j - 1) + 1 = j /\ i + (j - 1) = i + j - 1
        BY <1>2, <3>2
      <4>2. t[(j - 1) + 1] = b[j - 1] /\ b[j - 1] = s[i + (j - 1)]
        BY <1>2, <1>5, <4>1
      <4> QED
        BY <4>1, <4>2
    <3> QED
      BY <3>1, <3>2
  <2> QED
    BY <2>1, <2>2
<1> QED
  BY <1>3, <1>4, <1>5, <1>6

-----------------------------------------------------------------------------
LEMMA DivMod16 ==
    ASSUME NEW c \in Octet
    PROVE  /\ c \div 16 \in 0..15
           /\ c % 16 \in 0..15
           /\ c = 16 * (c \div 16) + (c % 16)
  BY SMT DEF Octet

LEMMA HexDigits ==
    ASSUME NEW k \in 0..15
    PROVE  HexDigit(k) \in Octet /\ IsHex(HexDigit(k)) /\ HexValue(HexDigit(k)) = k
  BY DEF HexDigit, IsHex, HexValue, Octet

LEMMA HexValues ==
    ASSUME NEW c, NEW d, IsHex(c), IsHex(d)
    PROVE  16 * HexValue(c) + HexValue(d) \in Octet
<1>1. HexValue(c) \in 0..15
  BY DEF IsHex, HexValue
<1>2. HexValue(d) \in 0..15
  BY DEF IsHex, HexValue
<1>3. \A k, l \in 0..15 : 16 * k + l \in Octet
  BY DEF Octet
<1> QED
  BY <1>1, <1>2, <1>3

(* A byte is written as itself, or in three bytes that say which it is.    *)
LEMMA EscapedByte ==
    ASSUME NEW c \in Octet
    PROVE  /\ EscapeByte(c) \in Seq(Octet)
           /\ \/ /\ Len(EscapeByte(c)) = 1
                 /\ EscapeByte(c)[1] # 37
                 /\ (IF EscapeByte(c)[1] = 43 THEN 32 ELSE EscapeByte(c)[1]) = c
              \/ /\ Len(EscapeByte(c)) = 3
                 /\ EscapeByte(c)[1] = 37
                 /\ IsHex(EscapeByte(c)[2]) /\ IsHex(EscapeByte(c)[3])
                 /\ 16 * HexValue(EscapeByte(c)[2]) + HexValue(EscapeByte(c)[3]) = c
<1>1. CASE c \in Unreserved
  <2>1. EscapeByte(c) = <<c>> /\ c # 37 /\ c # 43
    BY <1>1 DEF EscapeByte, Unreserved
  <2> QED
    BY <2>1
<1>2. CASE c \notin Unreserved /\ c = 32
  <2>1. EscapeByte(c) = <<43>>
    BY <1>2 DEF EscapeByte
  <2>2. 43 \in Octet
    BY DEF Octet
  <2> QED
    BY <1>2, <2>1, <2>2
<1>3. CASE c \notin Unreserved /\ c # 32
  <2> DEFINE hi == HexDigit(c \div 16)
             lo == HexDigit(c % 16)
  <2>1. EscapeByte(c) = <<37, hi, lo>>
    BY <1>3 DEF EscapeByte
  <2>2. /\ hi \in Octet /\ IsHex(hi) /\ HexValue(hi) = c \div 16
        /\ lo \in Octet /\ IsHex(lo) /\ HexValue(lo) = c % 16
    BY DivMod16, HexDigits
  <2>3. 16 * HexValue(hi) + HexValue(lo) = c
    BY <2>2, DivMod16
  <2>4. 37 \in Octet
    BY DEF Octet
  <2> HIDE DEF hi, lo
  <2> QED
    BY <2>1, <2>2, <2>3, <2>4
<1> QED
  BY <1>1, <1>2, <1>3

LEMMA ReadsAt ==
    ASSUME NEW s, Len(s) \in Nat, NEW f, IsReading(s, f)
    PROVE  \A i \in 1..Len(s) + 1 : f[i] = ReadAt(s, f, i)
  BY DEF IsReading

LEMMA RestEnd ==
    ASSUME NEW s \in Seq(Octet)
    PROVE  Rest(s, Len(s) + 1) = [ok |-> TRUE, bytes |-> <<>>]
<1> DEFINE b == [j \in 1..Len(s) + 1 - (Len(s) + 1) |-> s[(Len(s) + 1) + j - 1]]
<1>1. 1..Len(s) + 1 - (Len(s) + 1) = {}
  OBVIOUS
<1>2. b = <<>>
  BY <1>1
<1> QED
  BY <1>2 DEF Rest

LEMMA RestAll ==
    ASSUME NEW s \in Seq(Octet)
    PROVE  Rest(s, 1) = [ok |-> TRUE, bytes |-> s]
<1> DEFINE b == [j \in 1..Len(s) + 1 - 1 |-> s[1 + j - 1]]
<1>1. Len(s) + 1 - 1 = Len(s) /\ \A j \in 1..Len(s) : 1 + j - 1 = j
  OBVIOUS
<1>2. b = [j \in 1..Len(s) |-> s[j]]
  BY <1>1
<1>3. b = s
  BY <1>2
<1> QED
  BY <1>3 DEF Rest

(* What a byte was escaped to is read as that byte.                        *)
LEMMA ReadsByte ==
    ASSUME NEW s \in Seq(Octet), NEW f, IsReading(s, f), NEW p \in Nat, NEW c \in Octet,
           \A j \in 1..Len(EscapeByte(c)) : p + j \in 1..Len(s) /\ s[p + j] = EscapeByte(c)[j]
    PROVE  f[p + 1] = Before(c, f[p + Len(EscapeByte(c)) + 1])
<1> DEFINE w == EscapeByte(c)
<1>1. ASSUME NEW j \in 1..Len(w) PROVE p + j \in 1..Len(s) /\ s[p + j] = w[j]
  OBVIOUS
<1>2. CASE Len(w) = 1 /\ w[1] # 37 /\ (IF w[1] = 43 THEN 32 ELSE w[1]) = c
  <2>1. p + 1 \in 1..Len(s) /\ s[p + 1] = w[1]
    BY <1>1, <1>2
  <2>2. f[p + 1] = ReadAt(s, f, p + 1)
    BY <2>1, ReadsAt
  <2>3. ~(p + 1 > Len(s)) /\ (p + 1) + 1 = p + Len(w) + 1
    BY <1>2, <2>1
  <2> HIDE DEF w
  <2>4. ReadAt(s, f, p + 1) = Before(c, f[(p + 1) + 1])
    BY <1>2, <2>1, <2>3 DEF ReadAt
  <2> QED
    BY <2>2, <2>3, <2>4 DEF w
<1>3. CASE /\ Len(w) = 3 /\ w[1] = 37 /\ IsHex(w[2]) /\ IsHex(w[3])
           /\ 16 * HexValue(w[2]) + HexValue(w[3]) = c
  <2>1. /\ p + 1 \in 1..Len(s) /\ s[p + 1] = w[1]
        /\ p + 2 \in 1..Len(s) /\ s[p + 2] = w[2]
        /\ p + 3 \in 1..Len(s) /\ s[p + 3] = w[3]
    BY <1>1, <1>3
  <2>2. f[p + 1] = ReadAt(s, f, p + 1)
    BY <2>1, ReadsAt
  <2>3. /\ ~(p + 1 > Len(s)) /\ (p + 1) + 1 = p + 2 /\ (p + 1) + 2 = p + 3 /\ p + 3 <= Len(s)
        /\ (p + 1) + 3 = p + Len(w) + 1
    BY <1>3, <2>1
  <2> HIDE DEF w
  <2>4. ReadAt(s, f, p + 1) = Before(16 * HexValue(w[2]) + HexValue(w[3]), f[(p + 1) + 3])
    BY <1>3, <2>1, <2>3 DEF ReadAt
  <2> QED
    BY <1>3, <2>2, <2>3, <2>4 DEF w
<1> QED
  BY <1>2, <1>3, EscapedByte

(* url.QueryUnescape undoes url.Values.Encode, whatever the bytes: read    *)
(* once, as handleAnnounce's r.URL.Query() does, a hash is what it was.    *)
THEOREM ReadOnce ==
    ASSUME NEW s \in Seq(0..255)
    PROVE  QueryUnescape(QueryEscape(s)) = [ok |-> TRUE, bytes |-> s]
<1>1. s \in Seq(Octet) /\ Len(s) \in Nat
  BY DEF Octet
<1> DEFINE N == Len(s)
           q == [n \in 1..N |-> EscapeByte(s[n])]
           u == FlattenSeq(q)
<1>2. QueryEscape(s) = u
  BY <1>1 DEF QueryEscape
<1>3. \A n \in 1..N : s[n] \in Octet /\ q[n] = EscapeByte(s[n]) /\ q[n] \in Seq(Octet)
  <2>1. \A n \in 1..N : s[n] \in Octet
    BY <1>1
  <2> QED
    BY <2>1, EscapedByte
<1>4. q \in Seq(Seq(Octet)) /\ Len(q) = N
  <2>1. \A n \in 1..N : EscapeByte(s[n]) \in Seq(Octet)
    BY <1>3
  <2> QED
    BY <1>1, <2>1
<1> HIDE DEF q
<1>5. u \in Seq(Octet) /\ Len(u) \in Nat /\ \E e : Parts(q, u, e)
  BY <1>4, Flattened
<1> HIDE DEF u
<1>6. PICK e : Parts(q, u, e)
  BY <1>5
<1>7. PICK f : IsReading(u, f) /\ QueryUnescape(u) = f[1]
  BY <1>5, Unescaping
<1> DEFINE T == { k \in Nat : k <= N => f[e[N - k] + 1] = Rest(s, N - k + 1) }
<1>8. 0 \in T
  <2>1. f[Len(u) + 1] = ReadAt(u, f, Len(u) + 1)
    BY <1>5, <1>7, ReadsAt
  <2>2. Len(u) + 1 > Len(u)
    BY <1>5
  <2>3. f[Len(u) + 1] = [ok |-> TRUE, bytes |-> <<>>]
    BY <2>1, <2>2 DEF ReadAt
  <2>4. N - 0 = N /\ e[N] = Len(u)
    BY <1>1, <1>4, <1>6 DEF Parts
  <2> QED
    BY <1>1, <2>3, <2>4, RestEnd
<1>9. ASSUME NEW k \in Nat, k \in T PROVE k + 1 \in T
  <2>1. SUFFICES ASSUME k + 1 <= N
                 PROVE  f[e[N - (k + 1)] + 1] = Rest(s, N - (k + 1) + 1)
    OBVIOUS
  <2>2. PICK n \in 1..N : n = N - k /\ n - 1 = N - (k + 1) /\ N - (k + 1) + 1 = n
    BY <1>1, <2>1
  <2>3. f[e[n] + 1] = Rest(s, n + 1)
    BY <1>9, <2>1, <2>2
  <2> DEFINE p == e[n - 1]
             w == EscapeByte(s[n])
  <2>4. s[n] \in Octet /\ n - 1 \in 0..N /\ q[n] = w
    BY <1>1, <1>3, <2>2
  <2>5. /\ p \in Nat /\ e[n] = p + Len(w)
        /\ \A j \in 1..Len(w) : p + j \in 1..Len(u) /\ u[p + j] = w[j]
    <3>1. \A i \in 0..Len(q) : e[i] \in 0..Len(u)
      BY <1>6 DEF Parts
    <3>2. /\ e[n] = e[n - 1] + Len(q[n])
          /\ \A j \in 1..Len(q[n]) : e[n - 1] + j \in 1..Len(u) /\ u[e[n - 1] + j] = q[n][j]
      BY <1>4, <1>6 DEF Parts
    <3>3. p \in Nat
      BY <1>4, <2>4, <3>1
    <3> QED
      BY <2>4, <3>2, <3>3
  <2> HIDE DEF p
  <2>6. f[p + 1] = Before(s[n], f[p + Len(w) + 1])
    BY <1>5, <1>7, <2>4, <2>5, ReadsByte
  <2>7. Before(s[n], Rest(s, n + 1)) = Rest(s, n)
    BY <1>1, BeforeRest
  <2> QED
    BY <2>2, <2>3, <2>5, <2>6, <2>7 DEF p
<1>10. N \in T
  <2> HIDE DEF T
  <2> QED
    BY <1>1, <1>8, <1>9, Induct
<1>11. N - N = 0 /\ N - N + 1 = 1 /\ e[0] + 1 = 1
  BY <1>1, <1>6 DEF Parts
<1>12. f[1] = Rest(s, 1)
  BY <1>1, <1>10, <1>11
<1> QED
  BY <1>1, <1>2, <1>7, <1>12, RestAll

-----------------------------------------------------------------------------
\* r is a reading of s from i on, and no longer than that; shorter, if there is
\* a "%" in it.
Within(s, i, r) ==
    \/ r = Invalid
    \/ \E b \in Seq(Octet) :
          /\ r = [ok |-> TRUE, bytes |-> b]
          /\ i + Len(b) <= Len(s) + 1
          /\ (\E j \in i..Len(s) : s[j] = 37) => i + Len(b) < Len(s) + 1

LEMMA WithinBefore ==
    ASSUME NEW s \in Seq(Octet), NEW i \in 1..Len(s), NEW c \in Octet, NEW r,
           \/ s[i] # 37 /\ Within(s, i + 1, r)
           \/ i + 2 <= Len(s) /\ Within(s, i + 3, r)
    PROVE  Within(s, i, Before(c, r))
<1>1. CASE r = Invalid
  BY <1>1 DEF Before, Invalid, Within
<1>2. CASE r # Invalid
  <2>1. PICK k \in {1, 3}, b \in Seq(Octet) :
           /\ r = [ok |-> TRUE, bytes |-> b]
           /\ (i + k) + Len(b) <= Len(s) + 1
           /\ k = 1 => /\ s[i] # 37
                       /\ (\E j \in i + 1..Len(s) : s[j] = 37) => (i + 1) + Len(b) < Len(s) + 1
    <3>1. CASE s[i] # 37 /\ Within(s, i + 1, r)
      BY <1>2, <3>1 DEF Within
    <3>2. CASE i + 2 <= Len(s) /\ Within(s, i + 3, r)
      <4>1. PICK b \in Seq(Octet) :
               r = [ok |-> TRUE, bytes |-> b] /\ (i + 3) + Len(b) <= Len(s) + 1
        BY <1>2, <3>2 DEF Within
      <4> WITNESS 3 \in {1, 3}, b \in Seq(Octet)
      <4> QED
        BY <4>1
    <3> QED
      BY <3>1, <3>2
  <2> DEFINE t == <<c>> \o b
  <2>2. t \in Seq(Octet) /\ Len(t) = Len(b) + 1
    BY InFront
  <2>3. Before(c, r) = [ok |-> TRUE, bytes |-> t]
    BY <2>1 DEF Before
  <2>4. Len(b) \in Nat /\ Len(s) \in Nat
    OBVIOUS
  <2> HIDE DEF t
  <2>5. i + Len(t) <= Len(s) + 1
    BY <2>1, <2>2, <2>4
  <2>6. ASSUME NEW j \in i..Len(s), s[j] = 37 PROVE i + Len(t) < Len(s) + 1
    <3>1. CASE k = 1
      <4>1. j # i /\ j \in i + 1..Len(s)
        BY <2>1, <2>6, <3>1
      <4> QED
        BY <2>1, <2>2, <2>4, <2>6, <3>1, <4>1
    <3>2. CASE k = 3
      BY <2>1, <2>2, <2>4, <3>2
    <3> QED
      BY <3>1, <3>2
  <2> QED
    BY <2>2, <2>3, <2>5, <2>6 DEF Within
<1> QED
  BY <1>1, <1>2

(* A second reading loses a byte at least where there is a "%".            *)
LEMMA ReadAgain ==
    ASSUME NEW s \in Seq(Octet)
    PROVE  Within(s, 1, QueryUnescape(s))
<1>1. Len(s) \in Nat
  OBVIOUS
<1> DEFINE N == Len(s) + 1
<1>2. PICK f : IsReading(s, f) /\ QueryUnescape(s) = f[1]
  BY <1>1, Unescaping
<1>3. \A i \in 1..N : f[i] = ReadAt(s, f, i)
  BY <1>1, <1>2, ReadsAt
<1> DEFINE T == { k \in Nat : \A i \in 1..N : N - i <= k => Within(s, i, f[i]) }
<1>4. Within(s, N, f[N])
  <2>1. f[N] = [ok |-> TRUE, bytes |-> <<>>]
    BY <1>1, <1>3 DEF ReadAt
  <2>2. <<>> \in Seq(Octet) /\ Len(<<>>) = 0
    OBVIOUS
  <2>3. N + Len(<<>>) <= Len(s) + 1 /\ ~ \E j \in N..Len(s) : s[j] = 37
    BY <1>1, <2>2
  <2> HIDE DEF N
  <2>4. \E b \in Seq(Octet) :
          /\ f[N] = [ok |-> TRUE, bytes |-> b]
          /\ N + Len(b) <= Len(s) + 1
          /\ (\E j \in N..Len(s) : s[j] = 37) => N + Len(b) < Len(s) + 1
    <3> WITNESS <<>> \in Seq(Octet)
    <3> QED
      BY <2>1, <2>3
  <2> QED
    BY <2>4 DEF Within
<1>5. 0 \in T
  <2>1. \A i \in 1..N : N - i <= 0 => i = N
    BY <1>1
  <2> QED
    BY <1>4, <2>1
<1>6. ASSUME NEW k \in Nat, k \in T PROVE k + 1 \in T
  <2>1. SUFFICES ASSUME NEW i \in 1..N, N - i <= k + 1 PROVE Within(s, i, f[i])
    OBVIOUS
  <2>2. \A l \in 1..N : l > i => Within(s, l, f[l])
    <3>1. \A l \in 1..N : l > i => N - l <= k
      BY <1>1, <2>1
    <3> QED
      BY <1>6, <3>1
  <2>3. CASE i = N
    BY <1>4, <2>3
  <2>4. CASE i # N
    <3>1. i \in 1..Len(s) /\ ~(i > Len(s)) /\ i + 1 \in 1..N /\ i + 1 > i /\ i + 3 > i
      BY <1>1, <2>4
    <3>2. f[i] = ReadAt(s, f, i) /\ s[i] \in Octet /\ Within(s, i + 1, f[i + 1])
      BY <1>3, <2>2, <3>1
    <3>3. CASE s[i] # 37
      <4> DEFINE c == IF s[i] = 43 THEN 32 ELSE s[i]
      <4>1. c \in Octet
        BY <3>2 DEF Octet
      <4>2. f[i] = Before(c, f[i + 1])
        BY <3>1, <3>2, <3>3 DEF ReadAt
      <4> HIDE DEF c
      <4> QED
        BY <3>1, <3>2, <3>3, <4>1, <4>2, WithinBefore
    <3>4. CASE s[i] = 37 /\ i + 2 <= Len(s) /\ IsHex(s[i + 1]) /\ IsHex(s[i + 2])
      <4> DEFINE c == 16 * HexValue(s[i + 1]) + HexValue(s[i + 2])
      <4>1. c \in Octet
        BY <3>4, HexValues
      <4>2. f[i] = Before(c, f[i + 3])
        BY <3>1, <3>2, <3>4 DEF ReadAt
      <4>3. i + 3 \in 1..N
        BY <1>1, <3>1, <3>4
      <4>4. Within(s, i + 3, f[i + 3])
        BY <2>2, <3>1, <4>3
      <4> HIDE DEF c
      <4> QED
        BY <3>1, <3>4, <4>1, <4>2, <4>4, WithinBefore
    <3>5. CASE s[i] = 37 /\ ~(i + 2 <= Len(s) /\ IsHex(s[i + 1]) /\ IsHex(s[i + 2]))
      <4>1. f[i] = Invalid
        BY <3>1, <3>2, <3>5 DEF ReadAt
      <4> QED
        BY <4>1 DEF Within
    <3> QED
      BY <3>3, <3>4, <3>5
  <2> QED
    BY <2>3, <2>4
<1>7. Len(s) \in T
  <2> HIDE DEF T
  <2> QED
    BY <1>1, <1>5, <1>6, Induct
<1>8. 1 \in 1..N /\ N - 1 <= Len(s)
  BY <1>1
<1> QED
  BY <1>2, <1>7, <1>8

(* Where there is none, it turns each "+" into a space.                    *)
LEMMA ReadPlain ==
    ASSUME NEW s \in Seq(Octet), \A i \in 1..Len(s) : s[i] # 37
    PROVE  QueryUnescape(s) = [ok |-> TRUE, bytes |-> Spaced(s)]
<1>1. Len(s) \in Nat
  OBVIOUS
<1> DEFINE N == Len(s)
           t == Spaced(s)
<1>2. PICK f : IsReading(s, f) /\ QueryUnescape(s) = f[1]
  BY <1>1, Unescaping
<1>3. \A i \in 1..N + 1 : f[i] = ReadAt(s, f, i)
  BY <1>1, <1>2, ReadsAt
<1>4. t \in Seq(Octet) /\ Len(t) = N /\ \A i \in 1..N : t[i] = IF s[i] = 43 THEN 32 ELSE s[i]
  BY SpacedIs
<1> HIDE DEF t
<1> DEFINE T == { k \in Nat : k <= N => f[N - k + 1] = Rest(t, N - k + 1) }
<1>5. 0 \in T
  <2>1. N - 0 + 1 = N + 1 /\ N + 1 > N /\ N + 1 \in 1..N + 1
    BY <1>1
  <2>2. f[N + 1] = [ok |-> TRUE, bytes |-> <<>>]
    BY <1>3, <2>1 DEF ReadAt
  <2> QED
    BY <1>4, <2>1, <2>2, RestEnd
<1>6. ASSUME NEW k \in Nat, k \in T PROVE k + 1 \in T
  <2>1. SUFFICES ASSUME k + 1 <= N PROVE f[N - (k + 1) + 1] = Rest(t, N - (k + 1) + 1)
    OBVIOUS
  <2>2. PICK i \in 1..N : i = N - (k + 1) + 1 /\ N - k + 1 = i + 1
    BY <1>1, <2>1
  <2>3. f[i + 1] = Rest(t, i + 1)
    BY <1>6, <2>1, <2>2
  <2>4. ~(i > N) /\ i \in 1..N + 1
    BY <1>1
  <2>5. f[i] = Before(t[i], f[i + 1])
    BY <1>3, <1>4, <2>4 DEF ReadAt
  <2> QED
    BY <1>4, <2>2, <2>3, <2>5, BeforeRest
<1>7. N \in T
  <2> HIDE DEF T
  <2> QED
    BY <1>1, <1>5, <1>6, Induct
<1>8. N - N + 1 = 1
  BY <1>1
<1>9. f[1] = Rest(t, 1)
  BY <1>1, <1>7, <1>8
<1> QED
  BY <1>2, <1>4, <1>9, RestAll DEF t

-----------------------------------------------------------------------------
(* What the tracker makes of any hash.                                     *)
LEMMA Receives ==
    ASSUME NEW h \in Hashes
    PROVE  /\ (\A i \in DOMAIN h : h[i] # 37) =>
                 ReceivedHash(h) = [ok |-> TRUE, bytes |-> Spaced(h)]
           /\ (\E i \in DOMAIN h : h[i] = 37) => ReceivedHash(h) = Invalid
<1>1. h \in [1..HashLength -> Octet] /\ HashLength \in Nat
  BY HashConstants DEF Octet
<1>2. h \in Seq(Octet) /\ Len(h) = HashLength /\ DOMAIN h = 1..HashLength
  BY <1>1
<1>3. ReceivedHash(h) = DecodeInfoHash(h)
  BY <1>2, ReadOnce DEF ReceivedHash, Octet
<1>4. ASSUME \A i \in DOMAIN h : h[i] # 37
      PROVE  ReceivedHash(h) = [ok |-> TRUE, bytes |-> Spaced(h)]
  <2> DEFINE t == Spaced(h)
  <2>1. QueryUnescape(h) = [ok |-> TRUE, bytes |-> t] /\ Len(t) = HashLength
    BY <1>2, <1>4, ReadPlain, SpacedIs
  <2> HIDE DEF t
  <2>2. DecodeInfoHash(h) = [ok |-> TRUE, bytes |-> t]
    BY <2>1 DEF DecodeInfoHash
  <2> QED
    BY <1>3, <2>2 DEF t
<1>5. ASSUME \E i \in DOMAIN h : h[i] = 37 PROVE ReceivedHash(h) = Invalid
  <2>1. Within(h, 1, QueryUnescape(h))
    BY <1>2, ReadAgain
  <2>2. CASE QueryUnescape(h) = Invalid
    BY <1>3, <2>2 DEF DecodeInfoHash, Invalid
  <2>3. CASE QueryUnescape(h) # Invalid
    <3>1. PICK b \in Seq(Octet) : QueryUnescape(h) = [ok |-> TRUE, bytes |-> b]
                                  /\ 1 + Len(b) < Len(h) + 1
      BY <1>2, <1>5, <2>1, <2>3 DEF Within
    <3>2. Len(b) # HashLength
      BY <1>1, <1>2, <3>1
    <3> QED
      BY <1>3, <3>1, <3>2 DEF DecodeInfoHash
  <2> QED
    BY <2>2, <2>3
<1> QED
  BY <1>4, <1>5

(* For any hashes of any one length: the tracker files a hash under itself *)
(* with spaces for its "+" bytes, or refuses it for a "%" byte.            *)
THEOREM HashesApartHolds == HashSpec => []HashesApart
<1> DEFINE Inv == infoHash \in Hashes /\ (received = Unread \/ received = ReceivedHash(infoHash))
<1>1. HashInit => Inv
  BY DEF HashInit
<1>2. Inv /\ [AnnounceHash]_hashVars => Inv'
  BY DEF AnnounceHash, hashVars
<1>3. Inv => HashesApart
  <2> SUFFICES ASSUME infoHash \in Hashes, received = ReceivedHash(infoHash)
               PROVE  HashesApart
    BY DEF HashesApart
  <2>0. ToSet(infoHash) = { infoHash[i] : i \in DOMAIN infoHash }
    BY DEF ToSet
  <2>1. CASE \A i \in DOMAIN infoHash : infoHash[i] # 37
    <3>1. received = [ok |-> TRUE, bytes |-> Spaced(infoHash)]
      BY <2>1, Receives
    <3> QED
      BY <2>0, <2>1, <3>1 DEF HashesApart, Spaced
  <2>2. CASE \E i \in DOMAIN infoHash : infoHash[i] = 37
    <3>1. received = Invalid
      BY <2>2, Receives
    <3> QED
      BY <2>0, <2>2, <3>1 DEF HashesApart, Invalid
  <2> QED
    BY <2>1, <2>2
<1> QED
  BY <1>1, <1>2, <1>3, PTL DEF HashSpec

-----------------------------------------------------------------------------
(* Parts of strings, and where a symbol is found first.                   *)

(* A set of positions has a first one.                                     *)
LEMMA Least ==
    ASSUME NEW I \in SUBSET Nat, I # {}
    PROVE  Min(I) \in I /\ \A j \in I : Min(I) <= j
<1>1. \E i \in I : \A j \in I : i <= j
  <2>1. SUFFICES ASSUME \A i \in I : \E j \in I : ~(i <= j) PROVE FALSE
    OBVIOUS
  <2> DEFINE T == { n \in Nat : \A i \in I : n < i }
  <2>2. ASSUME NEW i \in I PROVE i # 0
    <3>1. PICK j \in I : ~(i <= j)
      BY <2>1
    <3> QED
      BY <3>1
  <2>3. 0 \in T
    BY <2>2
  <2>4. ASSUME NEW n \in Nat, n \in T PROVE n + 1 \in T
    <3>1. SUFFICES ASSUME NEW i \in I PROVE n + 1 < i
      OBVIOUS
    <3>2. PICK j \in I : ~(i <= j)
      BY <2>1
    <3>3. n < j /\ n < i
      BY <2>4
    <3> QED
      BY <3>2, <3>3
  <2>5. Nat \subseteq T
    <3> HIDE DEF T
    <3> QED
      BY <2>3, <2>4, Induct
  <2>6. PICK i \in I : TRUE
    OBVIOUS
  <2>7. i \in T
    BY <2>5
  <2> QED
    BY <2>7
<1> QED
  BY <1>1 DEF Min

(* Part of a sequence.                                                     *)
LEMMA Between ==
    ASSUME NEW S, NEW s \in Seq(S), NEW i \in Nat \ {0}, NEW j \in Int, j <= Len(s)
    PROVE  /\ SubSeq(s, i, j) \in Seq(S)
           /\ Len(SubSeq(s, i, j)) = IF i <= j THEN j - i + 1 ELSE 0
           /\ \A n \in 1..Len(SubSeq(s, i, j)) :
                 i + n - 1 \in i..j /\ SubSeq(s, i, j)[n] = s[i + n - 1]
<1> DEFINE L == IF i <= j THEN j - i + 1 ELSE 0
           b == [n \in 1..L |-> s[i + n - 1]]
<1>1. Len(s) \in Nat /\ L \in Nat
  OBVIOUS
<1>2. SubSeq(s, i, j) = b
  <2>1. SubSeq(s, i, j) = [n \in 1..(j - i + 1) |-> s[i + n - 1]]
    OBVIOUS
  <2>2. 1..(j - i + 1) = 1..L
    BY <1>1
  <2> QED
    BY <2>1, <2>2
<1>3. \A n \in 1..L : i + n - 1 \in i..j /\ i + n - 1 \in 1..Len(s)
  BY <1>1
<1>4. \A n \in 1..L : b[n] = s[i + n - 1] /\ s[i + n - 1] \in S
  BY <1>3
<1>5. b \in Seq(S) /\ Len(b) = L
  BY <1>1, <1>4
<1> HIDE DEF b
<1> QED
  BY <1>2, <1>3, <1>4, <1>5

(* Two sequences with the same elements are one.                          *)
LEMMA Same ==
    ASSUME NEW S, NEW a \in Seq(S), NEW b \in Seq(S), Len(a) = Len(b),
           \A n \in 1..Len(a) : a[n] = b[n]
    PROVE  a = b
  OBVIOUS

(* A sequence without its end.                                             *)
LEMMA Shortened ==
    ASSUME NEW S, NEW s \in Seq(S), NEW c \in Nat \ {0}, s # <<>>
    PROVE  /\ SubSeq(s, 1, Len(s) - c) \in Seq(S)
           /\ Begins(s, SubSeq(s, 1, Len(s) - c))
           /\ Len(SubSeq(s, 1, Len(s) - c)) < Len(s)
<1>1. Len(s) \in Nat \ {0}
  OBVIOUS
<1>2. Len(s) - c \in Int /\ Len(s) - c <= Len(s)
  BY <1>1
<1> DEFINE t == SubSeq(s, 1, Len(s) - c)
<1>3. /\ t \in Seq(S)
      /\ Len(t) = IF 1 <= Len(s) - c THEN Len(s) - c - 1 + 1 ELSE 0
      /\ \A n \in 1..Len(t) : t[n] = s[1 + n - 1]
  BY <1>2, Between
<1> HIDE DEF t
<1>4. \A n \in 1..Len(t) : 1 + n - 1 = n
  BY <1>3
<1>5. Len(t) \in Nat /\ Len(t) < Len(s)
  BY <1>1, <1>3
<1>6. Begins(s, t)
  BY <1>1, <1>3, <1>4, <1>5 DEF Begins
<1> QED
  BY <1>3, <1>5, <1>6 DEF t

-----------------------------------------------------------------------------
(* First finds the first.                                                  *)
LEMMA FirstIs ==
    ASSUME NEW S, NEW s \in Seq(S), NEW i \in Nat \ {0}, NEW c
    PROVE  /\ First(s, i, c) \in {0} \cup i..Len(s)
           /\ First(s, i, c) = 0 => \A j \in i..Len(s) : s[j] # c
           /\ First(s, i, c) # 0 => /\ s[First(s, i, c)] = c
                                    /\ \A j \in i..First(s, i, c) - 1 : s[j] # c
<1> DEFINE I == { j \in i..Len(s) : s[j] = c }
<1>1. First(s, i, c) = IF I # {} THEN Min(I) ELSE 0
  BY DEF First, SelectInSubSeq
<1>2. Len(s) \in Nat /\ I \in SUBSET Nat
  OBVIOUS
<1>3. CASE I = {}
  BY <1>1, <1>3
<1>4. CASE I # {}
  <2>1. Min(I) \in I /\ \A j \in I : Min(I) <= j
    BY <1>2, <1>4, Least
  <2>2. First(s, i, c) = Min(I)
    BY <1>1, <1>4
  <2> DEFINE m == Min(I)
  <2>3. m \in i..Len(s) /\ s[m] = c /\ \A j \in i..Len(s) : s[j] = c => m <= j
    BY <2>1
  <2> HIDE DEF m
  <2>4. \A j \in i..m - 1 : s[j] # c
    <3>1. \A j \in i..m - 1 : j \in i..Len(s) /\ ~(m <= j)
      BY <1>2, <2>3
    <3> QED
      BY <2>3, <3>1
  <2>5. m # 0
    BY <2>3
  <2> QED
    BY <2>2, <2>3, <2>4, <2>5 DEF m
<1> QED
  BY <1>3, <1>4

(* It is found where it is.                                                *)
LEMMA FirstFound ==
    ASSUME NEW S, NEW s \in Seq(S), NEW i \in Nat \ {0}, NEW c, NEW m \in i..Len(s),
           s[m] = c, \A j \in i..m - 1 : s[j] # c
    PROVE  First(s, i, c) = m
<1> DEFINE n == First(s, i, c)
<1>1. /\ n \in {0} \cup i..Len(s)
      /\ n = 0 => \A j \in i..Len(s) : s[j] # c
      /\ n # 0 => s[n] = c /\ \A j \in i..n - 1 : s[j] # c
  BY FirstIs
<1>2. Len(s) \in Nat
  OBVIOUS
<1> HIDE DEF n
<1>3. n # 0
  BY <1>1
<1>4. ~(n < m) /\ ~(m < n)
  BY <1>1, <1>2, <1>3
<1> QED
  BY <1>1, <1>2, <1>3, <1>4 DEF n

-----------------------------------------------------------------------------
(* Recursions, and the numbers that digits make.                          *)

\* f starts with b, and h makes each element from the one before.
IsRecursion(f, V, b, h, N) ==
    /\ f \in [0..N -> V]
    /\ f[0] = b
    /\ \A n \in 1..N : f[n] = h[n][f[n - 1]]

(* A recursion from each number to the next has a solution.                *)
LEMMA Forward ==
    ASSUME NEW V, NEW b \in V, NEW h \in [Nat -> [V -> V]], NEW N \in Nat
    PROVE  \E f : IsRecursion(f, V, b, h, N)
<1> DEFINE T == { k \in Nat : \E f : IsRecursion(f, V, b, h, k) }
<1>1. 0 \in T
  <2> DEFINE f == [n \in 0..0 |-> b]
  <2>1. IsRecursion(f, V, b, h, 0)
    BY DEF IsRecursion
  <2> QED
    BY <2>1
<1>2. ASSUME NEW k \in Nat, k \in T PROVE k + 1 \in T
  <2>1. PICK f : IsRecursion(f, V, b, h, k)
    BY <1>2
  <2>2. f \in [0..k -> V] /\ f[0] = b /\ \A n \in 1..k : f[n] = h[n][f[n - 1]]
    BY <2>1 DEF IsRecursion
  <2> DEFINE last == h[k + 1][f[k]]
             g == [n \in 0..k + 1 |-> IF n = k + 1 THEN last ELSE f[n]]
  <2>3. f[k] \in V /\ k + 1 \in Nat
    BY <2>2
  <2>4. last \in V
    BY <2>3
  <2> HIDE DEF last
  <2>5. \A n \in 0..k : g[n] = f[n]
    OBVIOUS
  <2>6. g \in [0..k + 1 -> V]
    BY <2>2, <2>4
  <2>7. g[k + 1] = last
    OBVIOUS
  <2> HIDE DEF g
  <2>8. g[0] = b
    BY <2>2, <2>5
  <2>9. ASSUME NEW n \in 1..k + 1 PROVE g[n] = h[n][g[n - 1]]
    <3>1. n - 1 \in 0..k
      OBVIOUS
    <3>2. CASE n = k + 1
      BY <2>5, <2>7, <3>1, <3>2 DEF last
    <3>3. CASE n # k + 1
      <4>1. n \in 1..k /\ n \in 0..k
        BY <3>3
      <4> QED
        BY <2>2, <2>5, <3>1, <4>1
    <3> QED
      BY <3>2, <3>3
  <2>10. IsRecursion(g, V, b, h, k + 1)
    BY <2>6, <2>8, <2>9 DEF IsRecursion
  <2> QED
    BY <2>10
<1>3. N \in T
  <2> HIDE DEF T
  <2> QED
    BY <1>1, <1>2, Induct
<1> QED
  BY <1>3

-----------------------------------------------------------------------------
(* Digits stand for the numbers they are, and are no other symbol.        *)
LEMMA DigitValues ==
    /\ \A k \in 0..9 : Numeral[k + 1] \in Digit /\ DigitValue(Numeral[k + 1]) = k
    /\ \A x \in Digit : DigitValue(x) \in 0..9
    /\ \A x \in Digit : x \notin {"-", "+", "e", "i", "l", "d", ":"}
<1>1. ASSUME NEW k \in 0..9 PROVE Numeral[k + 1] \in Digit
  <2>1. k + 1 \in 1..10
    OBVIOUS
  <2> QED
    BY <2>1 DEF Digit
<1>2. ASSUME NEW k \in 0..9, NEW j \in 0..9, Numeral[k + 1] = Numeral[j + 1] PROVE k = j
  BY <1>2 DEF Numeral
<1>3. ASSUME NEW k \in 0..9 PROVE DigitValue(Numeral[k + 1]) = k
  <2>1. \A j \in 0..9 : Numeral[j + 1] = Numeral[k + 1] <=> j = k
    BY <1>2
  <2> HIDE DEF Numeral
  <2> QED
    BY <2>1 DEF DigitValue
<1>4. ASSUME NEW x \in Digit PROVE \E k \in 0..9 : x = Numeral[k + 1]
  <2>1. PICK i \in 1..10 : x = Numeral[i]
    BY DEF Digit
  <2>2. i - 1 \in 0..9 /\ (i - 1) + 1 = i
    OBVIOUS
  <2> QED
    BY <2>1, <2>2
<1>5. ASSUME NEW x \in Digit
      PROVE  x \notin {"-", "+", "e", "i", "l", "d", ":"}
  <2>1. \A k \in 0..9 : Numeral[k + 1] \in {"0", "1", "2", "3", "4", "5", "6", "7", "8", "9"}
    BY DEF Numeral
  <2>2. x \in {"0", "1", "2", "3", "4", "5", "6", "7", "8", "9"}
    BY <1>4, <2>1
  <2> QED
    BY <2>2
<1> QED
  BY <1>1, <1>3, <1>4, <1>5

(* The recursion of Value has a solution.                                  *)
LEMMA Counting ==
    ASSUME NEW d \in Seq(Digit)
    PROVE  \E v \in [0..Len(d) -> Nat] :
              /\ v[0] = 0
              /\ \A n \in 1..Len(d) : v[n] = 10 * v[n - 1] + DigitValue(d[n])
              /\ Value(d) = v[Len(d)]
<1> DEFINE N == Len(d)
           digit == [n \in Nat |-> IF n \in 1..N THEN DigitValue(d[n]) ELSE 0]
           h == [n \in Nat |-> [v \in Nat |-> 10 * v + digit[n]]]
           IsCount(v) == v = [n \in 0..N |->
                                IF n = 0 THEN 0 ELSE 10 * v[n - 1] + DigitValue(d[n])]
<1>1. N \in Nat /\ \A n \in Nat : digit[n] \in Nat
  <2>1. N \in Nat /\ \A n \in 1..N : d[n] \in Digit
    OBVIOUS
  <2>2. \A n \in 1..N : DigitValue(d[n]) \in 0..9
    BY <2>1, DigitValues
  <2> QED
    BY <2>1, <2>2
<1> HIDE DEF digit
<1>2. h \in [Nat -> [Nat -> Nat]] /\ \A n, v \in Nat : h[n][v] = 10 * v + digit[n]
  <2>1. \A n, v \in Nat : 10 * v + digit[n] \in Nat
    BY <1>1
  <2> QED
    BY <2>1
<1>3. PICK w : IsRecursion(w, Nat, 0, h, N)
  <2> HIDE DEF h
  <2> QED
    BY <1>1, <1>2, Forward
<1>4. /\ w \in [0..N -> Nat] /\ w[0] = 0
      /\ \A n \in 1..N : w[n] = 10 * w[n - 1] + DigitValue(d[n])
  <2> HIDE DEF h
  <2>1. w \in [0..N -> Nat] /\ w[0] = 0 /\ \A n \in 1..N : w[n] = h[n][w[n - 1]]
    BY <1>3 DEF IsRecursion
  <2>2. ASSUME NEW n \in 1..N PROVE w[n] = 10 * w[n - 1] + DigitValue(d[n])
    <3>1. n - 1 \in 0..N /\ n \in Nat /\ digit[n] = DigitValue(d[n])
      BY <1>1 DEF digit
    <3>2. w[n - 1] \in Nat
      BY <2>1, <3>1
    <3> QED
      BY <1>2, <2>1, <3>1, <3>2
  <2> QED
    BY <2>1, <2>2
<1>5. IsCount(w)
  <2>1. w = [n \in 0..N |-> w[n]]
    BY <1>4
  <2>2. \A n \in 0..N : w[n] = IF n = 0 THEN 0 ELSE 10 * w[n - 1] + DigitValue(d[n])
    BY <1>4
  <2> QED
    BY <2>1, <2>2
<1> DEFINE v == CHOOSE f : IsCount(f)
<1>6. IsCount(v)
  <2> HIDE DEF IsCount
  <2> QED
    BY <1>5
<1>7. Value(d) = v[N]
  BY DEF Value
<1> HIDE DEF v
<1>8. /\ v[0] = 0 /\ \A n \in 1..N : v[n] = 10 * v[n - 1] + DigitValue(d[n])
      /\ v = [n \in 0..N |-> v[n]]
  <2>1. 0 \in 0..N /\ \A n \in 1..N : n \in 0..N /\ n # 0
    BY <1>1
  <2> QED
    BY <1>6, <2>1
<1>9. \A n \in 0..N : v[n] \in Nat
  <2> DEFINE T == { n \in Nat : n <= N => v[n] \in Nat }
  <2>1. 0 \in T
    BY <1>8
  <2>2. ASSUME NEW n \in Nat, n \in T PROVE n + 1 \in T
    <3>1. SUFFICES ASSUME n + 1 <= N PROVE v[n + 1] \in Nat
      OBVIOUS
    <3>2. n + 1 \in 1..N /\ (n + 1) - 1 = n /\ n <= N
      BY <1>1, <3>1
    <3>3. DigitValue(d[n + 1]) \in 0..9
      <4>1. d[n + 1] \in Digit
        BY <3>2
      <4> QED
        BY <4>1, DigitValues
    <3>4. v[n] \in Nat /\ v[n + 1] = 10 * v[n] + DigitValue(d[n + 1])
      <4>1. v[n + 1] = 10 * v[(n + 1) - 1] + DigitValue(d[n + 1])
        BY <1>8, <3>2
      <4> QED
        BY <2>2, <3>2, <4>1
    <3> QED
      BY <3>3, <3>4
  <2>3. Nat \subseteq T
    <3> HIDE DEF T
    <3> QED
      BY <2>1, <2>2, Induct
  <2> QED
    BY <2>3
<1>10. v \in [0..N -> Nat]
  BY <1>8, <1>9
<1> QED
  BY <1>7, <1>8, <1>10

(* Digits make a number.                                                  *)
LEMMA ValueIsNat ==
    ASSUME NEW d \in Seq(Digit)
    PROVE  Value(d) \in Nat
<1>1. Len(d) \in Nat
  OBVIOUS
<1> QED
  BY <1>1, Counting

(* A digit behind the others.                                              *)
LEMMA ValueLonger ==
    ASSUME NEW d \in Seq(Digit), NEW e \in Seq(Digit), Len(e) = Len(d) + 1,
           \A j \in 1..Len(d) : e[j] = d[j]
    PROVE  Value(e) = 10 * Value(d) + DigitValue(e[Len(e)])
<1> DEFINE N == Len(d)
<1>1. N \in Nat
  OBVIOUS
<1>2. PICK v \in [0..N -> Nat] :
         /\ v[0] = 0
         /\ \A n \in 1..N : v[n] = 10 * v[n - 1] + DigitValue(d[n])
         /\ Value(d) = v[N]
  BY Counting
<1>3. PICK w \in [0..Len(e) -> Nat] :
         /\ w[0] = 0
         /\ \A n \in 1..Len(e) : w[n] = 10 * w[n - 1] + DigitValue(e[n])
         /\ Value(e) = w[Len(e)]
  BY Counting
<1> DEFINE T == { n \in Nat : n <= N => w[n] = v[n] }
<1>4. 0 \in T
  BY <1>2, <1>3
<1>5. ASSUME NEW n \in Nat, n \in T PROVE n + 1 \in T
  <2>1. SUFFICES ASSUME n + 1 <= N PROVE w[n + 1] = v[n + 1]
    OBVIOUS
  <2>2. n + 1 \in 1..N /\ n + 1 \in 1..Len(e) /\ (n + 1) - 1 = n /\ n <= N
    BY <1>1, <2>1
  <2>3. e[n + 1] = d[n + 1]
    BY <2>2
  <2>4. /\ w[n + 1] = 10 * w[(n + 1) - 1] + DigitValue(e[n + 1])
        /\ v[n + 1] = 10 * v[(n + 1) - 1] + DigitValue(d[n + 1])
    BY <1>2, <1>3, <2>2
  <2> QED
    BY <1>5, <2>2, <2>3, <2>4
<1>6. N \in T
  <2> HIDE DEF T
  <2> QED
    BY <1>1, <1>4, <1>5, Induct
<1>7. Len(e) \in 1..Len(e) /\ Len(e) - 1 = N
  BY <1>1
<1> QED
  BY <1>2, <1>3, <1>6, <1>7

\* The recursion of Digits.
WithLast(f, n) == (IF n < 10 THEN <<>> ELSE f[n \div 10]) \o <<Numeral[(n % 10) + 1]>>

(* A number of two digits or more without its last one.                   *)
LEMMA Tenth ==
    ASSUME NEW n \in Nat
    PROVE  /\ n \div 10 \in Nat /\ n % 10 \in 0..9 /\ n = 10 * (n \div 10) + (n % 10)
           /\ n >= 10 => n \div 10 < n
           /\ n < 10 => n % 10 = n
<1>1. n \div 10 \in Nat /\ n % 10 \in 0..9 /\ n = 10 * (n \div 10) + (n % 10)
  BY SMT
<1>2. n >= 10 => n \div 10 < n
  BY SMT
<1>3. n < 10 => n % 10 = n
  BY SMT
<1> QED
  BY <1>1, <1>2, <1>3

(* It has a solution.                                                      *)
LEMMA Writing ==
    ASSUME NEW k \in Nat
    PROVE  \E f : Digits(k) = f[k] /\ \A n \in 0..k : f[n] = WithLast(f, n)
<1> DEFINE Solves(f, m) == f = [n \in 0..m |-> WithLast(f, n)]
           T == { m \in Nat : \E f : Solves(f, m) }
<1>1. 0 \in T
  <2> DEFINE f == [n \in 0..0 |-> <<>> \o <<Numeral[(n % 10) + 1]>>]
  <2>1. Solves(f, 0)
    BY DEF WithLast
  <2> QED
    BY <2>1
<1>2. ASSUME NEW m \in Nat, m \in T PROVE m + 1 \in T
  <2>1. PICK f : Solves(f, m)
    BY <1>2
  <2> DEFINE g == [n \in 0..m + 1 |-> IF n = m + 1 THEN WithLast(f, n) ELSE f[n]]
  <2>2. \A n \in 0..m : g[n] = f[n] /\ f[n] = WithLast(f, n)
    BY <2>1
  <2>3. ASSUME NEW n \in 0..m + 1 PROVE g[n] = WithLast(g, n)
    <3>1. WithLast(g, n) = WithLast(f, n)
      <4>1. n >= 10 => n \div 10 \in 0..m
        BY Tenth
      <4> HIDE DEF g
      <4>2. ~(n < 10) => g[n \div 10] = f[n \div 10]
        BY <2>2, <4>1
      <4> QED
        BY <4>2, Zenon DEF WithLast
    <3>2. CASE n = m + 1
      BY <3>1, <3>2
    <3>3. CASE n # m + 1
      <4>1. n \in 0..m
        BY <3>3
      <4> QED
        BY <2>2, <3>1, <4>1
    <3> QED
      BY <3>2, <3>3
  <2>4. g = [n \in 0..m + 1 |-> WithLast(g, n)]
    <3>1. g = [n \in 0..m + 1 |-> g[n]]
      OBVIOUS
    <3> HIDE DEF g
    <3> QED
      BY <2>3, <3>1
  <2> HIDE DEF g
  <2>5. m + 1 \in Nat /\ Solves(g, m + 1)
    BY <2>4
  <2> HIDE DEF Solves
  <2> QED
    BY <2>5
<1>3. k \in T
  <2> HIDE DEF T
  <2> QED
    BY <1>1, <1>2, Induct
<1> DEFINE upTo == CHOOSE f : Solves(f, k)
<1>4. Solves(upTo, k)
  BY <1>3
<1>5. Digits(k) = upTo[k]
  BY DEF Digits, WithLast
<1> HIDE DEF upTo
<1>6. \A n \in 0..k : upTo[n] = WithLast(upTo, n)
  BY <1>4
<1> QED
  BY <1>5, <1>6

(* A number is written with its digits, and they are read as the number.   *)
LEMMA DigitsMean ==
    ASSUME NEW k \in Nat
    PROVE  Digits(k) \in Seq(Digit) /\ Digits(k) # <<>> /\ Value(Digits(k)) = k
<1>1. PICK f : Digits(k) = f[k] /\ \A n \in 0..k : f[n] = WithLast(f, n)
  BY Writing
<1> DEFINE Means(d, n) == d \in Seq(Digit) /\ d # <<>> /\ Value(d) = n
           T == { m \in Nat : \A n \in 0..k : n <= m => Means(f[n], n) }
<1>2. ASSUME NEW n \in 0..k, n >= 10 => Means(f[n \div 10], n \div 10)
      PROVE  Means(f[n], n)
  <2> DEFINE d == IF n < 10 THEN <<>> ELSE f[n \div 10]
             x == Numeral[(n % 10) + 1]
             e == d \o <<x>>
  <2>1. /\ n \div 10 \in Nat /\ n % 10 \in 0..9 /\ n = 10 * (n \div 10) + (n % 10)
        /\ n < 10 => n % 10 = n
    BY Tenth
  <2>2. x \in Digit /\ DigitValue(x) = n % 10
    BY <2>1, DigitValues
  <2>3. f[n] = e
    BY <1>1 DEF WithLast
  <2>4. d \in Seq(Digit) /\ 10 * Value(d) = n - (n % 10)
    <3>1. CASE n < 10
      <4>1. d = <<>> /\ <<>> \in Seq(Digit) /\ Len(<<>>) = 0
        BY <3>1
      <4>2. Value(<<>>) = 0
        <5>1. PICK v : v[0] = 0 /\ Value(<<>>) = v[Len(<<>>)]
          BY <4>1, Counting
        <5> QED
          BY <4>1, <5>1
      <4> HIDE DEF d
      <4> QED
        BY <2>1, <3>1, <4>1, <4>2
    <3>2. CASE ~(n < 10)
      <4>1. d = f[n \div 10] /\ Means(d, n \div 10)
        BY <1>2, <3>2
      <4> HIDE DEF d
      <4> QED
        BY <2>1, <4>1
    <3> QED
      BY <3>1, <3>2
  <2> HIDE DEF d, x
  <2>5. <<x>> \in Seq(Digit) /\ Len(<<x>>) = 1 /\ <<x>>[1] = x
    BY <2>2
  <2>6. /\ e \in Seq(Digit)
        /\ Len(e) = Len(d) + 1
        /\ \A j \in 1..Len(d) : e[j] = d[j]
        /\ e[Len(d) + 1] = x
    <3>1. /\ e \in Seq(Digit)
          /\ Len(e) = Len(d) + Len(<<x>>)
          /\ \A j \in 1..Len(d) : e[j] = d[j]
          /\ \A j \in 1..Len(<<x>>) : e[Len(d) + j] = <<x>>[j]
      BY <2>4, <2>5, Joining
    <3>2. 1 \in 1..Len(<<x>>)
      BY <2>5
    <3> HIDE DEF e
    <3> QED
      BY <2>5, <3>1, <3>2
  <2> HIDE DEF e
  <2>7. Value(e) = 10 * Value(d) + DigitValue(e[Len(e)])
    BY <2>4, <2>6, ValueLonger
  <2>8. Value(e) = n
    BY <2>1, <2>2, <2>4, <2>6, <2>7
  <2>9. e # <<>>
    <3>1. Len(d) \in Nat
      BY <2>4
    <3>2. Len(e) # 0
      BY <2>6, <3>1
    <3> QED
      BY <3>2
  <2> QED
    BY <2>3, <2>6, <2>8, <2>9
<1> HIDE DEF Means
<1>3. 0 \in T
  <2>1. \A n \in 0..k : n <= 0 => ~(n >= 10)
    OBVIOUS
  <2> QED
    BY <1>2, <2>1
<1>4. ASSUME NEW m \in Nat, m \in T PROVE m + 1 \in T
  <2>1. SUFFICES ASSUME NEW n \in 0..k, n <= m + 1 PROVE Means(f[n], n)
    OBVIOUS
  <2>2. n >= 10 => n \div 10 \in 0..k /\ n \div 10 <= m
    BY <2>1, Tenth
  <2> QED
    BY <1>2, <1>4, <2>2
<1>5. k \in T
  <2> HIDE DEF T
  <2> QED
    BY <1>3, <1>4, Induct
<1>6. Means(f[k], k)
  BY <1>5
<1> QED
  BY <1>1, <1>6 DEF Means

-----------------------------------------------------------------------------
(* Scanning.                                                              *)

(* What is behind the first element.                                      *)
LEMMA Behind ==
    ASSUME NEW S, NEW u \in Seq(S), NEW x
    PROVE  /\ Len(Append(u, x)) = Len(u) + 1
           /\ \A j \in 1..Len(u) : Append(u, x)[j] = u[j]
           /\ Append(u, x)[Len(u) + 1] = x
           /\ Append(u, x) \in Seq(S \cup {x})
<1>1. Len(u) \in Nat /\ u \in Seq(S \cup {x})
  OBVIOUS
<1> QED
  BY <1>1

(* What Sscanf takes for the number.                                       *)
LEMMA LeadingIs ==
    ASSUME NEW S, NEW u \in Seq(S)
    PROVE  /\ Leading(u) \in Seq(Digit)
           /\ u \in Seq(Digit) => Leading(u) = u
<1> DEFINE w == Append(u, ":")
           I == { j \in 1..Len(w) : w[j] \notin Digit }
           m == Min(I)
<1>1. /\ Len(w) = Len(u) + 1 /\ w[Len(u) + 1] = ":" /\ \A j \in 1..Len(u) : w[j] = u[j]
      /\ Len(u) \in Nat
  BY Behind
<1>2. Leading(u) = SubSeq(u, 1, (IF I # {} THEN m ELSE 0) - 1)
  BY DEF Leading, SelectInSeq
<1> HIDE DEF w
<1>3. Len(u) + 1 \in I
  BY <1>1, DigitValues
<1>4. m \in I /\ \A j \in I : m <= j
  <2>1. I \in SUBSET Nat /\ I # {}
    BY <1>3
  <2> HIDE DEF I
  <2> QED
    BY <2>1, Least
<1>5. Leading(u) = SubSeq(u, 1, m - 1)
  BY <1>2, <1>3
<1> HIDE DEF m
<1>6. m \in 1..Len(u) + 1
  BY <1>1, <1>4
<1>7. \A j \in 1..m - 1 : j \in 1..Len(u) /\ u[j] \in Digit
  <2>1. \A j \in 1..m - 1 : j \in 1..Len(u) /\ j \in 1..Len(w) /\ ~(m <= j)
    BY <1>1, <1>6
  <2> QED
    BY <1>1, <1>4, <2>1
<1> DEFINE d == SubSeq(u, 1, m - 1)
<1>8. d \in Seq(S) /\ Len(d) = m - 1 /\ \A n \in 1..Len(d) : d[n] = u[n]
  <2>1. m - 1 \in Int /\ m - 1 <= Len(u) /\ 1 \in Nat \ {0}
    BY <1>1, <1>6
  <2>2. /\ d \in Seq(S)
        /\ Len(d) = IF 1 <= m - 1 THEN m - 1 - 1 + 1 ELSE 0
        /\ \A n \in 1..Len(d) : d[n] = u[1 + n - 1]
    BY <2>1, Between
  <2> HIDE DEF d
  <2>3. Len(d) = m - 1 /\ \A n \in 1..Len(d) : 1 + n - 1 = n
    BY <1>6, <2>2
  <2> QED
    BY <2>2, <2>3
<1> HIDE DEF d
<1>9. d \in Seq(Digit)
  <2>1. \A n \in 1..Len(d) : d[n] \in Digit
    BY <1>7, <1>8
  <2> QED
    BY <1>8, <2>1
<1>10. ASSUME u \in Seq(Digit) PROVE d = u
  <2>1. m = Len(u) + 1
    <3>1. \A j \in 1..Len(u) : w[j] \in Digit
      BY <1>1, <1>10
    <3>2. ~(m \in 1..Len(u))
      BY <1>4, <3>1
    <3> QED
      BY <1>1, <1>6, <3>2
  <2> QED
    BY <1>8, <2>1, Same
<1> QED
  BY <1>5, <1>9, <1>10 DEF d

(* Digits are scanned as they are, with whatever sign.                    *)
LEMMA Scanned ==
    ASSUME NEW S, NEW u \in Seq(S), u # <<>>, u[1] \in Digit
    PROVE  /\ Scan(u) = [ok |-> Leading(u) # <<>>, value |-> Value(Leading(u))]
           /\ Scan(u).value \in Nat
<1>1. Value(Leading(u)) \in Nat
  BY LeadingIs, ValueIsNat
<1>2. Scan(u) = ScanDigits(Leading(u), 1)
  BY DigitValues DEF Scan
<1>3. 1 * Value(Leading(u)) = Value(Leading(u))
  BY <1>1
<1> QED
  BY <1>1, <1>2, <1>3 DEF ScanDigits

(* Sscanf reads the number that was written.                              *)
LEMMA DigitsScan ==
    ASSUME NEW k \in Nat
    PROVE  Scan(Digits(k)) = [ok |-> TRUE, value |-> k]
<1>1. Digits(k) \in Seq(Digit) /\ Digits(k) # <<>> /\ Value(Digits(k)) = k
  BY DigitsMean
<1>2. Digits(k)[1] \in Digit
  BY <1>1
<1>3. Leading(Digits(k)) = Digits(k)
  BY <1>1, LeadingIs
<1> QED
  BY <1>1, <1>2, <1>3, Scanned

-----------------------------------------------------------------------------
\* r is Failed, or something that ends within the bounds.
Reads(r, lo, hi) == r = Failed \/ \E v : \E n \in lo..hi : r = Decoded(v, n)

(* What is read ends within the bounds, or it is Failed.                  *)
LEMMA ReadsOk ==
    ASSUME NEW r, NEW lo \in Int, NEW hi \in Int, Reads(r, lo, hi)
    PROVE  /\ r.ok \in BOOLEAN
           /\ r.ok => r = Decoded(r.node, r.next) /\ r.next \in lo..hi
           /\ ~r.ok => r = Failed
<1>1. CASE r = Failed
  BY <1>1 DEF Failed
<1>2. CASE r # Failed
  <2>1. PICK v : \E n \in lo..hi : r = Decoded(v, n)
    BY <1>2 DEF Reads
  <2>2. PICK n \in lo..hi : r = Decoded(v, n)
    BY <2>1
  <2>3. r.ok = TRUE /\ r.node = v /\ r.next = n
    BY <2>2 DEF Decoded
  <2> QED
    BY <2>2, <2>3
<1> QED
  BY <1>1, <1>2

(* The fields of what was decoded.                                        *)
LEMMA DecodedIs ==
    ASSUME NEW v, NEW n
    PROVE  Decoded(v, n).ok /\ Decoded(v, n).node = v /\ Decoded(v, n).next = n
  BY DEF Decoded

(* What is found in a sequence is found in one that begins with it.        *)
LEMMA FirstSame ==
    ASSUME NEW S, NEW s \in Seq(S), NEW t \in Seq(S), Begins(s, t),
           NEW i \in Nat \ {0}, NEW c, First(t, i, c) # 0
    PROVE  /\ First(t, i, c) \in i..Len(t)
           /\ First(s, i, c) = First(t, i, c)
           /\ SubSeq(s, i, First(t, i, c) - 1) = SubSeq(t, i, First(t, i, c) - 1)
<1> DEFINE m == First(t, i, c)
<1>1. /\ m \in i..Len(t)
      /\ t[m] = c
      /\ \A j \in i..m - 1 : t[j] # c
  BY FirstIs
<1> HIDE DEF m
<1>2. /\ Len(s) \in Nat /\ Len(t) \in Nat /\ Len(t) <= Len(s)
      /\ \A j \in 1..Len(t) : s[j] = t[j]
  BY DEF Begins
<1>3. m \in i..Len(s) /\ s[m] = c
  BY <1>1, <1>2
<1>4. \A j \in i..m - 1 : j \in 1..Len(t) /\ s[j] = t[j]
  BY <1>1, <1>2
<1>5. First(s, i, c) = m
  <2>1. \A j \in i..m - 1 : s[j] # c
    BY <1>1, <1>4
  <2> QED
    BY <1>3, <2>1, FirstFound
<1>6. m - 1 \in Int /\ m - 1 <= Len(s) /\ m - 1 <= Len(t)
  BY <1>1, <1>2
<1> DEFINE a == SubSeq(s, i, m - 1)
           b == SubSeq(t, i, m - 1)
<1>7. /\ a \in Seq(S) /\ b \in Seq(S)
      /\ Len(a) = IF i <= m - 1 THEN (m - 1) - i + 1 ELSE 0
      /\ Len(b) = IF i <= m - 1 THEN (m - 1) - i + 1 ELSE 0
      /\ \A n \in 1..Len(a) : i + n - 1 \in i..m - 1 /\ a[n] = s[i + n - 1]
      /\ \A n \in 1..Len(b) : i + n - 1 \in i..m - 1 /\ b[n] = t[i + n - 1]
  BY <1>6, Between
<1> HIDE DEF a, b
<1>8. Len(a) = Len(b) /\ \A n \in 1..Len(a) : a[n] = b[n]
  BY <1>4, <1>7
<1>9. a = b
  BY <1>7, <1>8, Same
<1> QED
  BY <1>1, <1>5, <1>9 DEF m, a, b

-----------------------------------------------------------------------------
(* Cut short: what is read of t is read of every string that begins with  *)
(* t.                                                                     *)

(* An integer that ends in t is the same in s.                            *)
LEMMA IntSame ==
    ASSUME NEW S, NEW s \in Seq(S), NEW t \in Seq(S), Begins(s, t), NEW i \in 1..Len(t) + 1
    PROVE  /\ Reads(parseInt(t, i), i + 1, Len(t) + 1)
           /\ parseInt(t, i).ok => parseInt(s, i) = parseInt(t, i)
<1> DEFINE m == First(t, i, "e")
           num == Scan(SubSeq(t, i, m - 1))
<1>1. parseInt(t, i) = IF m = 0 \/ ~num.ok THEN Failed ELSE Decoded([int |-> num.value], m + 1)
  BY DEF parseInt
<1>2. Len(t) \in Nat /\ i \in Nat \ {0}
  OBVIOUS
<1>3. CASE m = 0
  <2>1. parseInt(t, i) = Failed /\ ~Failed.ok
    BY <1>1, <1>3 DEF Failed
  <2> QED
    BY <2>1 DEF Reads
<1>4. CASE m # 0
  <2>1. /\ m \in i..Len(t)
        /\ First(s, i, "e") = m
        /\ SubSeq(s, i, m - 1) = SubSeq(t, i, m - 1)
    BY <1>2, <1>4, FirstSame
  <2>2. parseInt(s, i) = parseInt(t, i)
    BY <1>1, <2>1 DEF parseInt
  <2>3. m + 1 \in i + 1..Len(t) + 1
    BY <1>2, <2>1
  <2> HIDE DEF m, num
  <2>4. Reads(parseInt(t, i), i + 1, Len(t) + 1)
    BY <1>1, <2>3 DEF Reads
  <2> QED
    BY <2>2, <2>4
<1> QED
  BY <1>3, <1>4

(* A string that ends in t is the same in s.                              *)
LEMMA StringSame ==
    ASSUME NEW S, NEW s \in Seq(S), NEW t \in Seq(S), Begins(s, t), NEW i \in 1..Len(t),
           t[i] \in Digit
    PROVE  /\ Reads(parseString(t, i), i + 1, Len(t) + 1)
           /\ parseString(t, i).ok => parseString(s, i) = parseString(t, i)
<1> DEFINE m == First(t, i, ":")
           u == SubSeq(t, i, m - 1)
           num == Scan(u)
           end == m + num.value
<1>1. parseString(t, i) = IF m = 0 \/ ~num.ok \/ end > Len(t) THEN Failed
                          ELSE Decoded([str |-> SubSeq(t, m + 1, end)], end + 1)
  BY DEF parseString
<1>2. Len(t) \in Nat /\ i \in Nat \ {0} /\ Len(s) \in Nat /\ Len(t) <= Len(s)
  BY DEF Begins
<1>3. CASE m = 0 \/ ~num.ok \/ end > Len(t)
  <2>1. parseString(t, i) = Failed /\ ~Failed.ok
    BY <1>1, <1>3 DEF Failed
  <2> QED
    BY <2>1 DEF Reads
<1>4. CASE ~(m = 0 \/ ~num.ok \/ end > Len(t))
  <2>1. /\ m \in i..Len(t)
        /\ First(s, i, ":") = m
        /\ SubSeq(s, i, m - 1) = u
    BY <1>2, <1>4, FirstSame
  <2>2. num.value \in Nat
    <3>1. m # i
      <4>1. t[m] = ":"
        BY <1>2, <1>4, FirstIs
      <4> QED
        BY <4>1, DigitValues
    <3>2. m - 1 \in Int /\ m - 1 <= Len(t) /\ i <= m - 1
      BY <1>2, <2>1, <3>1
    <3> HIDE DEF m
    <3>3. /\ u \in Seq(S) /\ Len(u) = (m - 1) - i + 1
          /\ \A n \in 1..Len(u) : u[n] = t[i + n - 1]
      BY <1>2, <3>2, Between
    <3>4. 1 \in 1..Len(u) /\ i + 1 - 1 = i
      BY <1>2, <3>2, <3>3
    <3> HIDE DEF u
    <3>5. u[1] = t[i] /\ u # <<>>
      BY <3>3, <3>4
    <3> QED
      BY <3>3, <3>5, Scanned
  <2>3. /\ ~(m = 0 \/ ~num.ok \/ end > Len(t))
        /\ end = m + num.value
    BY <1>4
  <2>4. parseString(s, i) = IF m = 0 \/ ~num.ok \/ end > Len(s) THEN Failed
                            ELSE Decoded([str |-> SubSeq(s, m + 1, end)], end + 1)
    BY <2>1 DEF parseString
  <2> HIDE DEF m, num, end
  <2>5. end \in m..Len(t) /\ ~(end > Len(s))
    BY <1>2, <2>1, <2>2, <2>3
  <2>6. SubSeq(s, m + 1, end) = SubSeq(t, m + 1, end)
    <3> DEFINE a == SubSeq(s, m + 1, end)
               b == SubSeq(t, m + 1, end)
    <3>1. m + 1 \in Nat \ {0} /\ end \in Int /\ end <= Len(s) /\ end <= Len(t)
      BY <1>2, <2>1, <2>5
    <3>2. /\ a \in Seq(S)
          /\ Len(a) = IF m + 1 <= end THEN end - (m + 1) + 1 ELSE 0
          /\ \A n \in 1..Len(a) : (m + 1) + n - 1 \in m + 1..end /\ a[n] = s[(m + 1) + n - 1]
      BY <3>1, Between
    <3>3. /\ b \in Seq(S)
          /\ Len(b) = IF m + 1 <= end THEN end - (m + 1) + 1 ELSE 0
          /\ \A n \in 1..Len(b) : (m + 1) + n - 1 \in m + 1..end /\ b[n] = t[(m + 1) + n - 1]
      BY <3>1, Between
    <3> HIDE DEF a, b
    <3>4. \A l \in m + 1..end : s[l] = t[l]
      <4>1. \A l \in m + 1..end : l \in 1..Len(t)
        BY <1>2, <2>1, <2>5
      <4> QED
        BY <4>1 DEF Begins
    <3>5. a = b
      <4>1. Len(a) = Len(b) /\ \A n \in 1..Len(a) : a[n] = b[n]
        BY <3>2, <3>3, <3>4
      <4> QED
        BY <3>2, <3>3, <4>1, Same
    <3> QED
      BY <3>5 DEF a, b
  <2>7. /\ parseString(t, i) = Decoded([str |-> SubSeq(t, m + 1, end)], end + 1)
        /\ parseString(s, i) = parseString(t, i)
    BY <1>1, <2>3, <2>4, <2>5, <2>6, Zenon
  <2>8. end + 1 \in i + 1..Len(t) + 1
    BY <1>2, <2>1, <2>5
  <2>9. Reads(parseString(t, i), i + 1, Len(t) + 1)
    BY <2>7, <2>8 DEF Reads
  <2> QED
    BY <2>7, <2>9
<1> QED
  BY <1>3, <1>4

-----------------------------------------------------------------------------
Kinds == {"list", "dict"}

\* What f has for t behind i, g has for s; where f has anything.
Known(t, f, g, i) ==
    \A kind \in Kinds : \A j \in i + 1..Len(t) + 1 :
        /\ Reads(f[<<kind, j>>], j + 1, Len(t) + 1)
        /\ f[<<kind, j>>].ok => g[<<kind, j>>] = f[<<kind, j>>]

(* A node that ends in t is the same in s.                                *)
LEMMA NodeSame ==
    ASSUME NEW S, NEW s \in Seq(S), NEW t \in Seq(S), Begins(s, t),
           NEW f, NEW g, NEW i \in 1..Len(t) + 1, Known(t, f, g, i)
    PROVE  /\ Reads(parseNode(t, f, i), i + 1, Len(t) + 1)
           /\ parseNode(t, f, i).ok => parseNode(s, g, i) = parseNode(t, f, i)
<1>1. Len(t) \in Nat /\ i \in Nat /\ Len(s) \in Nat /\ Len(t) <= Len(s)
  BY DEF Begins
<1> DEFINE N == Len(t) + 1
<1>2. CASE i > Len(t)
  <2>1. parseNode(t, f, i) = Failed /\ ~Failed.ok
    BY <1>2 DEF parseNode, Failed
  <2> QED
    BY <2>1 DEF Reads
<1>3. CASE ~(i > Len(t))
  <2>1. i \in 1..Len(t) /\ ~(i > Len(s)) /\ s[i] = t[i] /\ i + 1 \in 1..N
    BY <1>1, <1>3 DEF Begins
  <2>2. CASE t[i] = "i"
    <3>1. parseNode(t, f, i) = parseInt(t, i + 1) /\ parseNode(s, g, i) = parseInt(s, i + 1)
      BY <1>3, <2>1, <2>2, DigitValues DEF parseNode
    <3>2. /\ Reads(parseInt(t, i + 1), (i + 1) + 1, N)
          /\ parseInt(t, i + 1).ok => parseInt(s, i + 1) = parseInt(t, i + 1)
      BY <2>1, IntSame
    <3>3. \A n \in (i + 1) + 1..N : n \in i + 1..N
      BY <1>1
    <3>4. Reads(parseInt(t, i + 1), i + 1, N)
      BY <3>2, <3>3 DEF Reads
    <3> QED
      BY <3>1, <3>2, <3>4
  <2>3. CASE t[i] \in Digit
    <3>1. parseNode(t, f, i) = parseString(t, i) /\ parseNode(s, g, i) = parseString(s, i)
      BY <1>3, <2>1, <2>3, DigitValues DEF parseNode
    <3> QED
      BY <2>1, <2>3, <3>1, StringSame
  <2>4. ASSUME NEW kind \in Kinds, NEW r, NEW q,
               r = f[<<kind, i + 1>>], q = g[<<kind, i + 1>>]
        PROVE  /\ Reads(AsList(r), i + 1, N) /\ Reads(AsDict(r), i + 1, N)
               /\ AsList(r).ok => AsList(q) = AsList(r)
               /\ AsDict(r).ok => AsDict(q) = AsDict(r)
    <3>1. i + 1 \in i + 1..N
      BY <1>1, <2>1
    <3>2. Reads(r, (i + 1) + 1, N) /\ (r.ok => q = r)
      BY <2>4, <3>1 DEF Known
    <3>3. r.ok \in BOOLEAN /\ (r.ok => r.next \in (i + 1) + 1..N)
      BY <1>1, <3>2, ReadsOk
    <3>4. CASE r.ok
      <4>1. r.next \in i + 1..N /\ q = r
        BY <1>1, <3>2, <3>3, <3>4
      <4>2. AsList(r) = Decoded([list |-> r.node], r.next) /\ AsDict(r) = Decoded([dict |-> r.node], r.next)
        BY <3>4 DEF AsList, AsDict
      <4> QED
        BY <4>1, <4>2 DEF Reads
    <3>5. CASE ~r.ok
      <4>1. AsList(r) = Failed /\ AsDict(r) = Failed /\ ~Failed.ok
        BY <3>5 DEF AsList, AsDict, Failed
      <4> QED
        BY <4>1 DEF Reads
    <3> QED
      BY <3>3, <3>4, <3>5
  <2>5. CASE t[i] = "l"
    <3>1. /\ parseNode(t, f, i) = AsList(f[<<"list", i + 1>>])
          /\ parseNode(s, g, i) = AsList(g[<<"list", i + 1>>])
      BY <1>3, <2>1, <2>5, DigitValues DEF parseNode
    <3> QED
      BY <2>4, <3>1 DEF Kinds
  <2>6. CASE t[i] = "d"
    <3>1. /\ parseNode(t, f, i) = AsDict(f[<<"dict", i + 1>>])
          /\ parseNode(s, g, i) = AsDict(g[<<"dict", i + 1>>])
      BY <1>3, <2>1, <2>6, DigitValues DEF parseNode
    <3> QED
      BY <2>4, <3>1 DEF Kinds
  <2>7. CASE t[i] \notin {"i", "l", "d"} /\ t[i] \notin Digit
    <3>1. parseNode(t, f, i) = Failed /\ ~Failed.ok
      BY <1>3, <2>7 DEF parseNode, Failed
    <3> QED
      BY <3>1 DEF Reads
  <2> QED
    BY <2>2, <2>3, <2>5, <2>6, <2>7
<1> QED
  BY <1>2, <1>3

(* What is read beyond the end of t is nothing.                            *)
LEMMA NodeWithin ==
    ASSUME NEW t, NEW f, NEW i, parseNode(t, f, i).ok
    PROVE  ~(i > Len(t))
  BY DEF parseNode, Failed

(* So is the end of a list or a dictionary.                               *)
LEMMA AfterEndSame ==
    ASSUME NEW S, NEW s \in Seq(S), NEW t \in Seq(S), Begins(s, t), NEW i \in 1..Len(t) + 1
    PROVE  /\ AfterEnd(t, i) # 0 => i <= Len(t) /\ AfterEnd(t, i) = i + 1 /\ AfterEnd(s, i) = i + 1
           /\ i <= Len(t) => AfterEnd(s, i) = AfterEnd(t, i)
<1>1. Len(t) \in Nat /\ i \in Nat /\ Len(s) \in Nat /\ Len(t) <= Len(s)
  BY DEF Begins
<1>2. i <= Len(t) => s[i] = t[i] /\ i <= Len(s)
  BY <1>1 DEF Begins
<1> QED
  BY <1>1, <1>2 DEF AfterEnd

(* So are the rest of a list ...                                          *)
LEMMA ListSame ==
    ASSUME NEW S, NEW s \in Seq(S), NEW t \in Seq(S), Begins(s, t),
           NEW f, NEW g, NEW i \in 1..Len(t) + 1, Known(t, f, g, i)
    PROVE  /\ Reads(parseList(t, f, i), i + 1, Len(t) + 1)
           /\ parseList(t, f, i).ok => parseList(s, g, i) = parseList(t, f, i)
<1>1. Len(t) \in Nat /\ i \in Nat
  OBVIOUS
<1> DEFINE N == Len(t) + 1
           value == parseNode(t, f, i)
           others == f[<<"list", value.next>>]
           value2 == parseNode(s, g, i)
           others2 == g[<<"list", value2.next>>]
<1>2. parseList(t, f, i) =
         IF AfterEnd(t, i) # 0 THEN Decoded(<<>>, AfterEnd(t, i))
         ELSE IF value.ok /\ others.ok
         THEN Decoded(<<value.node>> \o others.node, others.next)
         ELSE Failed
  BY DEF parseList
<1>3. parseList(s, g, i) =
         IF AfterEnd(s, i) # 0 THEN Decoded(<<>>, AfterEnd(s, i))
         ELSE IF value2.ok /\ others2.ok
         THEN Decoded(<<value2.node>> \o others2.node, others2.next)
         ELSE Failed
  BY DEF parseList
<1>4. Reads(value, i + 1, N) /\ (value.ok => value2 = value)
  BY NodeSame
<1>5. /\ AfterEnd(t, i) # 0 => i <= Len(t) /\ AfterEnd(t, i) = i + 1 /\ AfterEnd(s, i) = i + 1
      /\ i <= Len(t) => AfterEnd(s, i) = AfterEnd(t, i)
  BY AfterEndSame
<1>6. value.ok => ~(i > Len(t))
  BY NodeWithin
<1> HIDE DEF value, value2
<1>7. CASE AfterEnd(t, i) # 0
  <2>1. parseList(t, f, i) = Decoded(<<>>, i + 1) /\ parseList(s, g, i) = Decoded(<<>>, i + 1)
    BY <1>1, <1>2, <1>3, <1>5, <1>7
  <2>2. i + 1 \in i + 1..N
    BY <1>1, <1>5, <1>7
  <2> QED
    BY <2>1, <2>2 DEF Reads
<1>8. CASE AfterEnd(t, i) = 0 /\ value.ok /\ others.ok
  <2>1. value.next \in i + 1..N /\ value2 = value /\ AfterEnd(s, i) = 0
    BY <1>1, <1>4, <1>5, <1>6, <1>8, ReadsOk
  <2>2. Reads(others, value.next + 1, N) /\ others2 = others
    BY <1>8, <2>1 DEF Known, Kinds
  <2> HIDE DEF others, others2
  <2>3. others.next \in value.next + 1..N
    BY <1>1, <1>8, <2>1, <2>2, ReadsOk
  <2>4. others.next \in i + 1..N
    BY <1>1, <2>1, <2>3
  <2>5. /\ parseList(t, f, i) = Decoded(<<value.node>> \o others.node, others.next)
        /\ parseList(s, g, i) = parseList(t, f, i)
    BY <1>2, <1>3, <1>8, <2>1, <2>2, Zenon
  <2> QED
    BY <2>4, <2>5 DEF Reads
<1>9. CASE AfterEnd(t, i) = 0 /\ ~(value.ok /\ others.ok)
  <2>1. parseList(t, f, i) = Failed /\ ~Failed.ok
    BY <1>2, <1>9 DEF Failed
  <2> QED
    BY <2>1 DEF Reads
<1> QED
  BY <1>7, <1>8, <1>9

(* ... and the rest of a dictionary.                                      *)
LEMMA DictSame ==
    ASSUME NEW S, NEW s \in Seq(S), NEW t \in Seq(S), Begins(s, t),
           NEW f, NEW g, NEW i \in 1..Len(t) + 1, Known(t, f, g, i)
    PROVE  /\ Reads(parseDict(t, f, i), i + 1, Len(t) + 1)
           /\ parseDict(t, f, i).ok => parseDict(s, g, i) = parseDict(t, f, i)
<1>1. Len(t) \in Nat /\ i \in Nat /\ Len(s) \in Nat /\ Len(t) <= Len(s)
  BY DEF Begins
<1> DEFINE N == Len(t) + 1
           key == parseString(t, i)
           value == parseNode(t, f, key.next)
           others == f[<<"dict", value.next>>]
           key2 == parseString(s, i)
           value2 == parseNode(s, g, key2.next)
           others2 == g[<<"dict", value2.next>>]
           whole == i <= Len(t) /\ t[i] \in Digit /\ key.ok /\ value.ok /\ others.ok
           whole2 == i <= Len(s) /\ s[i] \in Digit /\ key2.ok /\ value2.ok /\ others2.ok
<1>2. parseDict(t, f, i) =
         IF AfterEnd(t, i) # 0 THEN Decoded(<<>>, AfterEnd(t, i))
         ELSE IF whole
         THEN Decoded(WithEntry(key.node.str, value.node, others.node), others.next)
         ELSE Failed
  BY DEF parseDict
<1>3. parseDict(s, g, i) =
         IF AfterEnd(s, i) # 0 THEN Decoded(<<>>, AfterEnd(s, i))
         ELSE IF whole2
         THEN Decoded(WithEntry(key2.node.str, value2.node, others2.node), others2.next)
         ELSE Failed
  BY DEF parseDict
<1>4. /\ AfterEnd(t, i) # 0 => i <= Len(t) /\ AfterEnd(t, i) = i + 1 /\ AfterEnd(s, i) = i + 1
      /\ i <= Len(t) => AfterEnd(s, i) = AfterEnd(t, i)
  BY AfterEndSame
<1>5. CASE AfterEnd(t, i) # 0
  <2> HIDE DEF whole, whole2, key, key2, value, value2, others, others2
  <2>1. parseDict(t, f, i) = Decoded(<<>>, i + 1) /\ parseDict(s, g, i) = Decoded(<<>>, i + 1)
    BY <1>1, <1>2, <1>3, <1>4, <1>5
  <2>2. i + 1 \in i + 1..N
    BY <1>1, <1>4, <1>5
  <2> QED
    BY <2>1, <2>2 DEF Reads
<1>6. CASE AfterEnd(t, i) = 0 /\ whole
  <2>1. i \in 1..Len(t) /\ t[i] \in Digit /\ s[i] = t[i] /\ i <= Len(s) /\ AfterEnd(s, i) = 0
    BY <1>1, <1>4, <1>6 DEF Begins
  <2>2. Reads(key, i + 1, N) /\ (key.ok => key2 = key)
    BY <2>1, StringSame
  <2> HIDE DEF key, key2
  <2>3. key.ok /\ key.next \in i + 1..N /\ key2 = key
    BY <1>1, <1>6, <2>2, ReadsOk
  <2>4. Known(t, f, g, key.next)
    <3>1. \A j \in key.next + 1..N : j \in i + 1..N
      BY <1>1, <2>3
    <3> QED
      BY <3>1 DEF Known
  <2>5. key.next \in 1..N
    BY <1>1, <2>3
  <2>6. Reads(value, key.next + 1, N) /\ (value.ok => value2 = value)
    BY <2>3, <2>4, <2>5, NodeSame
  <2> HIDE DEF value, value2
  <2>7. value.ok /\ value.next \in key.next + 1..N /\ value2 = value
    <3>1. value.ok
      BY <1>6
    <3>2. key.next + 1 \in Int /\ N \in Int
      BY <1>1, <2>3
    <3> QED
      BY <2>6, <3>1, <3>2, ReadsOk
  <2>8. value.next \in i + 1..N
    BY <1>1, <2>3, <2>7
  <2>9. Reads(others, value.next + 1, N) /\ others2 = others
    BY <1>6, <2>7, <2>8 DEF Known, Kinds
  <2> HIDE DEF others, others2
  <2>10. others.ok /\ others.next \in value.next + 1..N
    BY <1>1, <1>6, <2>8, <2>9, ReadsOk
  <2>11. others.next \in i + 1..N
    BY <1>1, <2>8, <2>10
  <2>12. whole2
    BY <2>1, <2>3, <2>7, <2>9, <2>10
  <2> HIDE DEF whole, whole2
  <2>13. /\ parseDict(t, f, i)
                = Decoded(WithEntry(key.node.str, value.node, others.node), others.next)
         /\ parseDict(s, g, i) = parseDict(t, f, i)
    BY <1>2, <1>3, <1>6, <2>1, <2>3, <2>7, <2>9, <2>12, Zenon
  <2> QED
    BY <2>11, <2>13 DEF Reads
<1>7. CASE AfterEnd(t, i) = 0 /\ ~whole
  <2> HIDE DEF whole
  <2>1. parseDict(t, f, i) = Failed /\ ~Failed.ok
    BY <1>2, <1>7 DEF Failed
  <2> QED
    BY <2>1 DEF Reads
<1> QED
  BY <1>5, <1>6, <1>7

-----------------------------------------------------------------------------
(* The recursion of Decode.                                               *)

\* The recursion of Decode.
Inside(s, f, kind, i) == IF kind = "list" THEN parseList(s, f, i) ELSE parseDict(s, f, i)

IsParsing(s, f) == f = [at \in Kinds \X (1..Len(s) + 1) |-> Inside(s, f, at[1], at[2])]

(* What begins at i depends only on what is behind i, and t is read in s as*)
(* it is read alone.                                                       *)
LEMMA InsideSame ==
    ASSUME NEW S, NEW s \in Seq(S), NEW t \in Seq(S), Begins(s, t), NEW f, NEW g,
           NEW i \in 1..Len(t) + 1, Known(t, f, g, i), NEW kind \in Kinds
    PROVE  /\ Reads(Inside(t, f, kind, i), i + 1, Len(t) + 1)
           /\ Inside(t, f, kind, i).ok => Inside(s, g, kind, i) = Inside(t, f, kind, i)
<1>1. CASE kind = "list"
  <2>1. Inside(t, f, kind, i) = parseList(t, f, i) /\ Inside(s, g, kind, i) = parseList(s, g, i)
    BY <1>1 DEF Inside
  <2> QED
    BY <2>1, ListSame
<1>2. CASE kind # "list"
  <2>1. Inside(t, f, kind, i) = parseDict(t, f, i) /\ Inside(s, g, kind, i) = parseDict(s, g, i)
    BY <1>2 DEF Inside
  <2> QED
    BY <2>1, DictSame
<1> QED
  BY <1>1, <1>2

\* f and g agree behind i.
Agree(s, f, g, i) ==
    \A kind \in Kinds : \A j \in i + 1..Len(s) + 1 :
        Reads(f[<<kind, j>>], j + 1, Len(s) + 1) /\ g[<<kind, j>>] = f[<<kind, j>>]

(* What begins at i is the same with any two that agree behind i.         *)
LEMMA InsideAgain ==
    ASSUME NEW S, NEW s \in Seq(S), NEW f, NEW g, NEW i \in 1..Len(s) + 1, Agree(s, f, g, i),
           NEW kind \in Kinds
    PROVE  /\ Reads(Inside(s, f, kind, i), i + 1, Len(s) + 1)
           /\ Inside(s, g, kind, i) = Inside(s, f, kind, i)
<1>1. Known(s, f, g, i) /\ Known(s, g, f, i)
  BY DEF Known, Agree
<1>2. Begins(s, s) /\ Len(s) \in Nat
  BY DEF Begins
<1> DEFINE a == Inside(s, f, kind, i)
           b == Inside(s, g, kind, i)
<1>3. /\ Reads(a, i + 1, Len(s) + 1) /\ (a.ok => b = a)
      /\ Reads(b, i + 1, Len(s) + 1) /\ (b.ok => a = b)
  BY <1>1, <1>2, InsideSame
<1> HIDE DEF a, b
<1>4. /\ a.ok \in BOOLEAN /\ (~a.ok => a = Failed)
      /\ b.ok \in BOOLEAN /\ (~b.ok => b = Failed)
  BY <1>2, <1>3, ReadsOk
<1>5. a = b
  BY <1>3, <1>4
<1> QED
  BY <1>3, <1>5 DEF a, b

(* A pair and its parts.                                                  *)
LEMMA Paired ==
    ASSUME NEW A, NEW B, NEW a \in A, NEW b \in B
    PROVE  <<a, b>> \in A \X B /\ <<a, b>>[1] = a /\ <<a, b>>[2] = b
  OBVIOUS

(* A solution of the recursion, at one position.                          *)
LEMMA ParsesAt ==
    ASSUME NEW s, NEW f, IsParsing(s, f), NEW kind \in Kinds, NEW i \in 1..Len(s) + 1
    PROVE  f[<<kind, i>>] = Inside(s, f, kind, i)
<1>1. <<kind, i>> \in Kinds \X (1..Len(s) + 1) /\ <<kind, i>>[1] = kind /\ <<kind, i>>[2] = i
  OBVIOUS
<1>2. f = [at \in Kinds \X (1..Len(s) + 1) |-> Inside(s, f, at[1], at[2])]
  BY DEF IsParsing
<1> QED
  BY <1>1, <1>2

(* It has a solution, from the end of the input on.                        *)
LEMMA Parsing ==
    ASSUME NEW S, NEW s \in Seq(S)
    PROVE  \E f : IsParsing(s, f) /\ Decode(s) = parseNode(s, f, 1)
<1> DEFINE N == Len(s) + 1
           D == Kinds \X (1..N)
           Solves(f, lo) ==
               /\ f = [at \in D |-> f[at]]
               /\ \A kind \in Kinds : \A j \in lo + 1..N :
                     /\ f[<<kind, j>>] = Inside(s, f, kind, j)
                     /\ Reads(f[<<kind, j>>], j + 1, N)
           T == { k \in Nat : k <= N => \E f : Solves(f, N - k) }
<1>1. Len(s) \in Nat /\ N \in Nat
  OBVIOUS
<1>2. 0 \in T
  <2> DEFINE f == [at \in D |-> Failed]
  <2>1. f = [at \in D |-> f[at]]
    OBVIOUS
  <2>2. (N - 0) + 1..N = {}
    BY <1>1
  <2> HIDE DEF f
  <2>3. Solves(f, N - 0)
    BY <2>1, <2>2
  <2> HIDE DEF Solves
  <2> QED
    BY <2>3
<1>3. ASSUME NEW k \in Nat, k \in T PROVE k + 1 \in T
  <2>1. SUFFICES ASSUME k + 1 <= N PROVE \E f : Solves(f, N - (k + 1))
    <3> HIDE DEF Solves
    <3> QED
      OBVIOUS
  <2> DEFINE i == N - k
  <2>2. i \in 1..N /\ N - (k + 1) = i - 1 /\ k <= N
    BY <1>1, <2>1
  <2>3. PICK f : Solves(f, i)
    BY <1>3, <2>2
  <2> HIDE DEF i
  <2> DEFINE g == [at \in D |-> IF at[2] = i THEN Inside(s, f, at[1], i) ELSE f[at]]
  <2>4. ASSUME NEW kind \in Kinds, NEW j \in 1..N
        PROVE  g[<<kind, j>>] = IF j = i THEN Inside(s, f, kind, i) ELSE f[<<kind, j>>]
    <3>1. <<kind, j>> \in D /\ <<kind, j>>[1] = kind /\ <<kind, j>>[2] = j
      BY Paired
    <3> HIDE DEF D
    <3> QED
      BY <3>1
  <2>5. g = [at \in D |-> g[at]]
    <3> HIDE DEF D
    <3> QED
      OBVIOUS
  <2> HIDE DEF g
  <2>6. \A j \in i..N : Agree(s, f, g, j)
    <3>1. \A j \in i..N : \A l \in j + 1..N : l \in i + 1..N /\ l \in 1..N /\ l # i
      BY <1>1, <2>2
    <3> QED
      BY <2>3, <2>4, <3>1 DEF Agree
  <2>7. ASSUME NEW kind \in Kinds, NEW j \in i..N
        PROVE  /\ g[<<kind, j>>] = Inside(s, g, kind, j)
               /\ Reads(g[<<kind, j>>], j + 1, N)
    <3>1. j \in 1..N
      BY <1>1, <2>2
    <3>2. /\ Inside(s, g, kind, j) = Inside(s, f, kind, j)
          /\ Reads(Inside(s, f, kind, j), j + 1, N)
      BY <2>6, <3>1, InsideAgain
    <3>3. g[<<kind, j>>] = Inside(s, f, kind, j)
      <4>1. CASE j = i
        BY <2>4, <3>1, <4>1
      <4>2. CASE j # i
        <5>1. j \in i + 1..N
          BY <2>2, <4>2
        <5> QED
          BY <2>3, <2>4, <3>1, <4>2, <5>1
      <4> QED
        BY <4>1, <4>2
    <3> QED
      BY <3>2, <3>3
  <2>8. \A j \in (i - 1) + 1..N : j \in i..N
    BY <1>1, <2>2
  <2>9. Solves(g, i - 1)
    BY <2>5, <2>7, <2>8
  <2> HIDE DEF Solves
  <2> QED
    BY <2>2, <2>9
<1>4. N \in T
  <2> HIDE DEF T
  <2> QED
    BY <1>1, <1>2, <1>3, Induct
<1>5. PICK f : Solves(f, N - N)
  <2>1. N <= N
    BY <1>1
  <2> HIDE DEF Solves
  <2> QED
    BY <1>4, <2>1
<1>6. IsParsing(s, f)
  <2>1. \A at \in D : at = <<at[1], at[2]>> /\ at[1] \in Kinds /\ at[2] \in 1..N
    OBVIOUS
  <2>2. \A j \in 1..N : j \in (N - N) + 1..N
    BY <1>1
  <2>3. \A kind \in Kinds : \A j \in 1..N : f[<<kind, j>>] = Inside(s, f, kind, j)
    BY <1>5, <2>2
  <2>4. \A at \in D : f[at] = Inside(s, f, at[1], at[2])
    BY <2>1, <2>3
  <2>5. f = [at \in D |-> f[at]]
    BY <1>5
  <2> QED
    BY <2>4, <2>5 DEF IsParsing
<1> DEFINE parsed == CHOOSE h : IsParsing(s, h)
<1>7. IsParsing(s, parsed)
  BY <1>6
<1>8. Decode(s) = parseNode(s, parsed, 1)
  BY DEF Decode, IsParsing, Inside, Kinds
<1> HIDE DEF parsed
<1> QED
  BY <1>7, <1>8

(* All that ends in t is the same in s, from the end of t on.             *)
LEMMA KnownAll ==
    ASSUME NEW S, NEW s \in Seq(S), NEW t \in Seq(S), Begins(s, t),
           NEW f, IsParsing(t, f), NEW g, IsParsing(s, g)
    PROVE  Known(t, f, g, 0)
<1> DEFINE N == Len(t) + 1
           T == { k \in Nat : k <= N => Known(t, f, g, N - k) }
<1>1. N \in Nat /\ Len(s) \in Nat /\ N <= Len(s) + 1
  BY DEF Begins
<1>2. 0 \in T
  <2>1. (N - 0) + 1..N = {}
    BY <1>1
  <2>2. Known(t, f, g, N - 0)
    BY <2>1 DEF Known
  <2> QED
    BY <2>2
<1>3. ASSUME NEW k \in Nat, k \in T PROVE k + 1 \in T
  <2>1. SUFFICES ASSUME k + 1 <= N PROVE Known(t, f, g, N - (k + 1))
    OBVIOUS
  <2>2. PICK i \in 1..N : i = N - k /\ N - (k + 1) = i - 1 /\ k <= N
    <3>1. N - k \in 1..N /\ N - (k + 1) = (N - k) - 1 /\ k <= N
      BY <1>1, <2>1
    <3> HIDE DEF N
    <3> QED
      BY <3>1
  <2>3. Known(t, f, g, i)
    BY <1>3, <2>2
  <2>4. ASSUME NEW kind \in Kinds
        PROVE  /\ Reads(f[<<kind, i>>], i + 1, N)
               /\ f[<<kind, i>>].ok => g[<<kind, i>>] = f[<<kind, i>>]
    <3>1. i \in 1..Len(s) + 1
      BY <1>1
    <3>2. f[<<kind, i>>] = Inside(t, f, kind, i) /\ g[<<kind, i>>] = Inside(s, g, kind, i)
      BY <3>1, ParsesAt
    <3> QED
      BY <2>3, <3>2, InsideSame
  <2>5. Known(t, f, g, i - 1)
    <3>1. SUFFICES ASSUME NEW kind \in Kinds, NEW j \in (i - 1) + 1..N
                   PROVE  /\ Reads(f[<<kind, j>>], j + 1, N)
                          /\ f[<<kind, j>>].ok => g[<<kind, j>>] = f[<<kind, j>>]
      BY DEF Known
    <3>2. CASE j = i
      BY <2>4, <3>2
    <3>3. CASE j # i
      <4>1. j \in i + 1..N
        BY <1>1, <3>3
      <4> QED
        BY <2>3, <4>1 DEF Known
    <3> QED
      BY <3>2, <3>3
  <2> QED
    BY <2>2, <2>5
<1>4. N \in T
  <2> HIDE DEF T
  <2> QED
    BY <1>1, <1>2, <1>3, Induct
<1> QED
  BY <1>1, <1>4

(* The beginning of a string that is one node is never a node itself.      *)
THEOREM CutShort ==
    ASSUME NEW S, NEW s \in Seq(S), NEW t \in Seq(S), Begins(s, t), Len(t) < Len(s),
           Decode(s).ok, Decode(s).next = Len(s) + 1
    PROVE  Decode(t) = Failed
<1>1. PICK f : IsParsing(t, f) /\ Decode(t) = parseNode(t, f, 1)
  BY Parsing
<1>2. PICK g : IsParsing(s, g) /\ Decode(s) = parseNode(s, g, 1)
  BY Parsing
<1>3. Known(t, f, g, 0)
  BY <1>1, <1>2, KnownAll
<1>4. Len(t) \in Nat /\ Len(s) \in Nat /\ 1 \in 1..Len(t) + 1
  OBVIOUS
<1>5. Known(t, f, g, 1)
  <2>1. \A j \in 1 + 1..Len(t) + 1 : j \in 0 + 1..Len(t) + 1
    BY <1>4
  <2> QED
    BY <1>3, <2>1 DEF Known
<1>6. /\ Reads(Decode(t), 1 + 1, Len(t) + 1)
      /\ Decode(t).ok => Decode(s) = Decode(t)
  BY <1>1, <1>2, <1>4, <1>5, NodeSame
<1>7. /\ Decode(t).ok => Decode(t).next \in 1 + 1..Len(t) + 1
      /\ ~Decode(t).ok => Decode(t) = Failed
  BY <1>4, <1>6, ReadsOk
<1>8. ~Decode(t).ok
  BY <1>4, <1>6, <1>7
<1> QED
  BY <1>7, <1>8

-----------------------------------------------------------------------------
(* As written: where a text stands in a string, it is read as what it     *)
(* writes.                                                                *)

\* w stands in s behind position p.
Stands(s, p, w) ==
    /\ p \in Nat /\ p + Len(w) <= Len(s)
    /\ \A j \in 1..Len(w) : s[p + j] = w[j]

(* The parts of what stands somewhere stand one after the other.          *)
LEMMA StandsApart ==
    ASSUME NEW S, NEW s \in Seq(S), NEW a \in Seq(S), NEW b \in Seq(S), NEW p,
           Stands(s, p, a \o b)
    PROVE  Stands(s, p, a) /\ Stands(s, p + Len(a), b)
<1> DEFINE w == a \o b
<1>1. /\ Len(w) = Len(a) + Len(b)
      /\ \A j \in 1..Len(a) : w[j] = a[j]
      /\ \A j \in 1..Len(b) : Len(a) + j \in 1..Len(w) /\ w[Len(a) + j] = b[j]
      /\ Len(a) \in Nat /\ Len(b) \in Nat /\ Len(s) \in Nat
  BY Joining
<1>2. /\ p \in Nat /\ p + Len(w) <= Len(s)
      /\ \A j \in 1..Len(w) : s[p + j] = w[j]
  BY DEF Stands
<1> HIDE DEF w
<1>3. Stands(s, p, a)
  <2>1. \A j \in 1..Len(a) : j \in 1..Len(w)
    BY <1>1
  <2> QED
    BY <1>1, <1>2, <2>1 DEF Stands
<1>4. Stands(s, p + Len(a), b)
  <2>1. \A j \in 1..Len(b) : (p + Len(a)) + j = p + (Len(a) + j)
    BY <1>1, <1>2
  <2>2. (p + Len(a)) + Len(b) = p + Len(w) /\ p + Len(a) \in Nat
    BY <1>1, <1>2
  <2> QED
    BY <1>1, <1>2, <2>1, <2>2 DEF Stands
<1> QED
  BY <1>3, <1>4

(* One symbol that stands somewhere.                                      *)
LEMMA StandsOne ==
    ASSUME NEW S, NEW s \in Seq(S), NEW x, NEW p, Stands(s, p, <<x>>)
    PROVE  p \in Nat /\ p + 1 \in 1..Len(s) /\ s[p + 1] = x
<1>1. Len(<<x>>) = 1 /\ <<x>>[1] = x /\ 1 \in 1..1 /\ Len(s) \in Nat
  OBVIOUS
<1> QED
  BY <1>1 DEF Stands

(* A string stands at its own beginning.                                  *)
LEMMA StandsWhole ==
    ASSUME NEW S, NEW s \in Seq(S)
    PROVE  Stands(s, 0, s)
<1>1. Len(s) \in Nat /\ \A j \in 1..Len(s) : 0 + j = j
  OBVIOUS
<1> QED
  BY <1>1 DEF Stands

(* What stands somewhere is cut out whole.                                *)
LEMMA StandsBetween ==
    ASSUME NEW S, NEW s \in Seq(S), NEW w \in Seq(S), NEW p, Stands(s, p, w)
    PROVE  SubSeq(s, p + 1, p + Len(w)) = w
<1>1. /\ Len(w) \in Nat /\ Len(s) \in Nat /\ p \in Nat /\ p + Len(w) <= Len(s)
      /\ \A j \in 1..Len(w) : s[p + j] = w[j]
  BY DEF Stands
<1> DEFINE a == SubSeq(s, p + 1, p + Len(w))
<1>2. p + 1 \in Nat \ {0} /\ p + Len(w) \in Int /\ p + Len(w) <= Len(s)
  BY <1>1
<1>3. /\ a \in Seq(S)
      /\ Len(a) = IF p + 1 <= p + Len(w) THEN (p + Len(w)) - (p + 1) + 1 ELSE 0
      /\ \A n \in 1..Len(a) : a[n] = s[(p + 1) + n - 1]
  BY <1>2, Between
<1> HIDE DEF a
<1>4. Len(a) = Len(w) /\ \A n \in 1..Len(a) : (p + 1) + n - 1 = p + n
  BY <1>1, <1>3
<1>5. a = w
  <2>1. \A n \in 1..Len(a) : a[n] = w[n]
    BY <1>1, <1>3, <1>4
  <2> QED
    BY <1>3, <1>4, <2>1, Same
<1> QED
  BY <1>5 DEF a

\* How three parts are grouped is all the same.
Groups(a, b, c) == (a \o b) \o c = a \o (b \o c)

LEMMA Regroup ==
    ASSUME NEW S, NEW a \in Seq(S), NEW b \in Seq(S), NEW c \in Seq(S)
    PROVE  Groups(a, b, c)
<1>1. (a \o b) \o c = a \o (b \o c)
  OBVIOUS
<1> QED
  BY <1>1, Zenon DEF Groups

-----------------------------------------------------------------------------
\* The symbols that bencode is made of.
Alphabet(S) == Digit \subseteq S /\ {"i", "e", ":", "l", "d"} \subseteq S

(* An integer is read as it was written, wherever it stands.              *)
LEMMA IntStands ==
    ASSUME NEW S, Alphabet(S), NEW s \in Seq(S), NEW k \in Nat, NEW p, Stands(s, p, BInt(k))
    PROVE  /\ p + 1 \in 1..Len(s) /\ s[p + 1] = "i"
           /\ parseInt(s, p + 2) = Decoded([int |-> k], p + Len(BInt(k)) + 1)
<1> DEFINE d == Digits(k)
           L == Len(d)
           m == p + L + 2
<1>1. d \in Seq(Digit) /\ Scan(d) = [ok |-> TRUE, value |-> k]
  BY DigitsMean, DigitsScan
<1>2. BInt(k) = (<<"i">> \o d) \o <<"e">>
  <2>1. ~(k < 0)
    OBVIOUS
  <2>2. Decimal(k) = d
    BY <2>1 DEF Decimal
  <2> QED
    BY <2>2 DEF BInt
<1> HIDE DEF d
<1>3. d \in Seq(S) /\ L \in Nat /\ \A j \in 1..L : d[j] \in Digit
  BY <1>1 DEF Alphabet
<1>4. /\ <<"i">> \in Seq(S) /\ Len(<<"i">>) = 1
      /\ <<"e">> \in Seq(S) /\ Len(<<"e">>) = 1
  BY DEF Alphabet
<1>5. /\ <<"i">> \o d \in Seq(S) /\ Len(<<"i">> \o d) = 1 + L
      /\ Len(BInt(k)) = (1 + L) + 1
  BY <1>2, <1>3, <1>4, Joining
<1>6. Stands(s, p, <<"i">> \o d) /\ Stands(s, p + (1 + L), <<"e">>)
  BY <1>2, <1>4, <1>5, StandsApart
<1>7. Stands(s, p, <<"i">>) /\ Stands(s, p + 1, d)
  BY <1>3, <1>4, <1>6, StandsApart
<1>8. p \in Nat /\ p + 1 \in 1..Len(s) /\ s[p + 1] = "i" /\ Len(s) \in Nat
  BY <1>7, StandsOne
<1>9. (p + (1 + L)) + 1 \in 1..Len(s) /\ s[(p + (1 + L)) + 1] = "e"
  BY <1>6, StandsOne
<1>10. /\ (p + (1 + L)) + 1 = m /\ m - 1 = (p + 1) + L /\ (p + 1) + 1 = p + 2
       /\ p + 2 \in Nat \ {0} /\ m \in p + 2..Len(s)
       /\ m + 1 = p + Len(BInt(k)) + 1
  BY <1>3, <1>5, <1>8, <1>9
<1> HIDE DEF L, m
<1>11. First(s, p + 2, "e") = m
  <2>1. ASSUME NEW j \in p + 2..m - 1 PROVE s[j] # "e"
    <3>1. j - (p + 1) \in 1..L /\ (p + 1) + (j - (p + 1)) = j
      BY <1>3, <1>8, <1>10
    <3>2. s[j] = d[j - (p + 1)]
      BY <1>7, <3>1 DEF Stands, L
    <3> QED
      BY <1>3, <3>1, <3>2, DigitValues
  <2>2. s[m] = "e"
    BY <1>9, <1>10
  <2> QED
    BY <1>10, <2>1, <2>2, FirstFound
<1>12. SubSeq(s, p + 2, m - 1) = d
  <2>1. SubSeq(s, (p + 1) + 1, (p + 1) + Len(d)) = d
    BY <1>3, <1>7, StandsBetween
  <2> QED
    BY <1>10, <2>1 DEF L
<1>13. parseInt(s, p + 2) = Decoded([int |-> k], m + 1)
  <2>1. m # 0
    BY <1>10
  <2>2. QED
    <3>1. parseInt(s, p + 2) = IF m = 0 \/ ~Scan(d).ok THEN Failed
                               ELSE Decoded([int |-> Scan(d).value], m + 1)
      BY <1>11, <1>12, Zenon DEF parseInt
    <3>2. Scan(d).ok /\ Scan(d).value = k
      BY <1>1
    <3> QED
      BY <2>1, <3>1, <3>2, Zenon
<1> QED
  BY <1>8, <1>10, <1>13

(* A string is read as it was written, wherever it stands.                *)
LEMMA StringStands ==
    ASSUME NEW S, Alphabet(S), NEW s \in Seq(S), NEW x \in Seq(S), NEW p, Stands(s, p, BStr(x))
    PROVE  /\ p + 1 \in 1..Len(s) /\ s[p + 1] \in Digit
           /\ parseString(s, p + 1) = Decoded([str |-> x], p + Len(BStr(x)) + 1)
<1> DEFINE d == Digits(Len(x))
           L == Len(d)
           m == p + L + 1
           end == m + Len(x)
<1>0. Len(x) \in Nat
  OBVIOUS
<1>1. d \in Seq(Digit) /\ d # <<>> /\ Scan(d) = [ok |-> TRUE, value |-> Len(x)]
  BY <1>0, DigitsMean, DigitsScan
<1>2. BStr(x) = (d \o <<":">>) \o x
  BY DEF BStr
<1> HIDE DEF d
<1>3. d \in Seq(S) /\ L \in Nat \ {0} /\ \A j \in 1..L : d[j] \in Digit
  BY <1>1 DEF Alphabet
<1>4. <<":">> \in Seq(S) /\ Len(<<":">>) = 1
  BY DEF Alphabet
<1>5. /\ d \o <<":">> \in Seq(S) /\ Len(d \o <<":">>) = L + 1
      /\ Len(BStr(x)) = (L + 1) + Len(x)
  BY <1>2, <1>3, <1>4, Joining
<1>6. Stands(s, p, d \o <<":">>) /\ Stands(s, p + (L + 1), x)
  BY <1>2, <1>5, StandsApart
<1>7. Stands(s, p, d) /\ Stands(s, p + L, <<":">>)
  BY <1>3, <1>4, <1>6, StandsApart
<1>8. /\ p \in Nat /\ Len(s) \in Nat /\ (p + (L + 1)) + Len(x) <= Len(s)
      /\ \A j \in 1..L : s[p + j] = d[j]
  BY <1>6, <1>7 DEF Stands
<1>9. (p + L) + 1 \in 1..Len(s) /\ s[(p + L) + 1] = ":"
  BY <1>7, StandsOne
<1>10. /\ (p + L) + 1 = m /\ m - 1 = p + L /\ p + (L + 1) = m
       /\ p + 1 \in Nat \ {0} /\ m \in p + 1..Len(s) /\ p + 1 \in 1..Len(s)
       /\ end \in Nat /\ ~(end > Len(s))
       /\ end + 1 = p + Len(BStr(x)) + 1
  BY <1>0, <1>3, <1>5, <1>8, <1>9
<1>11. s[p + 1] \in Digit
  BY <1>3, <1>8
<1> HIDE DEF L, m
<1>12. First(s, p + 1, ":") = m
  <2>1. ASSUME NEW j \in p + 1..m - 1 PROVE s[j] # ":"
    <3>1. j - p \in 1..L /\ p + (j - p) = j
      BY <1>3, <1>8, <1>10
    <3> QED
      BY <1>3, <1>8, <3>1, DigitValues
  <2>2. s[m] = ":"
    BY <1>9, <1>10
  <2> QED
    BY <1>10, <2>1, <2>2, FirstFound
<1>13. SubSeq(s, p + 1, m - 1) = d
  BY <1>3, <1>7, <1>10, StandsBetween DEF L
<1>14. SubSeq(s, m + 1, end) = x
  BY <1>6, <1>10, StandsBetween
<1>15. parseString(s, p + 1) = Decoded([str |-> x], end + 1)
  <2>1. m # 0
    BY <1>10
  <2>2. QED
    <3>1. Scan(d).ok /\ Scan(d).value = Len(x)
      BY <1>1
    <3>2. parseString(s, p + 1) = IF m = 0 \/ ~Scan(d).ok \/ end > Len(s) THEN Failed
                                  ELSE Decoded([str |-> SubSeq(s, m + 1, end)], end + 1)
      BY <1>12, <1>13, <3>1, Zenon DEF parseString
    <3> HIDE DEF end
    <3> QED
      BY <1>10, <1>14, <2>1, <3>1, <3>2, Zenon
<1> QED
  BY <1>10, <1>11, <1>15

\* Wherever w stands, the node is read, and what follows w is next.
Writes(S, w, node) ==
    /\ w \in Seq(S) /\ w # <<>> /\ w[1] # "e"
    /\ \A s \in Seq(S) : \A f, p :
          IsParsing(s, f) /\ Stands(s, p, w)
              => parseNode(s, f, p + 1) = Decoded(node, p + Len(w) + 1)

\* The same for what a list or a dictionary holds, with the "e" at its end.
Holds(S, w, kind, content) ==
    /\ w \in Seq(S)
    /\ \A s \in Seq(S) : \A f, p :
          IsParsing(s, f) /\ Stands(s, p, w)
              => f[<<kind, p + 1>>] = Decoded(content, p + Len(w) + 1)

(* What writes a node is decoded as that node, to its last symbol.        *)
LEMMA DecodesWhole ==
    ASSUME NEW S, NEW w, NEW node, Writes(S, w, node)
    PROVE  Decode(w) = Decoded(node, Len(w) + 1)
<1>1. w \in Seq(S) /\ Stands(w, 0, w)
  BY StandsWhole DEF Writes
<1>2. PICK f : IsParsing(w, f) /\ Decode(w) = parseNode(w, f, 1)
  BY <1>1, Parsing
<1>3. parseNode(w, f, 0 + 1) = Decoded(node, 0 + Len(w) + 1)
  BY <1>1, <1>2 DEF Writes
<1>4. 0 + 1 = 1 /\ 0 + Len(w) + 1 = Len(w) + 1
  BY <1>1
<1> QED
  BY <1>2, <1>3, <1>4

(* BInt writes an integer.                                                *)
LEMMA IntWrites ==
    ASSUME NEW S, Alphabet(S), NEW k \in Nat
    PROVE  Writes(S, BInt(k), [int |-> k])
<1> DEFINE w == BInt(k)
<1>1. w \in Seq(S) /\ w # <<>> /\ w[1] # "e"
  <2> DEFINE d == Digits(k)
  <2>1. ~(k < 0)
    OBVIOUS
  <2>2. w = (<<"i">> \o d) \o <<"e">>
    BY <2>1 DEF BInt, Decimal
  <2>3. d \in Seq(S) /\ <<"i">> \in Seq(S) /\ <<"e">> \in Seq(S)
        /\ Len(<<"i">>) = 1 /\ <<"i">>[1] = "i"
    <3>1. d \in Seq(Digit)
      BY DigitsMean
    <3> HIDE DEF d
    <3> QED
      BY <3>1 DEF Alphabet
  <2> HIDE DEF d, w
  <2>4. <<"i">> \o d \in Seq(S) /\ Len(<<"i">> \o d) = 1 + Len(d) /\ (<<"i">> \o d)[1] = "i"
        /\ Len(d) \in Nat
    <3>1. 1 \in 1..Len(<<"i">>)
      BY <2>3
    <3> QED
      BY <2>3, <3>1, Joining
  <2>5. w \in Seq(S) /\ w[1] = "i" /\ Len(w) = Len(<<"i">> \o d) + Len(<<"e">>)
    <3>1. 1 \in 1..Len(<<"i">> \o d)
      BY <2>4
    <3> QED
      BY <2>2, <2>3, <2>4, <3>1, Joining
  <2>6. w # <<>>
    <3>1. Len(<<"e">>) = 1
      OBVIOUS
    <3>2. Len(w) # 0
      BY <2>4, <2>5, <3>1
    <3> QED
      BY <3>2
  <2> QED
    BY <2>5, <2>6
<1>2. ASSUME NEW s \in Seq(S), NEW f, NEW p, Stands(s, p, w)
      PROVE  parseNode(s, f, p + 1) = Decoded([int |-> k], p + Len(w) + 1)
  <2>1. /\ p + 1 \in 1..Len(s) /\ s[p + 1] = "i"
        /\ parseInt(s, p + 2) = Decoded([int |-> k], p + Len(w) + 1)
    BY <1>2, IntStands
  <2>2. p \in Nat
    BY <1>2 DEF Stands
  <2>3. (p + 1) + 1 = p + 2 /\ ~(p + 1 > Len(s))
    BY <2>1, <2>2
  <2>4. parseNode(s, f, p + 1) = parseInt(s, (p + 1) + 1)
    BY <2>1, <2>3, DigitValues DEF parseNode
  <2> QED
    BY <2>1, <2>3, <2>4
<1> HIDE DEF w
<1>3. Writes(S, w, [int |-> k])
  BY <1>1, <1>2 DEF Writes
<1> QED
  BY <1>3 DEF w

(* A string begins with a digit.                                          *)
LEMMA StringIs ==
    ASSUME NEW S, Alphabet(S), NEW x \in Seq(S)
    PROVE  BStr(x) \in Seq(S) /\ BStr(x) # <<>> /\ BStr(x)[1] \in Digit
<1> DEFINE d == Digits(Len(x))
           w == BStr(x)
<1>1. d \in Seq(Digit) /\ d # <<>>
  <2>1. Len(x) \in Nat
    OBVIOUS
  <2> QED
    BY <2>1, DigitsMean
<1>2. w = (d \o <<":">>) \o x
  BY DEF BStr
<1> HIDE DEF d, w
<1>3. d \in Seq(S) /\ Len(d) \in Nat \ {0} /\ d[1] \in Digit /\ <<":">> \in Seq(S)
  BY <1>1 DEF Alphabet
<1>4. d \o <<":">> \in Seq(S) /\ Len(d) <= Len(d \o <<":">>) /\ (d \o <<":">>)[1] = d[1]
  <2>1. 1 \in 1..Len(d)
    BY <1>3
  <2> QED
    BY <1>3, <2>1, Joining
<1>5. w \in Seq(S) /\ w[1] = d[1] /\ Len(d \o <<":">>) <= Len(w)
  <2>1. 1 \in 1..Len(d \o <<":">>)
    BY <1>3, <1>4
  <2> QED
    BY <1>2, <1>4, <2>1, Joining
<1>6. w # <<>>
  <2>1. Len(w) # 0
    BY <1>3, <1>4, <1>5
  <2> QED
    BY <2>1
<1> QED
  BY <1>3, <1>5, <1>6 DEF w

(* BStr writes a string.                                                  *)
LEMMA StringWrites ==
    ASSUME NEW S, Alphabet(S), NEW x \in Seq(S)
    PROVE  Writes(S, BStr(x), [str |-> x])
<1> DEFINE w == BStr(x)
<1>1. w \in Seq(S) /\ w # <<>> /\ w[1] # "e"
  BY StringIs, DigitValues
<1>2. ASSUME NEW s \in Seq(S), NEW f, NEW p, Stands(s, p, w)
      PROVE  parseNode(s, f, p + 1) = Decoded([str |-> x], p + Len(w) + 1)
  <2>1. /\ p + 1 \in 1..Len(s) /\ s[p + 1] \in Digit
        /\ parseString(s, p + 1) = Decoded([str |-> x], p + Len(w) + 1)
    BY <1>2, StringStands
  <2>2. ~(p + 1 > Len(s))
    BY <2>1
  <2>3. parseNode(s, f, p + 1) = parseString(s, p + 1)
    BY <2>1, <2>2, DigitValues DEF parseNode
  <2> QED
    BY <2>1, <2>3
<1> HIDE DEF w
<1>3. Writes(S, w, [str |-> x])
  BY <1>1, <1>2 DEF Writes
<1> QED
  BY <1>3 DEF w

-----------------------------------------------------------------------------
(* An "e" holds nothing.                                                  *)
LEMMA EndHolds ==
    ASSUME NEW S, Alphabet(S), NEW kind \in Kinds
    PROVE  Holds(S, <<"e">>, kind, <<>>)
<1>1. <<"e">> \in Seq(S) /\ Len(<<"e">>) = 1
  BY DEF Alphabet
<1>2. ASSUME NEW s \in Seq(S), NEW f, NEW p, IsParsing(s, f), Stands(s, p, <<"e">>)
      PROVE  f[<<kind, p + 1>>] = Decoded(<<>>, p + 1 + 1)
  <2>1. p + 1 \in 1..Len(s) /\ s[p + 1] = "e" /\ Len(s) \in Nat /\ p \in Nat
    BY <1>2, StandsOne
  <2>2. p + 1 \in 1..Len(s) + 1 /\ p + 1 <= Len(s)
    BY <2>1
  <2>3. AfterEnd(s, p + 1) = p + 1 + 1 /\ AfterEnd(s, p + 1) # 0
    BY <2>1, <2>2 DEF AfterEnd
  <2>4. parseList(s, f, p + 1) = Decoded(<<>>, p + 1 + 1)
    BY <2>3 DEF parseList
  <2>5. parseDict(s, f, p + 1) = Decoded(<<>>, p + 1 + 1)
    BY <2>3 DEF parseDict
  <2>6. f[<<kind, p + 1>>] = Inside(s, f, kind, p + 1)
    BY <1>2, <2>2, ParsesAt
  <2> QED
    BY <2>4, <2>5, <2>6 DEF Inside
<1> QED
  BY <1>1, <1>2 DEF Holds

(* An entry in front of the others is read in front of them.              *)
LEMMA EntryHolds ==
    ASSUME NEW S, Alphabet(S), NEW word \in S, NEW v, NEW node, Writes(S, v, node),
           NEW w, NEW d, Holds(S, w, "dict", d)
    PROVE  Holds(S, Entry(word, v) \o w, "dict", WithEntry(<<word>>, node, d))
<1> DEFINE x == <<word>>
           a == BStr(x)
           b == a \o v
           all == b \o w
<1>1. x \in Seq(S) /\ v \in Seq(S) /\ w \in Seq(S)
  BY DEF Writes, Holds
<1> HIDE DEF x
<1>2. a \in Seq(S)
  BY <1>1, StringIs
<1>3. Entry(word, v) = b
  BY DEF Entry, x
<1> HIDE DEF a
<1>4. b \in Seq(S) /\ Len(b) = Len(a) + Len(v) /\ Len(a) \in Nat /\ Len(v) \in Nat /\ Len(w) \in Nat
  BY <1>1, <1>2, Joining
<1> HIDE DEF b
<1>5. all \in Seq(S) /\ Len(all) = Len(b) + Len(w)
  BY <1>1, <1>4, Joining
<1>6. ASSUME NEW s \in Seq(S), NEW f, NEW p, IsParsing(s, f), Stands(s, p, all)
      PROVE  f[<<"dict", p + 1>>] = Decoded(WithEntry(x, node, d), p + Len(all) + 1)
  <2>1. Stands(s, p, b) /\ Stands(s, p + Len(b), w)
    BY <1>1, <1>4, <1>6, StandsApart
  <2>2. Stands(s, p, a) /\ Stands(s, p + Len(a), v)
    BY <1>1, <1>2, <2>1, StandsApart DEF b
  <2>3. p \in Nat /\ Len(s) \in Nat
    BY <2>2 DEF Stands
  <2> DEFINE key == Decoded([str |-> x], p + Len(a) + 1)
             value == Decoded(node, p + Len(b) + 1)
             others == Decoded(d, p + Len(all) + 1)
  <2>4. p + 1 \in 1..Len(s) /\ s[p + 1] \in Digit /\ parseString(s, p + 1) = key
    BY <1>1, <2>2, StringStands DEF a
  <2>5. parseNode(s, f, p + Len(a) + 1) = value
    <3>1. parseNode(s, f, (p + Len(a)) + 1) = Decoded(node, (p + Len(a)) + Len(v) + 1)
      BY <1>6, <2>2 DEF Writes
    <3>2. (p + Len(a)) + Len(v) + 1 = p + Len(b) + 1
      BY <1>4, <2>3
    <3> QED
      BY <3>1, <3>2
  <2>6. f[<<"dict", p + Len(b) + 1>>] = others
    <3>1. f[<<"dict", (p + Len(b)) + 1>>] = Decoded(d, (p + Len(b)) + Len(w) + 1)
      BY <1>6, <2>1 DEF Holds
    <3>2. (p + Len(b)) + Len(w) + 1 = p + Len(all) + 1
      BY <1>4, <1>5, <2>3
    <3> HIDE DEF all
    <3> QED
      BY <3>1, <3>2
  <2>7. /\ key.ok /\ key.node = [str |-> x] /\ key.next = p + Len(a) + 1
        /\ value.ok /\ value.node = node /\ value.next = p + Len(b) + 1
        /\ others.ok /\ others.node = d /\ others.next = p + Len(all) + 1
    BY DecodedIs
  <2>8. key.node.str = x
    BY <2>7
  <2>9. p + 1 <= Len(s) /\ p + 1 \in 1..Len(s) + 1
    BY <2>3, <2>4
  <2>10. AfterEnd(s, p + 1) = 0
    BY <2>4, <2>9, DigitValues DEF AfterEnd
  <2> HIDE DEF key, value, others, all
  <2>11. parseDict(s, f, p + 1) =
            IF p + 1 <= Len(s) /\ s[p + 1] \in Digit /\ key.ok /\ value.ok /\ others.ok
            THEN Decoded(WithEntry(key.node.str, value.node, others.node), others.next)
            ELSE Failed
    <3>1. parseDict(s, f, p + 1) =
            IF p + 1 <= Len(s) /\ s[p + 1] \in Digit /\ key.ok
                 /\ parseNode(s, f, key.next).ok
                 /\ f[<<"dict", parseNode(s, f, key.next).next>>].ok
            THEN Decoded(WithEntry(key.node.str, parseNode(s, f, key.next).node,
                                   f[<<"dict", parseNode(s, f, key.next).next>>].node),
                         f[<<"dict", parseNode(s, f, key.next).next>>].next)
            ELSE Failed
      BY <2>4, <2>10, Zenon DEF parseDict
    <3> QED
      BY <2>5, <2>6, <2>7, <3>1, Zenon
  <2>12. parseDict(s, f, p + 1) = Decoded(WithEntry(x, node, d), p + Len(all) + 1)
    BY <2>4, <2>7, <2>8, <2>9, <2>11, Zenon
  <2>13. f[<<"dict", p + 1>>] = Inside(s, f, "dict", p + 1)
    BY <1>6, <2>9, ParsesAt DEF Kinds
  <2> QED
    BY <2>12, <2>13 DEF Inside
<1> HIDE DEF all
<1>7. Holds(S, all, "dict", WithEntry(x, node, d))
  BY <1>5, <1>6 DEF Holds
<1> QED
  BY <1>3, <1>7 DEF all, x

(* A symbol in front of a string.                                         *)
LEMMA Starts ==
    ASSUME NEW S, NEW x \in S, NEW w \in Seq(S)
    PROVE  /\ <<x>> \o w \in Seq(S) /\ <<x>> \o w # <<>> /\ (<<x>> \o w)[1] = x
           /\ Len(<<x>> \o w) = 1 + Len(w)
<1>1. /\ <<x>> \o w \in Seq(S) /\ (<<x>> \o w)[1] = x /\ Len(<<x>> \o w) = Len(w) + 1
      /\ Len(w) \in Nat
  BY InFront
<1>2. <<x>> \o w # <<>>
  <2> DEFINE b == <<x>> \o w
  <2>1. Len(b) # 0
    BY <1>1
  <2> HIDE DEF b
  <2>2. b # <<>>
    BY <2>1
  <2> QED
    BY <2>2 DEF b
<1> QED
  BY <1>1, <1>2

(* Entries with a "d" in front are a dictionary.                          *)
LEMMA DictWrites ==
    ASSUME NEW S, Alphabet(S), NEW w, NEW d, Holds(S, w, "dict", d)
    PROVE  Writes(S, <<"d">> \o w, [dict |-> d])
<1> DEFINE all == <<"d">> \o w
<1>1. w \in Seq(S) /\ Len(w) \in Nat /\ "d" \in S /\ <<"d">> \in Seq(S) /\ Len(<<"d">>) = 1
  BY DEF Holds, Alphabet
<1>2. all \in Seq(S) /\ all # <<>> /\ all[1] = "d" /\ Len(all) = 1 + Len(w)
  BY <1>1, Starts
<1>3. ASSUME NEW s \in Seq(S), NEW f, NEW p, IsParsing(s, f), Stands(s, p, all)
      PROVE  parseNode(s, f, p + 1) = Decoded([dict |-> d], p + Len(all) + 1)
  <2>1. Stands(s, p, <<"d">>) /\ Stands(s, p + 1, w)
    BY <1>1, <1>3, StandsApart
  <2> DEFINE r == Decoded(d, (p + 1) + Len(w) + 1)
  <2>2. p \in Nat /\ p + 1 \in 1..Len(s) /\ s[p + 1] = "d"
    BY <2>1, StandsOne
  <2>3. f[<<"dict", (p + 1) + 1>>] = r
    BY <1>3, <2>1 DEF Holds
  <2>4. ~(p + 1 > Len(s)) /\ (p + 1) + Len(w) + 1 = p + Len(all) + 1
    BY <1>1, <1>2, <2>2
  <2>5. parseNode(s, f, p + 1) = AsDict(f[<<"dict", (p + 1) + 1>>])
    BY <2>2, <2>4, DigitValues DEF parseNode
  <2>6. AsDict(r) = Decoded([dict |-> d], (p + 1) + Len(w) + 1)
    BY DecodedIs DEF AsDict
  <2> HIDE DEF all, r
  <2> QED
    BY <2>3, <2>4, <2>5, <2>6
<1> HIDE DEF all
<1>4. Writes(S, all, [dict |-> d])
  BY <1>2, <1>3 DEF Writes
<1> QED
  BY <1>4 DEF all

(* Elements with an "l" in front are a list.                              *)
LEMMA ListWrites ==
    ASSUME NEW S, Alphabet(S), NEW w, NEW d, Holds(S, w, "list", d)
    PROVE  Writes(S, <<"l">> \o w, [list |-> d])
<1> DEFINE all == <<"l">> \o w
<1>1. w \in Seq(S) /\ Len(w) \in Nat /\ "l" \in S /\ <<"l">> \in Seq(S) /\ Len(<<"l">>) = 1
  BY DEF Holds, Alphabet
<1>2. all \in Seq(S) /\ all # <<>> /\ all[1] = "l" /\ Len(all) = 1 + Len(w)
  BY <1>1, Starts
<1>3. ASSUME NEW s \in Seq(S), NEW f, NEW p, IsParsing(s, f), Stands(s, p, all)
      PROVE  parseNode(s, f, p + 1) = Decoded([list |-> d], p + Len(all) + 1)
  <2>1. Stands(s, p, <<"l">>) /\ Stands(s, p + 1, w)
    BY <1>1, <1>3, StandsApart
  <2> DEFINE r == Decoded(d, (p + 1) + Len(w) + 1)
  <2>2. p \in Nat /\ p + 1 \in 1..Len(s) /\ s[p + 1] = "l"
    BY <2>1, StandsOne
  <2>3. f[<<"list", (p + 1) + 1>>] = r
    BY <1>3, <2>1 DEF Holds
  <2>4. ~(p + 1 > Len(s)) /\ (p + 1) + Len(w) + 1 = p + Len(all) + 1
    BY <1>1, <1>2, <2>2
  <2>5. parseNode(s, f, p + 1) = AsList(f[<<"list", (p + 1) + 1>>])
    BY <2>2, <2>4, DigitValues DEF parseNode
  <2>6. AsList(r) = Decoded([list |-> d], (p + 1) + Len(w) + 1)
    BY DecodedIs DEF AsList
  <2> HIDE DEF all, r
  <2> QED
    BY <2>3, <2>4, <2>5, <2>6
<1> HIDE DEF all
<1>4. Writes(S, all, [list |-> d])
  BY <1>2, <1>3 DEF Writes
<1> QED
  BY <1>4 DEF all

(* A sequence from its n-th element on.                                    *)
LEMMA FromOn ==
    ASSUME NEW V, NEW q \in Seq(V)
    PROVE  /\ SubSeq(q, Len(q) + 1, Len(q)) = <<>>
           /\ SubSeq(q, 1, Len(q)) = q
           /\ \A n \in 1..Len(q) : <<q[n]>> \o SubSeq(q, n + 1, Len(q)) = SubSeq(q, n, Len(q))
<1> DEFINE L == Len(q)
<1>1. L \in Nat
  OBVIOUS
<1>2. ASSUME NEW n \in 1..L PROVE <<q[n]>> \o SubSeq(q, n + 1, L) = SubSeq(q, n, L)
  <2> DEFINE b == SubSeq(q, n + 1, L)
             a == SubSeq(q, n, L)
             t == <<q[n]>> \o b
  <2>1. n + 1 \in Nat \ {0} /\ n \in Nat \ {0} /\ L \in Int /\ L <= Len(q) /\ q[n] \in V
    BY <1>1
  <2>2. /\ b \in Seq(V)
        /\ Len(b) = IF n + 1 <= L THEN L - (n + 1) + 1 ELSE 0
        /\ \A m \in 1..Len(b) : b[m] = q[(n + 1) + m - 1]
    BY <2>1, Between
  <2>3. /\ a \in Seq(V)
        /\ Len(a) = IF n <= L THEN L - n + 1 ELSE 0
        /\ \A m \in 1..Len(a) : a[m] = q[n + m - 1]
    BY <2>1, Between
  <2> HIDE DEF a, b
  <2>4. /\ t \in Seq(V) /\ Len(t) = Len(b) + 1 /\ t[1] = q[n]
        /\ \A j \in 1..Len(b) : t[j + 1] = b[j]
    BY <2>1, <2>2, InFront
  <2> HIDE DEF t
  <2>5. Len(t) = Len(a) /\ Len(b) = L - n /\ Len(a) = L - n + 1
    BY <1>1, <2>2, <2>3, <2>4
  <2>6. ASSUME NEW m \in 1..Len(t) PROVE t[m] = a[m]
    <3>1. CASE m = 1
      <4>1. 1 \in 1..Len(a) /\ n + 1 - 1 = n
        BY <1>1, <2>5
      <4> QED
        BY <2>3, <2>4, <3>1, <4>1
    <3>2. CASE m # 1
      <4>1. /\ m - 1 \in 1..Len(b) /\ (m - 1) + 1 = m /\ m \in 1..Len(a)
            /\ (n + 1) + (m - 1) - 1 = n + m - 1
        BY <1>1, <2>5, <3>2
      <4>2. t[(m - 1) + 1] = b[m - 1] /\ b[m - 1] = q[(n + 1) + (m - 1) - 1]
        BY <2>2, <2>4, <4>1
      <4> QED
        BY <2>3, <4>1, <4>2
    <3> QED
      BY <3>1, <3>2
  <2>7. t = a
    BY <2>3, <2>4, <2>5, <2>6, Same
  <2> QED
    BY <2>7 DEF t, a, b
<1>3. SubSeq(q, L + 1, L) = <<>>
  <2>1. L + 1 \in Nat \ {0} /\ L \in Int /\ L <= Len(q) /\ ~(L + 1 <= L)
    BY <1>1
  <2> DEFINE a == SubSeq(q, L + 1, L)
  <2>2. a \in Seq(V) /\ Len(a) = 0
    BY <2>1, Between
  <2> HIDE DEF a
  <2>3. a = <<>>
    BY <2>2
  <2> QED
    BY <2>3 DEF a
<1>4. SubSeq(q, 1, L) = q
  <2>1. 1 \in Nat \ {0} /\ L \in Int /\ L <= Len(q)
    BY <1>1
  <2> DEFINE a == SubSeq(q, 1, L)
  <2>2. /\ a \in Seq(V) /\ Len(a) = IF 1 <= L THEN L - 1 + 1 ELSE 0
        /\ \A m \in 1..Len(a) : a[m] = q[1 + m - 1]
    BY <2>1, Between
  <2> HIDE DEF a
  <2>3. Len(a) = Len(q) /\ \A m \in 1..Len(a) : 1 + m - 1 = m
    BY <1>1, <2>2
  <2>4. \A m \in 1..Len(a) : a[m] = q[m]
    BY <2>2, <2>3
  <2>5. a = q
    BY <2>2, <2>3, <2>4, Same
  <2> QED
    BY <2>5 DEF a
<1> QED
  BY <1>2, <1>3, <1>4

(* One element of a list.                                                  *)
LEMMA ItemHolds ==
    ASSUME NEW S, Alphabet(S), NEW s \in Seq(S), NEW f, IsParsing(s, f),
           NEW v, NEW node, Writes(S, v, node), NEW p, Stands(s, p, v),
           NEW others, NEW n, f[<<"list", p + Len(v) + 1>>] = Decoded(others, n)
    PROVE  f[<<"list", p + 1>>] = Decoded(<<node>> \o others, n)
<1>1. v \in Seq(S) /\ v # <<>> /\ v[1] # "e" /\ parseNode(s, f, p + 1) = Decoded(node, p + Len(v) + 1)
  BY DEF Writes
<1>2. p \in Nat /\ Len(s) \in Nat /\ p + 1 \in 1..Len(s) /\ s[p + 1] # "e"
  <2>1. 1 \in 1..Len(v) /\ Len(v) \in Nat
    BY <1>1
  <2> QED
    BY <1>1, <2>1 DEF Stands
<1>3. AfterEnd(s, p + 1) = 0
  BY <1>2 DEF AfterEnd
<1> DEFINE value == Decoded(node, p + Len(v) + 1)
           rest == Decoded(others, n)
<1>4. /\ value.ok /\ value.node = node /\ value.next = p + Len(v) + 1
      /\ rest.ok /\ rest.node = others /\ rest.next = n
  BY DecodedIs
<1>5. parseNode(s, f, p + 1) = value /\ f[<<"list", p + Len(v) + 1>>] = rest
  BY <1>1
<1> HIDE DEF value, rest
<1>6. parseList(s, f, p + 1) = IF value.ok /\ f[<<"list", value.next>>].ok
                               THEN Decoded(<<value.node>> \o f[<<"list", value.next>>].node,
                                            f[<<"list", value.next>>].next)
                               ELSE Failed
  BY <1>3, <1>5, Zenon DEF parseList
<1>7. parseList(s, f, p + 1) = Decoded(<<node>> \o others, n)
  BY <1>4, <1>5, <1>6, Zenon
<1>8. p + 1 \in 1..Len(s) + 1
  BY <1>2
<1>9. f[<<"list", p + 1>>] = Inside(s, f, "list", p + 1)
  BY <1>8, ParsesAt DEF Kinds
<1> QED
  BY <1>7, <1>9 DEF Inside

(* The elements of a list, one after the other.                            *)
LEMMA ItemsHold ==
    ASSUME NEW S, Alphabet(S), NEW q \in Seq(Seq(S)), NEW V, NEW nodes \in Seq(V),
           Len(nodes) = Len(q), \A n \in 1..Len(q) : Writes(S, q[n], nodes[n])
    PROVE  Holds(S, FlattenSeq(q) \o <<"e">>, "list", nodes)
<1> DEFINE F == FlattenSeq(q)
           all == F \o <<"e">>
           L == Len(q)
<1>1. L \in Nat /\ F \in Seq(S) /\ <<"e">> \in Seq(S) /\ Len(<<"e">>) = 1
  BY Flattened DEF Alphabet
<1>2. PICK ends : Parts(q, F, ends)
  BY Flattened
<1> HIDE DEF F
<1>3. /\ ends[0] = 0 /\ ends[L] = Len(F)
      /\ \A n \in 0..L : ends[n] \in 0..Len(F)
      /\ \A n \in 1..L : ends[n] = ends[n - 1] + Len(q[n])
      /\ \A n \in 1..L : \A j \in 1..Len(q[n]) :
            ends[n - 1] + j \in 1..Len(F) /\ F[ends[n - 1] + j] = q[n][j]
  BY <1>2 DEF Parts
<1>4. all \in Seq(S) /\ Len(all) = Len(F) + 1 /\ Len(F) \in Nat
  BY <1>1, Joining
<1>5. ASSUME NEW s \in Seq(S), NEW f, NEW p, IsParsing(s, f), Stands(s, p, all)
      PROVE  f[<<"list", p + 1>>] = Decoded(nodes, p + Len(all) + 1)
  <2>1. Stands(s, p, F) /\ Stands(s, p + Len(F), <<"e">>)
    BY <1>1, <1>5, StandsApart
  <2>2. /\ p \in Nat /\ Len(s) \in Nat /\ p + Len(F) <= Len(s)
        /\ \A j \in 1..Len(F) : s[p + j] = F[j]
    BY <2>1 DEF Stands
  <2> DEFINE end == p + Len(all) + 1
             from(n) == SubSeq(nodes, n, L)
             T == { k \in Nat : k <= L =>
                      f[<<"list", p + ends[L - k] + 1>>] = Decoded(from(L - k + 1), end) }
  <2>3. from(L + 1) = <<>> /\ from(1) = nodes
        /\ \A n \in 1..L : <<nodes[n]>> \o from(n + 1) = from(n)
    BY FromOn
  <2> HIDE DEF from
  <2>4. 0 \in T
    <3>1. Holds(S, <<"e">>, "list", <<>>)
      BY EndHolds DEF Kinds
    <3>2. f[<<"list", (p + Len(F)) + 1>>] = Decoded(<<>>, (p + Len(F)) + Len(<<"e">>) + 1)
      BY <1>5, <2>1, <3>1 DEF Holds
    <3>3. (p + Len(F)) + Len(<<"e">>) + 1 = end /\ L - 0 = L /\ L - 0 + 1 = L + 1
      BY <1>1, <1>4, <2>2
    <3> HIDE DEF end
    <3> QED
      BY <1>3, <2>3, <3>2, <3>3
  <2> HIDE DEF end
  <2>5. ASSUME NEW k \in Nat, k \in T PROVE k + 1 \in T
    <3>1. SUFFICES ASSUME k + 1 <= L
                   PROVE  f[<<"list", p + ends[L - (k + 1)] + 1>>]
                            = Decoded(from(L - (k + 1) + 1), end)
      OBVIOUS
    <3>2. PICK n \in 1..L : n = L - k /\ n - 1 = L - (k + 1) /\ L - (k + 1) + 1 = n
      <4>1. /\ L - k \in 1..L /\ (L - k) - 1 = L - (k + 1)
            /\ L - (k + 1) + 1 = L - k
        BY <1>1, <3>1
      <4> HIDE DEF L
      <4> QED
        BY <4>1
    <3>3. f[<<"list", p + ends[n] + 1>>] = Decoded(from(n + 1), end)
      BY <1>1, <2>5, <3>1, <3>2
    <3> DEFINE e == ends[n - 1]
               b == p + e
               W == Len(q[n])
    <3>4. n - 1 \in 0..L /\ n \in 0..L
      BY <1>1
    <3>5. /\ ends[n] \in 0..Len(F) /\ ends[n] = ends[n - 1] + Len(q[n])
          /\ e \in Nat /\ b \in Nat
      <4>1. /\ ends[n] \in 0..Len(F) /\ ends[n] = ends[n - 1] + Len(q[n])
            /\ ends[n - 1] \in 0..Len(F)
        BY <1>3, <3>4
      <4> QED
        BY <1>4, <2>2, <4>1
    <3>6. q[n] \in Seq(S) /\ Len(q[n]) \in Nat /\ Writes(S, q[n], nodes[n])
      OBVIOUS
    <3>7. Stands(s, b, q[n])
      <4>1. b + W <= Len(s)
        <5>1. ends[n] \in 0..Len(F) /\ ends[n] = e + W /\ e \in Nat /\ W \in Nat
          BY <3>5, <3>6
        <5> HIDE DEF e, W
        <5> QED
          BY <1>4, <2>2, <5>1
      <4>2. \A j \in 1..Len(q[n]) : s[b + j] = q[n][j]
        <5>1. \A j \in Nat : p + (ends[n - 1] + j) = b + j
          <6>1. e \in Nat /\ p \in Nat /\ b = p + e
            BY <2>2, <3>5
          <6> HIDE DEF e, b
          <6>2. \A j \in Nat : p + (e + j) = b + j
            BY <6>1
          <6> QED
            BY <6>2 DEF e
        <5>2. \A j \in 1..Len(q[n]) : ends[n - 1] + j \in 1..Len(F) /\ F[ends[n - 1] + j] = q[n][j]
          BY <1>3
        <5>3. \A j \in 1..Len(q[n]) : j \in Nat
          BY <3>6
        <5> HIDE DEF b
        <5> QED
          BY <2>2, <5>1, <5>2, <5>3
      <4> HIDE DEF b
      <4> QED
        BY <3>5, <4>1, <4>2 DEF Stands
    <3>8. b + W + 1 = p + ends[n] + 1
      <4>1. ends[n] = e + W /\ e \in Nat /\ W \in Nat
        BY <3>5, <3>6
      <4> HIDE DEF e, W
      <4> QED
        BY <2>2, <4>1
    <3> HIDE DEF b
    <3>9. f[<<"list", b + 1>>] = Decoded(<<nodes[n]>> \o from(n + 1), end)
      BY <1>5, <3>3, <3>6, <3>7, <3>8, ItemHolds
    <3> QED
      BY <2>3, <3>2, <3>9 DEF b
  <2>6. L \in T
    <3> HIDE DEF T
    <3> QED
      BY <1>1, <2>4, <2>5, Induct
  <2>7. L - L = 0 /\ L - L + 1 = 1 /\ L <= L /\ p + 0 + 1 = p + 1
    BY <1>1, <2>2
  <2> QED
    BY <1>3, <2>3, <2>6, <2>7 DEF end
<1> HIDE DEF all
<1>6. Holds(S, all, "list", nodes)
  BY <1>4, <1>5 DEF Holds
<1> QED
  BY <1>6 DEF all, F

-----------------------------------------------------------------------------
(* The answer to an announce.                                             *)

\* A dictionary has the entry that was put in front, unless it had one with the key.
LEMMA EntryIs ==
    ASSUME NEW word, NEW node, NEW d
    PROVE  LET e == WithEntry(<<word>>, node, d)
           IN  /\ Has(e, word)
               /\ ~Has(d, word) => At(e, word) = node
               /\ \A u : Has(d, u) => Has(e, u) /\ At(e, u) = At(d, u)
               /\ \A u : u # word /\ ~Has(d, u) => ~Has(e, u)
<1> DEFINE e == WithEntry(<<word>>, node, d)
<1>1. e = [k \in {<<word>>} \cup DOMAIN d |-> IF k \in DOMAIN d THEN d[k] ELSE node]
  BY Zenon DEF WithEntry
<1> HIDE DEF e
<1>2. DOMAIN e = {<<word>>} \cup DOMAIN d
  BY <1>1
<1>3. \A k \in DOMAIN d : e[k] = d[k]
  BY <1>1
<1>4. <<word>> \notin DOMAIN d => e[<<word>>] = node
  BY <1>1
<1>5. \A u : <<u>> = <<word>> => u = word
  OBVIOUS
<1>6. Has(e, word) /\ (~Has(d, word) => At(e, word) = node)
  BY <1>2, <1>4 DEF Has, At
<1>7. \A u : Has(d, u) => Has(e, u) /\ At(e, u) = At(d, u)
  BY <1>2, <1>3, Zenon DEF Has, At
<1>8. \A u : u # word /\ ~Has(d, u) => ~Has(e, u)
  BY <1>2, <1>5, Zenon DEF Has
<1> QED
  BY <1>6, <1>7, <1>8 DEF e

(* The empty dictionary has no entry.                                     *)
LEMMA NoEntries ==
    \A u : ~Has(<<>>, u)
  BY DEF Has

\* The dictionary of three entries.
Three(u, a, v, b, w, c) ==
    WithEntry(<<u>>, a, WithEntry(<<v>>, b, WithEntry(<<w>>, c, <<>>)))

(* The first and the last of three entries.                               *)
LEMMA ThreeIs ==
    ASSUME NEW u, NEW a, NEW v, NEW b, NEW w, NEW c, u # v, u # w, v # w
    PROVE  LET d == Three(u, a, v, b, w, c)
           IN  /\ Has(d, u) /\ At(d, u) = a
               /\ Has(d, w) /\ At(d, w) = c
<1> DEFINE d1 == WithEntry(<<w>>, c, <<>>)
           d2 == WithEntry(<<v>>, b, d1)
           d3 == WithEntry(<<u>>, a, d2)
<1>1. /\ Has(d1, w) /\ At(d1, w) = c
      /\ ~Has(d1, u)
  BY EntryIs, NoEntries
<1> HIDE DEF d1
<1>2. /\ Has(d2, w) /\ At(d2, w) = c
      /\ ~Has(d2, u)
  BY <1>1, EntryIs
<1> HIDE DEF d2
<1>3. /\ Has(d3, w) /\ At(d3, w) = c
      /\ Has(d3, u) /\ At(d3, u) = a
  BY <1>2, EntryIs
<1> QED
  BY <1>3 DEF Three, d1, d2, d3

\* How the parts are grouped is all the same.
Regroups(a, b, c, d, e) == a \o b \o c \o d \o e = a \o (b \o (c \o (d \o e)))

LEMMA EntriesRegroup ==
    ASSUME NEW S, NEW a \in Seq(S), NEW b \in Seq(S), NEW c \in Seq(S), NEW d \in Seq(S),
           NEW e \in Seq(S)
    PROVE  Regroups(a, b, c, d, e)
<1> DEFINE ab == a \o b
           abc == ab \o c
           de == d \o e
           cde == c \o de
<1>1. ab \in Seq(S) /\ de \in Seq(S)
  OBVIOUS
<1> HIDE DEF ab, de
<1>2. abc \in Seq(S) /\ cde \in Seq(S)
  BY <1>1
<1> HIDE DEF abc, cde
<1>3. Groups(abc, d, e) /\ Groups(ab, c, de) /\ Groups(a, b, cde)
  BY <1>1, <1>2, Regroup
<1>4. (abc \o d) \o e = abc \o de
  BY <1>3, Zenon DEF Groups, de
<1>5. abc \o de = ab \o cde
  BY <1>3, Zenon DEF Groups, abc, cde
<1>6. ab \o cde = a \o (b \o cde)
  BY <1>3, Zenon DEF Groups, ab
<1> QED
  BY <1>4, <1>5, <1>6, Zenon DEF abc, ab, de, cde, Regroups

(* An entry is made of the same symbols.                                  *)
LEMMA EntryIn ==
    ASSUME NEW S, Alphabet(S), NEW word \in S, NEW v, NEW node, Writes(S, v, node)
    PROVE  Entry(word, v) \in Seq(S)
<1>1. v \in Seq(S) /\ <<word>> \in Seq(S)
  BY DEF Writes
<1>2. BStr(<<word>>) \in Seq(S)
  BY <1>1, StringIs
<1> QED
  BY <1>1, <1>2 DEF Entry

(* A dictionary of three entries is read as it was written.                *)
LEMMA ThreeWrites ==
    ASSUME NEW S, Alphabet(S),
           NEW u \in S, NEW a, NEW x, Writes(S, x, a),
           NEW v \in S, NEW b, NEW y, Writes(S, y, b),
           NEW w \in S, NEW c, NEW z, Writes(S, z, c)
    PROVE  Writes(S, <<"d">> \o Entry(u, x) \o Entry(v, y) \o Entry(w, z) \o <<"e">>,
                  [dict |-> Three(u, a, v, b, w, c)])
<1>1. Holds(S, <<"e">>, "dict", <<>>)
  BY EndHolds DEF Kinds
<1>2. Holds(S, Entry(w, z) \o <<"e">>, "dict", WithEntry(<<w>>, c, <<>>))
  BY <1>1, EntryHolds
<1>3. Holds(S, Entry(v, y) \o (Entry(w, z) \o <<"e">>), "dict",
            WithEntry(<<v>>, b, WithEntry(<<w>>, c, <<>>)))
  BY <1>2, EntryHolds
<1>4. Holds(S, Entry(u, x) \o (Entry(v, y) \o (Entry(w, z) \o <<"e">>)), "dict",
            Three(u, a, v, b, w, c))
  BY <1>3, EntryHolds DEF Three
<1>5. Writes(S, <<"d">> \o (Entry(u, x) \o (Entry(v, y) \o (Entry(w, z) \o <<"e">>))),
             [dict |-> Three(u, a, v, b, w, c)])
  BY <1>4, DictWrites
<1>6. /\ Entry(u, x) \in Seq(S) /\ Entry(v, y) \in Seq(S) /\ Entry(w, z) \in Seq(S)
      /\ <<"d">> \in Seq(S) /\ <<"e">> \in Seq(S)
  BY EntryIn DEF Alphabet
<1> DEFINE t == <<"d">> \o Entry(u, x) \o Entry(v, y) \o Entry(w, z) \o <<"e">>
<1>7. t = <<"d">> \o (Entry(u, x) \o (Entry(v, y) \o (Entry(w, z) \o <<"e">>)))
  <2> DEFINE p == <<"d">>
             q == Entry(u, x)
             r == Entry(v, y)
             o == Entry(w, z)
             e == <<"e">>
  <2>1. p \in Seq(S) /\ q \in Seq(S) /\ r \in Seq(S) /\ o \in Seq(S) /\ e \in Seq(S)
    BY <1>6
  <2> HIDE DEF p, q, r, o, e
  <2>2. Regroups(p, q, r, o, e)
    BY <2>1, EntriesRegroup
  <2>3. p \o q \o r \o o \o e = p \o (q \o (r \o (o \o e)))
    BY <2>2, Zenon DEF Regroups
  <2> QED
    BY <2>3 DEF p, q, r, o, e
<1> QED
  BY <1>5, <1>7

\* The symbols of an announce's answer.
Symbols ==
    Digit \cup {"i", "e", ":", "l", "d"}
    \cup {"ip", "peer id", "port", "interval", "peers", "failure reason", "reason"}
    \cup { peer.ip : peer \in Peers } \cup { peer.id : peer \in Peers }

(* The symbols of an answer and of the words in it.                       *)
LEMMA SymbolsAre ==
    /\ Alphabet(Symbols)
    /\ "ip" \in Symbols /\ "peer id" \in Symbols /\ "port" \in Symbols
    /\ "interval" \in Symbols /\ "peers" \in Symbols
    /\ "failure reason" \in Symbols /\ "reason" \in Symbols
    /\ \A peer \in Peers : peer.ip \in Symbols /\ peer.id \in Symbols
<1>1. Alphabet(Symbols)
  BY Zenon DEF Symbols, Alphabet
<1>2. \A peer \in Peers : peer.ip \in Symbols /\ peer.id \in Symbols
  BY Zenon DEF Symbols
<1>3. /\ "ip" \in Symbols /\ "peer id" \in Symbols /\ "port" \in Symbols
      /\ "interval" \in Symbols /\ "peers" \in Symbols
      /\ "failure reason" \in Symbols /\ "reason" \in Symbols
  BY Zenon DEF Symbols
<1> QED
  BY <1>1, <1>2, <1>3, Zenon

(* BStr writes a word.                                                    *)
LEMMA WordWrites ==
    ASSUME NEW S, Alphabet(S), NEW word \in S
    PROVE  Writes(S, BStr(<<word>>), [str |-> <<word>>])
<1>1. <<word>> \in Seq(S)
  OBVIOUS
<1> QED
  BY <1>1, StringWrites

\* The dictionary that EncodePeer writes.
PeerDict(peer) ==
    Three("ip", [str |-> <<peer.ip>>], "peer id", [str |-> <<peer.id>>], "port", [int |-> peer.port])

\* What is dialled of a peer.
Address(peer) == [ip |-> <<peer.ip>>, port |-> peer.port]

(* An entry of the list is read as it was written, and has its address.    *)
LEMMA PeerWrites ==
    ASSUME NEW peer \in Peers
    PROVE  /\ Writes(Symbols, EncodePeer(peer), [dict |-> PeerDict(peer)])
           /\ ParsePeer(PeerDict(peer)) = Address(peer)
<1> DEFINE a == [str |-> <<peer.ip>>]
           b == [str |-> <<peer.id>>]
           c == [int |-> peer.port]
           d == PeerDict(peer)
<1>1. peer.port \in Nat
  BY FormatsConstants
<1>2. /\ Writes(Symbols, BStr(<<peer.ip>>), a)
      /\ Writes(Symbols, BStr(<<peer.id>>), b)
      /\ Writes(Symbols, BInt(peer.port), c)
  <2> DEFINE S == Symbols
  <2>1. Alphabet(S) /\ peer.ip \in S /\ peer.id \in S
    BY SymbolsAre, Zenon
  <2> HIDE DEF S
  <2>2. /\ Writes(S, BStr(<<peer.ip>>), a)
        /\ Writes(S, BStr(<<peer.id>>), b)
        /\ Writes(S, BInt(peer.port), c)
    BY <1>1, <2>1, WordWrites, IntWrites
  <2> QED
    BY <2>2, Zenon DEF S
<1>3. d = Three("ip", a, "peer id", b, "port", c)
  BY Zenon DEF PeerDict
<1>4. Writes(Symbols, EncodePeer(peer), [dict |-> d])
  <2>1. Writes(Symbols, <<"d">> \o Entry("ip", BStr(<<peer.ip>>))
                        \o Entry("peer id", BStr(<<peer.id>>))
                        \o Entry("port", BInt(peer.port)) \o <<"e">>,
               [dict |-> Three("ip", a, "peer id", b, "port", c)])
    <3> HIDE DEF a, b, c
    <3> QED
      BY <1>2, SymbolsAre, ThreeWrites, Zenon
  <2> HIDE DEF d, a, b, c
  <2> QED
    BY <1>3, <2>1, Zenon DEF EncodePeer
<1>5. Has(d, "ip") /\ At(d, "ip") = a /\ Has(d, "port") /\ At(d, "port") = c
  <2>1. "ip" # "peer id" /\ "ip" # "port" /\ "peer id" # "port"
    BY Zenon
  <2> DEFINE u == "ip"
             v == "peer id"
             w == "port"
             t == Three(u, a, v, b, w, c)
  <2>2. u # v /\ u # w /\ v # w
    BY <2>1, Zenon
  <2> HIDE DEF a, b, c, d, u, v, w
  <2>3. Has(t, u) /\ At(t, u) = a /\ Has(t, w) /\ At(t, w) = c
    BY <2>2, ThreeIs
  <2> QED
    BY <1>3, <2>3, Zenon DEF u, v, w
<1>6. "str" \in DOMAIN a /\ a.str = <<peer.ip>> /\ "int" \in DOMAIN c /\ c.int = peer.port
  OBVIOUS
<1> HIDE DEF a, c, d
<1>7. HasA("str", d, "ip") /\ HasA("int", d, "port")
  BY <1>5, <1>6 DEF HasA
<1>8. ParsePeer(d) = [ip |-> At(d, "ip").str, port |-> At(d, "port").int]
  BY <1>7 DEF ParsePeer
<1>9. ParsePeer(d) = Address(peer)
  BY <1>5, <1>6, <1>8 DEF Address
<1> QED
  BY <1>4, <1>9 DEF d

(* The answer is read as it was written.                                   *)
LEMMA AnswerWrites ==
    ASSUME NEW peers \in Seq(Peers)
    PROVE  Writes(Symbols, AnnounceResponse(peers),
                  [dict |-> WithEntry(<<"interval">>, [int |-> Interval],
                              WithEntry(<<"peers">>,
                                [list |-> [i \in 1..Len(peers) |-> [dict |-> PeerDict(peers[i])]]],
                                <<>>))])
<1> DEFINE S == Symbols
           L == Len(peers)
           q == [i \in DOMAIN peers |-> EncodePeer(peers[i])]
           nodes == [i \in 1..L |-> [dict |-> PeerDict(peers[i])]]
           V == { [dict |-> PeerDict(peer)] : peer \in Peers }
           F == FlattenSeq(q)
           w1 == "interval"
           w2 == "peers"
           X == BInt(Interval)
           Y == <<"l">> \o (F \o <<"e">>)
           D2 == WithEntry(<<w2>>, [list |-> nodes], <<>>)
           D1 == WithEntry(<<w1>>, [int |-> Interval], D2)
<1>1. Alphabet(S) /\ w1 \in S /\ w2 \in S
  BY SymbolsAre, Zenon
<1>2. L \in Nat /\ DOMAIN peers = 1..L /\ \A n \in 1..L : peers[n] \in Peers
  OBVIOUS
<1>3. \A n \in 1..L : Writes(S, EncodePeer(peers[n]), [dict |-> PeerDict(peers[n])])
  BY <1>2, PeerWrites
<1> HIDE DEF S, w1, w2
<1>4. \A n \in 1..L : EncodePeer(peers[n]) \in Seq(S)
  BY <1>3 DEF Writes
<1>5. /\ q \in Seq(Seq(S)) /\ Len(q) = L
      /\ \A n \in 1..L : q[n] = EncodePeer(peers[n])
  <2> DEFINE h(n) == EncodePeer(peers[n])
  <2>1. q = [n \in 1..L |-> h(n)] /\ \A n \in 1..L : h(n) \in Seq(S)
    BY <1>2, <1>4
  <2> HIDE DEF h, q
  <2>2. q \in Seq(Seq(S)) /\ Len(q) = L /\ \A n \in 1..L : q[n] = h(n)
    BY <1>2, <2>1
  <2> QED
    BY <2>2 DEF h
<1>6. /\ nodes \in Seq(V) /\ Len(nodes) = L
      /\ \A n \in 1..L : nodes[n] = [dict |-> PeerDict(peers[n])]
  <2> DEFINE h(n) == [dict |-> PeerDict(peers[n])]
  <2>1. nodes = [n \in 1..L |-> h(n)] /\ \A n \in 1..L : h(n) \in V
    BY <1>2
  <2> HIDE DEF h, nodes, V
  <2>2. nodes \in Seq(V) /\ Len(nodes) = L /\ \A n \in 1..L : nodes[n] = h(n)
    BY <1>2, <2>1
  <2> QED
    BY <2>2 DEF h
<1> HIDE DEF q, nodes, V
<1>7. Holds(S, F \o <<"e">>, "list", nodes)
  <2>1. \A n \in 1..Len(q) : Writes(S, q[n], nodes[n])
    BY <1>3, <1>5, <1>6
  <2> QED
    BY <1>1, <1>5, <1>6, <2>1, ItemsHold
<1>8. F \in Seq(S) /\ <<"l">> \in Seq(S) /\ <<"e">> \in Seq(S) /\ <<"d">> \in Seq(S)
  BY <1>1, <1>5, Flattened DEF Alphabet
<1> HIDE DEF F
<1>9. Writes(S, Y, [list |-> nodes])
  BY <1>1, <1>7, ListWrites
<1>10. Writes(S, X, [int |-> Interval])
  BY <1>1, FormatsConstants, IntWrites
<1>11. (<<"l">> \o F) \o <<"e">> = Y
  BY <1>8, Regroup DEF Groups
<1> HIDE DEF X, Y
<1>12. Holds(S, <<"e">>, "dict", <<>>)
  BY <1>1, EndHolds DEF Kinds
<1>13. Holds(S, Entry(w2, Y) \o <<"e">>, "dict", D2)
  BY <1>1, <1>9, <1>12, EntryHolds
<1>14. Holds(S, Entry(w1, X) \o (Entry(w2, Y) \o <<"e">>), "dict", D1)
  <2> HIDE DEF D2
  <2> QED
    BY <1>1, <1>10, <1>13, EntryHolds
<1>15. Writes(S, <<"d">> \o (Entry(w1, X) \o (Entry(w2, Y) \o <<"e">>)), [dict |-> D1])
  <2> HIDE DEF D1
  <2> QED
    BY <1>1, <1>14, DictWrites
<1>16. <<"d">> \o Entry(w1, X) \o Entry(w2, Y) \o <<"e">>
          = <<"d">> \o (Entry(w1, X) \o (Entry(w2, Y) \o <<"e">>))
  <2> DEFINE a == <<"d">>
             b == Entry(w1, X)
             c == Entry(w2, Y)
             e == <<"e">>
             ab == a \o b
             ce == c \o e
  <2>1. a \in Seq(S) /\ b \in Seq(S) /\ c \in Seq(S) /\ e \in Seq(S)
    BY <1>1, <1>8, <1>9, <1>10, EntryIn
  <2> HIDE DEF a, b, c, e
  <2>2. ab \in Seq(S) /\ ce \in Seq(S)
    BY <2>1
  <2> HIDE DEF ab, ce
  <2>3. Groups(ab, c, e) /\ Groups(a, b, ce)
    BY <2>1, <2>2, Regroup
  <2>4. (ab \o c) \o e = ab \o ce
    BY <2>3, Zenon DEF Groups, ce
  <2>5. ab \o ce = a \o (b \o ce)
    BY <2>3, Zenon DEF Groups, ab
  <2> QED
    BY <2>4, <2>5, Zenon DEF ab, ce, a, b, c, e
<1>17. AnnounceResponse(peers) = <<"d">> \o Entry(w1, X) \o Entry(w2, Y) \o <<"e">>
  BY <1>11, Zenon DEF AnnounceResponse, w1, w2, X, F, q
<1> HIDE DEF D1, D2
<1>18. Writes(S, AnnounceResponse(peers), [dict |-> D1])
  BY <1>15, <1>16, <1>17, Zenon
<1> QED
  BY <1>18, Zenon DEF S, D1, D2, w1, w2, nodes, L

(* An error is read as it was written.                                     *)
LEMMA ErrorWrites ==
    Writes(Symbols, ErrorResponse("reason"),
           [dict |-> WithEntry(<<"failure reason">>, [str |-> <<"reason">>], <<>>)])
<1> DEFINE S == Symbols
           w == "failure reason"
           r == "reason"
           Y == BStr(<<r>>)
           D == WithEntry(<<w>>, [str |-> <<r>>], <<>>)
<1>1. Alphabet(S) /\ w \in S /\ r \in S
  BY SymbolsAre, Zenon
<1> HIDE DEF S, w, r
<1>2. Writes(S, Y, [str |-> <<r>>])
  BY <1>1, WordWrites
<1>3. Holds(S, <<"e">>, "dict", <<>>)
  BY <1>1, EndHolds DEF Kinds
<1>4. Holds(S, Entry(w, Y) \o <<"e">>, "dict", D)
  BY <1>1, <1>2, <1>3, EntryHolds
<1>5. Writes(S, <<"d">> \o (Entry(w, Y) \o <<"e">>), [dict |-> D])
  BY <1>1, <1>4, DictWrites
<1>6. Groups(<<"d">>, Entry(w, Y), <<"e">>)
  <2>1. Entry(w, Y) \in Seq(S) /\ <<"d">> \in Seq(S) /\ <<"e">> \in Seq(S)
    BY <1>1, <1>2, EntryIn DEF Alphabet
  <2> QED
    BY <2>1, Regroup
<1> HIDE DEF D
<1>7. Writes(S, (<<"d">> \o Entry(w, Y)) \o <<"e">>, [dict |-> D])
  BY <1>5, <1>6, Zenon DEF Groups
<1> QED
  BY <1>7, Zenon DEF S, w, r, Y, D, ErrorResponse

(* The entries of a list of dictionaries, one after the other.             *)
LEMMA PeersRead ==
    ASSUME NEW W, NEW nodes \in Seq(W), NEW V, NEW a \in Seq(V), Len(a) = Len(nodes),
           \A n \in 1..Len(nodes) :
              "dict" \in DOMAIN nodes[n] /\ ParsePeer(nodes[n].dict) = a[n]
    PROVE  PeersIn(nodes) = a
<1> DEFINE L == Len(nodes)
<1>1. L \in Nat /\ a = [i \in 1..L |-> a[i]] /\ \A i \in 1..L : a[i] \in V
  OBVIOUS
<1>2. \A n \in 1..L : "dict" \in DOMAIN nodes[n] /\ ParsePeer(nodes[n].dict) = a[n]
  OBVIOUS
<1> DEFINE Step(v, n) == IF n = 0 THEN <<>>
                         ELSE IF "dict" \in DOMAIN nodes[n]
                         THEN Append(v[n - 1], ParsePeer(nodes[n].dict))
                         ELSE v[n - 1]
           Solves(v) == v = [n \in 0..L |-> Step(v, n)]
           upTo(n) == [i \in 1..n |-> a[i]]
           w == [n \in 0..L |-> upTo(n)]
<1>3. upTo(0) = <<>>
  OBVIOUS
<1>4. ASSUME NEW n \in 1..L PROVE upTo(n) = Append(upTo(n - 1), a[n])
  <2>1. n - 1 \in Nat /\ (n - 1) + 1 = n
    OBVIOUS
  <2>2. upTo(n - 1) \in Seq(V) /\ Len(upTo(n - 1)) = n - 1
    <3>1. \A i \in 1..n - 1 : a[i] \in V
      BY <1>1, <2>1
    <3> QED
      BY <2>1, <3>1
  <2> DEFINE b == Append(upTo(n - 1), a[n])
  <2>3. b = [i \in 1..(n - 1) + 1 |-> IF i = (n - 1) + 1 THEN a[n] ELSE upTo(n - 1)[i]]
    BY <2>1, <2>2
  <2>4. \A i \in 1..n : IF i = n THEN a[i] = a[n] ELSE upTo(n - 1)[i] = a[i]
    BY <2>1
  <2> QED
    BY <2>1, <2>3, <2>4
<1>5. \A v : \A n \in 1..L : Step(v, n) = Append(v[n - 1], a[n])
  BY <1>2
<1>6. \A v : Step(v, 0) = <<>>
  OBVIOUS
<1> HIDE DEF Step, upTo, L
<1>7. Solves(w)
  <2>1. ASSUME NEW n \in 0..L PROVE upTo(n) = Step(w, n)
    <3>1. CASE n = 0
      BY <1>3, <1>6, <3>1
    <3>2. CASE n # 0
      <4>1. n \in 1..L /\ n - 1 \in 0..L
        BY <1>1, <3>2
      <4>2. w[n - 1] = upTo(n - 1)
        BY <4>1
      <4> HIDE DEF w
      <4> QED
        BY <1>4, <1>5, <4>1, <4>2
    <3> QED
      BY <3>1, <3>2
  <2> DEFINE h(n) == Step(w, n)
  <2>2. \A n \in 0..L : upTo(n) = h(n)
    BY <2>1
  <2>3. w = [n \in 0..L |-> h(n)]
    <3> HIDE DEF h
    <3> QED
      BY <2>2
  <2> HIDE DEF w
  <2> QED
    BY <2>3 DEF h
<1> DEFINE v == CHOOSE f : Solves(f)
<1>8. Solves(v)
  <2> HIDE DEF Solves
  <2> QED
    BY <1>7
<1>9. PeersIn(nodes) = v[L]
  BY Zenon DEF PeersIn, Step, L
<1> HIDE DEF v, w
<1>10. v[0] = <<>> /\ \A n \in 1..L : v[n] = Append(v[n - 1], a[n])
  <2>1. 0 \in 0..L /\ \A n \in 1..L : n \in 0..L
    BY <1>1
  <2>2. \A n \in 0..L : v[n] = Step(v, n)
    BY <1>8
  <2> QED
    BY <1>5, <1>6, <2>1, <2>2
<1> DEFINE T == { n \in Nat : n <= L => v[n] = upTo(n) }
<1>11. 0 \in T
  BY <1>3, <1>10
<1>12. ASSUME NEW n \in Nat, n \in T PROVE n + 1 \in T
  <2>1. SUFFICES ASSUME n + 1 <= L PROVE v[n + 1] = upTo(n + 1)
    OBVIOUS
  <2>2. n + 1 \in 1..L /\ (n + 1) - 1 = n /\ n <= L
    BY <1>1, <2>1
  <2>3. v[n] = upTo(n)
    BY <1>12, <2>2
  <2> QED
    BY <1>4, <1>10, <2>2, <2>3
<1>13. L \in T
  <2> HIDE DEF T
  <2> QED
    BY <1>1, <1>11, <1>12, Induct
<1> QED
  BY <1>1, <1>9, <1>13 DEF upTo

(* Every address is dialled once, but for the listener's, which is not.    *)
LEMMA Dials ==
    ASSUME NEW V, NEW q \in Seq(V)
    PROVE  /\ ToSet(PopulateBootstrapNodes(Own, q)) = ToSet(q) \ {Own}
           /\ IsInjective(PopulateBootstrapNodes(Own, q))
<1> DEFINE N == Len(q)
           Step(v, n) == IF n = 0 THEN <<>>
                         ELSE IF Dialled(Own, v[n - 1], q[n]) THEN v[n - 1]
                         ELSE Append(v[n - 1], q[n])
           Solves(v) == v = [n \in 0..N |-> Step(v, n)]
           Dialling(n, nodes) == IF n \in 1..N
                              THEN IF Dialled(Own, nodes, q[n]) THEN nodes ELSE Append(nodes, q[n])
                              ELSE nodes
           h == [n \in Nat |-> [nodes \in Seq(V) |-> Dialling(n, nodes)]]
<1>1. N \in Nat /\ \A n \in 1..N : q[n] \in V
  OBVIOUS
<1>2. h \in [Nat -> [Seq(V) -> Seq(V)]]
      /\ \A n \in Nat : \A nodes \in Seq(V) : h[n][nodes] = Dialling(n, nodes)
  <2>1. ASSUME NEW n \in Nat, NEW nodes \in Seq(V) PROVE Dialling(n, nodes) \in Seq(V)
    <3>1. n \in 1..N => Append(nodes, q[n]) \in Seq(V)
      BY <1>1
    <3> QED
      BY <3>1
  <2> HIDE DEF Dialling
  <2> QED
    BY <2>1
<1>3. PICK w : IsRecursion(w, Seq(V), <<>>, h, N)
  <2>1. <<>> \in Seq(V)
    OBVIOUS
  <2> HIDE DEF h
  <2> QED
    BY <1>1, <1>2, <2>1, Forward
<1> HIDE DEF h
<1>4. /\ w \in [0..N -> Seq(V)] /\ w[0] = <<>>
      /\ \A n \in 1..N : w[n] = h[n][w[n - 1]]
  BY <1>3 DEF IsRecursion
<1>5. \A n \in 1..N : n \in 0..N /\ n - 1 \in 0..N /\ n \in Nat /\ n # 0 /\ w[n - 1] \in Seq(V)
  <2>1. \A n \in 1..N : n \in 0..N /\ n - 1 \in 0..N /\ n \in Nat /\ n # 0
    BY <1>1
  <2> QED
    BY <1>4, <2>1
<1>6. Solves(w)
  <2>1. ASSUME NEW n \in 0..N PROVE w[n] = Step(w, n)
    <3>1. CASE n = 0
      BY <1>4, <3>1
    <3>2. CASE n # 0
      <4>1. n \in 1..N
        BY <1>1, <3>2
      <4>2. w[n] = Dialling(n, w[n - 1])
        BY <1>2, <1>4, <1>5, <4>1
      <4> QED
        BY <3>2, <4>1, <4>2
    <3> QED
      BY <3>1, <3>2
  <2> DEFINE g(n) == Step(w, n)
  <2>2. \A n \in 0..N : w[n] = g(n)
    BY <2>1
  <2>3. w = [n \in 0..N |-> g(n)]
    <3> HIDE DEF g
    <3> QED
      BY <1>4, <2>2
  <2> QED
    BY <2>3 DEF g
<1> DEFINE v == CHOOSE f : Solves(f)
<1>7. Solves(v)
  <2> HIDE DEF Solves
  <2> QED
    BY <1>6
<1>8. PopulateBootstrapNodes(Own, q) = v[N]
  BY Zenon DEF PopulateBootstrapNodes
<1> HIDE DEF v
<1>9. \A n \in 0..N : v[n] = Step(v, n)
  <2> HIDE DEF Step
  <2> QED
    BY <1>7
<1> DEFINE Upto(n) == { q[i] : i \in 1..n }
           Good(n) == /\ v[n] \in Seq(V)
                      /\ ToSet(v[n]) = Upto(n) \ {Own}
                      /\ IsInjective(v[n])
           T == { n \in Nat : n <= N => Good(n) }
<1>10. 0 \in T
  <2>1. v[0] = <<>>
    BY <1>1, <1>9
  <2>2. Good(0)
    BY <2>1 DEF ToSet, IsInjective
  <2> QED
    BY <2>2
<1>11. ASSUME NEW n \in Nat, n \in T PROVE n + 1 \in T
  <2>1. SUFFICES ASSUME n + 1 <= N PROVE Good(n + 1)
    OBVIOUS
  <2>2. n + 1 \in 1..N /\ n + 1 \in 0..N /\ (n + 1) - 1 = n /\ n <= N /\ n + 1 # 0
    BY <1>1, <2>1
  <2>3. Good(n)
    BY <1>11, <2>2
  <2> DEFINE x == q[n + 1]
  <2>4. v[n + 1] = IF Dialled(Own, v[n], x) THEN v[n] ELSE Append(v[n], x)
    BY <1>9, <2>2
  <2>5. x \in V /\ Upto(n + 1) = Upto(n) \cup {x}
    <3>1. 1..n + 1 = 1..n \cup {n + 1}
      OBVIOUS
    <3> QED
      BY <1>1, <2>2, <3>1
  <2>6. Dialled(Own, v[n], x) <=> x = Own \/ x \in ToSet(v[n])
    BY DEF Dialled
  <2> HIDE DEF Upto, x
  <2>7. CASE Dialled(Own, v[n], x)
    BY <2>3, <2>4, <2>5, <2>6, <2>7
  <2>8. CASE ~Dialled(Own, v[n], x)
    <3> DEFINE s == v[n]
               t == Append(s, x)
    <3>1. s \in Seq(V) /\ Len(s) \in Nat /\ DOMAIN s = 1..Len(s)
      BY <2>3
    <3> HIDE DEF s
    <3>2. /\ t \in Seq(V) /\ DOMAIN t = 1..Len(s) + 1 /\ t[Len(s) + 1] = x
          /\ \A i \in 1..Len(s) : t[i] = s[i]
      BY <2>5, <3>1
    <3> HIDE DEF t
    <3>3. 1..Len(s) + 1 = 1..Len(s) \cup {Len(s) + 1} /\ Len(s) + 1 \notin 1..Len(s)
      BY <3>1
    <3>4. ToSet(t) = ToSet(s) \cup {x}
      BY <3>1, <3>2, <3>3 DEF ToSet
    <3>5. \A i \in 1..Len(s) : s[i] # x
      BY <2>6, <2>8, <3>1 DEF ToSet, s
    <3>6. IsInjective(s)
      BY <2>3 DEF s
    <3>7. IsInjective(t)
      BY <3>1, <3>2, <3>3, <3>5, <3>6 DEF IsInjective
    <3>8. v[n + 1] = t
      BY <2>4, <2>8 DEF t, s
    <3>9. ToSet(s) = Upto(n) \ {Own} /\ x # Own
      BY <2>3, <2>6, <2>8 DEF s
    <3> QED
      BY <2>5, <3>2, <3>4, <3>7, <3>8, <3>9
  <2> QED
    BY <2>7, <2>8
<1>12. N \in T
  <2> HIDE DEF T
  <2> QED
    BY <1>1, <1>10, <1>11, Induct
<1>13. ToSet(q) = Upto(N)
  BY DEF ToSet
<1> QED
  BY <1>1, <1>8, <1>12, <1>13

(* The answer that was decoded has the address of every peer in it.        *)
LEMMA AnswerParsed ==
    ASSUME NEW peers \in Seq(Peers)
    PROVE  parseAnnounceResponse(Decode(AnnounceResponse(peers)))
             = [ok |-> TRUE, peers |-> [n \in 1..Len(peers) |-> Address(peers[n])]]
<1> DEFINE L == Len(peers)
           a == [n \in 1..L |-> Address(peers[n])]
           nodes == [n \in 1..L |-> [dict |-> PeerDict(peers[n])]]
           list == [list |-> nodes]
           D2 == WithEntry(<<"peers">>, list, <<>>)
           D1 == WithEntry(<<"interval">>, [int |-> Interval], D2)
           r == Decode(AnnounceResponse(peers))
           reason == "failure reason"
<1>1. /\ r.ok /\ r.node = [dict |-> D1]
  <2> DEFINE w == AnnounceResponse(peers)
             S == Symbols
  <2>1. Writes(S, w, [dict |-> D1])
    BY AnswerWrites
  <2> HIDE DEF w, S, D1
  <2>2. Decode(w) = Decoded([dict |-> D1], Len(w) + 1)
    BY <2>1, DecodesWhole
  <2>3. Decode(w).ok /\ Decode(w).node = [dict |-> D1]
    BY <2>2, DecodedIs
  <2> QED
    BY <2>3 DEF w
<1> HIDE DEF r
<1>2. PeersIn(nodes) = a
  <2>1. L \in Nat /\ \A n \in 1..L : peers[n] \in Peers
    OBVIOUS
  <2> DEFINE W == { nodes[n] : n \in 1..L }
             V == { a[n] : n \in 1..L }
  <2>2. /\ nodes \in Seq(W) /\ Len(nodes) = L
        /\ a \in Seq(V) /\ Len(a) = L
    BY <2>1
  <2>3. \A n \in 1..L : "dict" \in DOMAIN nodes[n] /\ ParsePeer(nodes[n].dict) = a[n]
    BY <2>1, PeerWrites
  <2> HIDE DEF L, a, nodes, V, W
  <2> QED
    BY <2>2, <2>3, PeersRead
<1> HIDE DEF nodes, a
<1>3. /\ Has(D1, "peers") /\ At(D1, "peers") = list
      /\ ~Has(D1, reason)
  <2> DEFINE u == "interval"
             v == "peers"
  <2>1. u # v /\ u # reason /\ v # reason
    BY Zenon
  <2> HIDE DEF u, v, reason, list
  <2> DEFINE e2 == WithEntry(<<v>>, list, <<>>)
             e1 == WithEntry(<<u>>, [int |-> Interval], e2)
  <2>2. Has(e2, v) /\ At(e2, v) = list /\ ~Has(e2, reason)
    BY <2>1, EntryIs, NoEntries
  <2> HIDE DEF e2
  <2>3. Has(e1, v) /\ At(e1, v) = list /\ ~Has(e1, reason)
    BY <2>1, <2>2, EntryIs
  <2> QED
    BY <2>3, Zenon DEF u, v, e1, e2
<1> HIDE DEF D1, D2
<1>4. "list" \in DOMAIN list /\ list.list = nodes
  OBVIOUS
<1> HIDE DEF list
<1>5. HasA("list", D1, "peers") /\ ~HasA("str", D1, reason)
  BY <1>3, <1>4, Zenon DEF HasA
<1>6. "dict" \in DOMAIN r.node /\ r.node.dict = D1
  BY <1>1
<1>7. parseAnnounceResponse(r) = [ok |-> TRUE, peers |-> PeersIn(At(D1, "peers").list)]
  BY <1>1, <1>5, <1>6, Zenon DEF parseAnnounceResponse, reason
<1>8. parseAnnounceResponse(r) = [ok |-> TRUE, peers |-> a]
  BY <1>2, <1>3, <1>4, <1>7
<1> QED
  BY <1>8 DEF r, a

(* What cannot be decoded is refused.                                     *)
LEMMA FailedParsed ==
    /\ ~Failed.ok
    /\ TorrentOf(Failed) = Failed
    /\ parseAnnounceResponse(Failed) = Failed
<1>1. ~Failed.ok
  BY DEF Failed
<1> QED
  BY <1>1, Zenon DEF TorrentOf, parseAnnounceResponse

(* An answer with a failure reason is refused.                            *)
LEMMA ErrorParsed ==
    parseAnnounceResponse(Decode(ErrorResponse("reason"))) = Failed
<1> DEFINE w == ErrorResponse("reason")
           S == Symbols
           reason == "failure reason"
           text == [str |-> <<"reason">>]
           D == WithEntry(<<reason>>, text, <<>>)
           r == Decode(w)
<1>1. Writes(S, w, [dict |-> D])
  BY ErrorWrites, Zenon
<1>2. "str" \in DOMAIN text
  OBVIOUS
<1> HIDE DEF w, S, reason, text
<1>3. Has(D, reason) /\ At(D, reason) = text
  BY EntryIs, NoEntries
<1> HIDE DEF D
<1>4. r = Decoded([dict |-> D], Len(w) + 1)
  BY <1>1, DecodesWhole
<1> HIDE DEF r
<1>5. r.ok /\ r.node = [dict |-> D] /\ r.node.dict = D
  BY <1>4, DecodedIs
<1>6. HasA("str", D, reason)
  BY <1>2, <1>3, Zenon DEF HasA
<1>7. parseAnnounceResponse(r) = Failed
  BY <1>5, <1>6, Zenon DEF parseAnnounceResponse, reason
<1> QED
  BY <1>7 DEF r, w

-----------------------------------------------------------------------------
\* What the call returned is what is made of the input.
CallInv ==
    /\ input \in Torrents \cup Answers \cup { [call |-> "refusal"] }
    /\ outcome # Pending =>
          /\ input.call = "torrent" => outcome = ParseTorrent(Cut(input.file.data))
          /\ input.call = "answer" =>
                LET answer == parseAnnounceResponse(Decode(Cut(AnnounceResponse(input.peers))))
                IN  outcome = IF answer.ok
                              THEN [ok |-> TRUE, nodes |-> PopulateBootstrapNodes(Own, answer.peers)]
                              ELSE Failed
          /\ input.call = "refusal" =>
                outcome = parseAnnounceResponse(Decode(ErrorResponse("reason")))

(* It always is.                                                          *)
LEMMA AlwaysCalled == FormatsSpec => []CallInv
<1>1. FormatsInit => CallInv
  BY DEF FormatsInit, CallInv
<1>2. CallInv /\ [FormatsNext]_formatVars => CallInv'
  <2> SUFFICES ASSUME CallInv, [FormatsNext]_formatVars PROVE CallInv'
    OBVIOUS
  <2>0. "torrent" # "answer" /\ "torrent" # "refusal" /\ "answer" # "refusal"
    OBVIOUS
  <2>1. CASE ParseTorrentFile
    BY <2>0, <2>1, Zenon DEF CallInv, ParseTorrentFile, Called, Cut
  <2>2. CASE AnswerAnnounce
    BY <2>0, <2>2, Zenon DEF CallInv, AnswerAnnounce, Called, Cut
  <2>3. CASE RefuseAnnounce
    BY <2>0, <2>3, Zenon DEF CallInv, RefuseAnnounce, Called, Cut
  <2>4. CASE UNCHANGED formatVars
    BY <2>4, Zenon DEF CallInv, formatVars, Cut
  <2> QED
    BY <2>1, <2>2, <2>3, <2>4 DEF FormatsNext
<1> QED
  BY <1>1, <1>2, PTL DEF FormatsSpec

(* Only files of CutFiles are cut short, and answers list peers.          *)
LEMMA Inputs ==
    ASSUME input \in Torrents \cup Answers \cup { [call |-> "refusal"] }
    PROVE  /\ input.call = "torrent" /\ input.cut > 0 =>
                /\ input.file \in CutFiles
                /\ input.cut \in 1..Len(input.file.data)
           /\ input.call = "answer" =>
                /\ input.peers \in Seq(Peers)
                /\ input.cut \in Nat
<1>1. CASE input \in Torrents
  <2>1. CASE input \in [call : {"torrent"}, file : TorrentFiles, cut : {0}]
    BY <2>1
  <2>2. CASE input \in UNION { [call : {"torrent"}, file : {file}, cut : 1..Len(file.data)] :
                                  file \in CutFiles }
    BY <2>2
  <2> QED
    BY <1>1, <2>1, <2>2 DEF Torrents
<1>2. CASE input \in Answers
  <2>1. input.call = "answer" /\ input.peers \in SeqOf(Peers, MaxPeers) /\ input.cut \in {0, 1, 12}
    BY <1>2 DEF Answers
  <2>2. input.peers \in Seq(Peers)
    BY <2>1, FormatsConstants DEF SeqOf
  <2> QED
    BY <2>1, <2>2
<1>3. CASE input = [call |-> "refusal"]
  BY <1>3
<1> QED
  BY <1>1, <1>2, <1>3

(* A torrent file or an announce's answer that was cut short anywhere is   *)
(* refused, and so is an answer with a failure reason, whatever the files, *)
(* the peers and the lists (Decode, parseTorrent and Announce).            *)
THEOREM TruncatedRefusedHolds == FormatsSpec => []TruncatedRefused
<1>1. CallInv => TruncatedRefused
  <2> SUFFICES ASSUME CallInv, outcome # Pending
               PROVE  /\ input.call \in {"torrent", "answer"} /\ input.cut > 0 => ~outcome.ok
                      /\ input.call = "refusal" => ~outcome.ok
    BY DEF TruncatedRefused, Returned
  <2>1. ASSUME input.call = "torrent", input.cut > 0 PROVE ~outcome.ok
    <3> DEFINE s == input.file.data
               S == ToSet(s)
               t == Cut(s)
    <3>1. input.file \in CutFiles /\ input.cut \in 1..Len(s)
      BY <2>1, Inputs DEF CallInv
    <3>2. s \in Seq(S) /\ Decode(s).ok /\ Decode(s).next = Len(s) + 1
      BY <3>1, FormatsConstants DEF Whole
    <3>3. outcome = ParseTorrent(t)
      BY <2>1, Zenon DEF CallInv
    <3> HIDE DEF s, S
    <3>4. input.cut \in Nat \ {0} /\ s # <<>>
      BY <3>1, <3>2
    <3>5. t \in Seq(S) /\ Begins(s, t) /\ Len(t) < Len(s)
      BY <3>2, <3>4, Shortened DEF Cut
    <3> HIDE DEF t
    <3>6. Decode(t) = Failed
      BY <3>2, <3>5, CutShort
    <3> QED
      BY <3>3, <3>6, FailedParsed DEF ParseTorrent
  <2>2. ASSUME input.call = "answer", input.cut > 0 PROVE ~outcome.ok
    <3> DEFINE s == AnnounceResponse(input.peers)
               S == Symbols
               t == Cut(s)
    <3>1. input.peers \in Seq(Peers) /\ input.cut \in Nat
      BY <2>2, Inputs DEF CallInv
    <3>2. PICK d : Writes(S, s, [dict |-> d])
      BY <3>1, AnswerWrites
    <3>3. outcome = IF parseAnnounceResponse(Decode(t)).ok
                    THEN [ok |-> TRUE,
                          nodes |-> PopulateBootstrapNodes(Own, parseAnnounceResponse(Decode(t)).peers)]
                    ELSE Failed
      BY <2>2, Zenon DEF CallInv
    <3> HIDE DEF s, S
    <3>4. /\ s \in Seq(S) /\ s # <<>>
          /\ Decode(s).ok /\ Decode(s).next = Len(s) + 1
      <4>1. Decode(s) = Decoded([dict |-> d], Len(s) + 1)
        BY <3>2, DecodesWhole
      <4> QED
        BY <3>2, <4>1, DecodedIs DEF Writes
    <3>5. t \in Seq(S) /\ Begins(s, t) /\ Len(t) < Len(s)
      <4>1. input.cut \in Nat \ {0}
        BY <2>2, <3>1
      <4> QED
        BY <3>4, <4>1, Shortened DEF Cut
    <3> HIDE DEF t
    <3>6. Decode(t) = Failed
      BY <3>4, <3>5, CutShort
    <3> QED
      BY <3>3, <3>6, FailedParsed, Zenon
  <2>3. ASSUME input.call = "refusal" PROVE ~outcome.ok
    BY <2>3, ErrorParsed, FailedParsed, Zenon DEF CallInv
  <2> QED
    BY <2>1, <2>2, <2>3
<1> QED
  BY <1>1, AlwaysCalled, PTL

(* Every address that the tracker listed is dialled once, whatever the     *)
(* peers and however many, unless it is literally that of the listener     *)
(* (sendAnnounceResponse, parseAnnounceResponse, populateBootstrapNodes).  *)
THEOREM PeersArriveHolds == FormatsSpec => []PeersArrive
<1>1. CallInv => PeersArrive
  <2> DEFINE peers == input.peers
             q == [n \in 1..Len(peers) |-> Address(peers[n])]
             nodes == PopulateBootstrapNodes(Own, q)
             All == { [ip |-> <<p.ip>>, port |-> p.port] : p \in ToSet(peers) }
  <2> SUFFICES ASSUME CallInv, outcome # Pending, input.call = "answer", input.cut = 0
               PROVE  /\ outcome.ok
                      /\ ToSet(outcome.nodes) = All \ {Own}
                      /\ IsInjective(outcome.nodes)
    BY DEF PeersArrive, Returned
  <2>1. peers \in Seq(Peers)
    BY Inputs DEF CallInv
  <2> DEFINE s == AnnounceResponse(peers)
  <2>2. Cut(s) = s
    <3>1. PICK d : Writes(Symbols, s, [dict |-> d])
      BY <2>1, AnswerWrites
    <3> DEFINE S == Symbols
    <3>2. s \in Seq(S)
      BY <3>1, Zenon DEF Writes
    <3> HIDE DEF s, S
    <3>3. Len(s) - 0 = Len(s)
      BY <3>2
    <3>4. SubSeq(s, 1, Len(s)) = s
      BY <3>2, FromOn
    <3> QED
      BY <3>3, <3>4 DEF Cut
  <2> DEFINE answer == parseAnnounceResponse(Decode(Cut(s)))
  <2>3. outcome = IF answer.ok
                  THEN [ok |-> TRUE, nodes |-> PopulateBootstrapNodes(Own, answer.peers)]
                  ELSE Failed
    BY Zenon DEF CallInv
  <2>4. parseAnnounceResponse(Decode(s)) = [ok |-> TRUE, peers |-> q]
    BY <2>1, AnswerParsed
  <2> HIDE DEF s
  <2>5. answer = [ok |-> TRUE, peers |-> q]
    BY <2>2, <2>4, Zenon
  <2> HIDE DEF answer, q
  <2>6. answer.ok /\ answer.peers = q
    BY <2>5
  <2>7. outcome = [ok |-> TRUE, nodes |-> nodes]
    BY <2>3, <2>6, Zenon
  <2> DEFINE A == { Address(peers[n]) : n \in 1..Len(peers) }
  <2>8. q \in Seq(A) /\ ToSet(q) = A
    <3>1. Len(peers) \in Nat /\ q = [n \in 1..Len(peers) |-> Address(peers[n])]
      BY <2>1 DEF q
    <3>2. q \in Seq(A) /\ DOMAIN q = 1..Len(peers)
      BY <3>1
    <3>3. \A n \in 1..Len(peers) : q[n] = Address(peers[n])
      BY <3>1
    <3> HIDE DEF peers
    <3> QED
      BY <3>2, <3>3 DEF ToSet
  <2>9. A = All
    <3>1. DOMAIN peers = 1..Len(peers)
      BY <2>1
    <3> HIDE DEF peers
    <3> QED
      BY <3>1 DEF ToSet, Address
  <2> HIDE DEF A, All
  <2>10. ToSet(nodes) = A \ {Own} /\ IsInjective(nodes)
    BY <2>8, Dials
  <2> HIDE DEF nodes
  <2>11. outcome.ok /\ outcome.nodes = nodes
    BY <2>7
  <2> QED
    BY <2>9, <2>10, <2>11
<1> QED
  BY <1>1, AlwaysCalled, PTL

=============================================================================
