----------------------------- MODULE HashFormat -----------------------------
(***************************************************************************)
(* What an announced info hash goes through, from buildAnnounceURL         *)
(* (client/tracker_client.go) to decodeInfoHash (tracker/server.go).       *)
(* Bytes are numbers; 37 is "%", 43 is "+", 32 is " ".                     *)
(***************************************************************************)
EXTENDS Integers, SequencesExt

CONSTANTS
    HashLength,     \* 20
    Hashes          \* info hashes, as sequences of bytes

ASSUME HashConstants ==
    /\ HashLength \in Nat
    /\ Hashes \subseteq [1..HashLength -> 0..255]

VARIABLES
    infoHash,       \* what is announced
    received        \* what the tracker makes of it

hashVars == <<infoHash, received>>

Unread == [call |-> "announce"]
Invalid == [ok |-> FALSE]

Unreserved == (48..57) \cup (65..90) \cup (97..122) \cup {45, 46, 95, 126}

HexDigit(k) == IF k < 10 THEN 48 + k ELSE 55 + k

IsHex(c) == c \in (48..57) \cup (65..70) \cup (97..102)

HexValue(c) == IF c <= 57 THEN c - 48 ELSE IF c <= 70 THEN c - 55 ELSE c - 87

EscapeByte(c) ==
    IF c \in Unreserved THEN <<c>>
    ELSE IF c = 32 THEN <<43>>
    ELSE <<37, HexDigit(c \div 16), HexDigit(c % 16)>>

\* url.Values.Encode.
QueryEscape(s) == FlattenSeq([i \in DOMAIN s |-> EscapeByte(s[i])])

\* A byte before what was read behind it.
Before(c, read) == IF read.ok THEN [ok |-> TRUE, bytes |-> <<c>> \o read.bytes] ELSE read

\* url.QueryUnescape.
QueryUnescape(s) ==
    LET from[i \in 1..Len(s) + 1] ==
            IF i > Len(s) THEN [ok |-> TRUE, bytes |-> <<>>]
            ELSE IF s[i] # 37 THEN Before(IF s[i] = 43 THEN 32 ELSE s[i], from[i + 1])
            ELSE IF i + 2 <= Len(s) /\ IsHex(s[i + 1]) /\ IsHex(s[i + 2])
            THEN Before(16 * HexValue(s[i + 1]) + HexValue(s[i + 2]), from[i + 3])
            ELSE Invalid
    IN  from[1]

\* Whatever its length, the first bytes of it are the hash.
DecodeInfoHashAnyLength(str) == QueryUnescape(str)

DecodeInfoHash(str) ==
    LET decoded == QueryUnescape(str)
    IN  IF decoded.ok /\ Len(decoded.bytes) = HashLength THEN decoded ELSE Invalid

\* r.URL.Query() unescapes, and decodeInfoHash does so again.
ReceivedHash(hash) == DecodeInfoHash(QueryUnescape(QueryEscape(hash)).bytes)

-----------------------------------------------------------------------------
HashInit == infoHash \in Hashes /\ received = Unread

AnnounceHash ==
    /\ received = Unread
    /\ received' = ReceivedHash(infoHash)
    /\ UNCHANGED infoHash

HashSpec == HashInit /\ [][AnnounceHash]_hashVars

-----------------------------------------------------------------------------
(* A tracker that accepts an announced hash files it under that hash, but  *)
(* for its "+" bytes, which have become spaces; with a "%" in it it is     *)
(* never accepted (decodeInfoHash unescapes what is unescaped already).    *)
HashesApart ==
    received # Unread =>
        /\ received.ok => received.bytes = [i \in DOMAIN infoHash |->
                                              IF infoHash[i] = 43 THEN 32 ELSE infoHash[i]]
        /\ received.ok <=> 37 \notin ToSet(infoHash)

(* The torrent a client announces is the torrent it is registered under,   *)
(* whatever its hash (the "BitTorrent tracker specification" the README    *)
(* names; info_hash in the URL of handleAnnounce).                         *)
HashesArrive ==
    received # Unread => received = [ok |-> TRUE, bytes |-> infoHash]

=============================================================================
