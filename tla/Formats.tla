------------------------------ MODULE Formats ------------------------------
(***************************************************************************)
(* One call of the code that reads or writes bencode: a torrent file that  *)
(* is parsed, or an announce that is answered or refused.  The input is any*)
(* one of those the constants name.                                        *)
(***************************************************************************)
EXTENDS Metainfo, AnnounceFormat

CONSTANTS
    TorrentFiles,   \* torrent files: records with their `data`
    CutFiles,       \* those that may be cut short
    Peers,          \* the peers the storage may know
    MaxPeers,       \* bound: length of an answer
    Own             \* what Transport.Addr() returns

\* One node and nothing behind it.
Whole(data) ==
    /\ data \in Seq(ToSet(data))
    /\ Decode(data).ok /\ Decode(data).next = Len(data) + 1

ASSUME FormatsConstants ==
    /\ \A file \in CutFiles : Whole(file.data)
    /\ \A peer \in Peers : peer.port \in Nat
    /\ Interval \in Nat /\ MaxPeers \in Nat

VARIABLES
    input,
    outcome

formatVars == <<input, outcome>>

Pending == [call |-> "pending"]

\* A file, whole or without its last `cut` symbols.
Torrents ==
    [call : {"torrent"}, file : TorrentFiles, cut : {0}]
    \cup UNION { [call : {"torrent"}, file : {file}, cut : 1..Len(file.data)] : file \in CutFiles }

\* The body of an answer, whole or cut short.
Answers == [call : {"answer"}, peers : SeqOf(Peers, MaxPeers), cut : {0, 1, 12}]

FormatsInit ==
    /\ input \in Torrents \cup Answers \cup { [call |-> "refusal"] }
    /\ outcome = Pending

Called(name) == outcome = Pending /\ input.call = name

Cut(data) == SubSeq(data, 1, Len(data) - input.cut)

ParseTorrentFile ==
    /\ Called("torrent")
    /\ outcome' = ParseTorrent(Cut(input.file.data))
    /\ UNCHANGED input

\* Start's announce is answered; on an error it dials nobody.
AnswerAnnounce ==
    /\ Called("answer")
    /\ \E answer \in {parseAnnounceResponse(Decode(Cut(AnnounceResponse(input.peers))))} :
          outcome' = IF answer.ok
                     THEN [ok |-> TRUE, nodes |-> PopulateBootstrapNodes(Own, answer.peers)]
                     ELSE Failed
    /\ UNCHANGED input

RefuseAnnounce ==
    /\ Called("refusal")
    /\ outcome' = parseAnnounceResponse(Decode(ErrorResponse("reason")))
    /\ UNCHANGED input

FormatsNext ==
    \/ ParseTorrentFile
    \/ AnswerAnnounce
    \/ RefuseAnnounce

FormatsSpec == FormatsInit /\ [][FormatsNext]_formatVars

Returned(name) == outcome # Pending /\ input.call = name

-----------------------------------------------------------------------------
(* A torrent file or an answer that was cut short anywhere is refused,     *)
(* never taken for a shorter one; so is an answer that says "failure       *)
(* reason" (Decode's errors at the end of the input, and Announce's).      *)
TruncatedRefused ==
    /\ (Returned("torrent") \/ Returned("answer")) /\ input.cut > 0 => ~outcome.ok
    /\ Returned("refusal") => ~outcome.ok

(* The node dials every address the storage listed, once, whoever is there *)
(* (handleAnnounce to populateBootstrapNodes, through the encoder, the     *)
(* decoder and the parser of the answer).  The address the node has in the *)
(* list is dialled like any other: what is left out is the address of its  *)
(* listener, which is a wildcard and in no list.                           *)
PeersArrive ==
    Returned("answer") /\ input.cut = 0 =>
        /\ outcome.ok
        /\ ToSet(outcome.nodes) =
            { [ip |-> <<p.ip>>, port |-> p.port] : p \in ToSet(input.peers) } \ {Own}
        /\ IsInjective(outcome.nodes)

=============================================================================
