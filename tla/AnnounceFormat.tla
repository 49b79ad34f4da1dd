--------------------------- MODULE AnnounceFormat ---------------------------
(***************************************************************************)
(* The list of peers that answers an announce, from sendAnnounceResponse   *)
(* (tracker/server.go) to parseAnnounceResponse (client/tracker_client.go) *)
(* and populateBootstrapNodes (torrent_server/server.go).                  *)
(***************************************************************************)
EXTENDS Bencode

CONSTANT Interval   \* 1800

-----------------------------------------------------------------------------
\* bencode.Marshal puts the keys of a map in order.  An address is one symbol.
EncodePeer(peer) ==
    <<"d">> \o Entry("ip", BStr(<<peer.ip>>)) \o Entry("peer id", BStr(<<peer.id>>))
    \o Entry("port", BInt(peer.port)) \o <<"e">>

\* convertPeersToList and sendAnnounceResponse.
AnnounceResponse(peers) ==
    <<"d">> \o Entry("interval", BInt(Interval))
    \o Entry("peers", <<"l">> \o FlattenSeq([i \in DOMAIN peers |-> EncodePeer(peers[i])])
                              \o <<"e">>)
    \o <<"e">>

ErrorResponse(reason) == <<"d">> \o Entry("failure reason", BStr(<<reason>>)) \o <<"e">>

\* An entry that is missing or of another type is left empty.
ParsePeer(dict) ==
    [ip |-> IF HasA("str", dict, "ip") THEN At(dict, "ip").str ELSE <<>>,
     port |-> IF HasA("int", dict, "port") THEN At(dict, "port").int ELSE 0]

\* The entries of the list that are dictionaries.
PeersIn(list) ==
    LET upTo[n \in 0..Len(list)] ==
            IF n = 0 THEN <<>>
            ELSE IF "dict" \in DOMAIN list[n] THEN Append(upTo[n - 1], ParsePeer(list[n].dict))
            ELSE upTo[n - 1]
    IN  upTo[Len(list)]

\* Announce after the body was read, with what Decode made of it.
parseAnnounceResponse(decoded) ==
    IF \/ ~decoded.ok
       \/ "dict" \notin DOMAIN decoded.node
       \/ HasA("str", decoded.node.dict, "failure reason")
    THEN Failed
    ELSE [ok |-> TRUE,
          peers |-> IF HasA("list", decoded.node.dict, "peers")
                    THEN PeersIn(At(decoded.node.dict, "peers").list) ELSE <<>>]

\* Peers are told apart by their IP only.
DialledByIP(own, nodes, p) == p = own \/ \E i \in DOMAIN nodes : nodes[i].ip = p.ip

\* formatAddr is one-to-one: the pair stands for the address.  `own` is the
\* string of the listener, a wildcard for the commands (0.0.0.0, which Go
\* prints as [::]), and not the address the tracker knows the node by.
Dialled(own, nodes, p) == p = own \/ p \in ToSet(nodes)

PopulateBootstrapNodes(own, peers) ==
    LET upTo[n \in 0..Len(peers)] ==
            IF n = 0 THEN <<>>
            ELSE IF Dialled(own, upTo[n - 1], peers[n]) THEN upTo[n - 1]
            ELSE Append(upTo[n - 1], peers[n])
    IN  upTo[Len(peers)]

=============================================================================
