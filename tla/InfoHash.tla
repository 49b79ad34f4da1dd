------------------------------ MODULE InfoHash ------------------------------
(***************************************************************************)
(* Torrent files as this or another program writes them, and the info hash *)
(* that Torrent.InfoHash makes of one (meta/torrent.go).                   *)
(***************************************************************************)
EXTENDS Formats, TLC

CONSTANT Keys       \* the keys of dictionaries, in ascending order

\* The entries of a dictionary in the order of `keys`.
RECURSIVE EncodeIn(_, _)
EncodeIn(keys, node) ==
    CASE "int" \in DOMAIN node -> BInt(node.int)
      [] "str" \in DOMAIN node -> BStr(node.str)
      [] "list" \in DOMAIN node ->
            <<"l">> \o FlattenSeq([i \in DOMAIN node.list |-> EncodeIn(keys, node.list[i])])
                    \o <<"e">>
      [] "dict" \in DOMAIN node ->
            LET present == SelectSeq(keys, LAMBDA k : k \in DOMAIN node.dict)
            IN  <<"d">> \o FlattenSeq([i \in DOMAIN present |->
                               BStr(present[i]) \o EncodeIn(keys, node.dict[present[i]])])
                        \o <<"e">>

Torrent(info) ==
    [dict |-> <<"announce">> :> [str |-> <<"tracker">>] @@ <<"info">> :> info]

\* The file around an info dictionary, and what other programs hash of it.
TorrentFile(keys, info) ==
    [data |-> EncodeIn(keys, Torrent(info)), info |-> info, hashed |-> EncodeIn(keys, info)]

-----------------------------------------------------------------------------
\* An info dictionary that says nothing InfoDict cannot hold or calculateInfoHash
\* would leave out.
Kept(dict) ==
    /\ DOMAIN dict \subseteq
        { <<w>> : w \in {"files", "length", "name", "piece length", "pieces", "private"} }
    /\ ~(Has(dict, "length") /\ Has(dict, "files"))
    /\ Has(dict, "length") => At(dict, "length").int > 0
    /\ Has(dict, "files") =>
        LET list == At(dict, "files").list
        IN  /\ list # <<>>
            /\ \A i \in DOMAIN list : DOMAIN list[i].dict = {<<"length">>, <<"path">>}
    /\ Has(dict, "private") => HasA("int", dict, "private") /\ At(dict, "private").int > 0

(* The info hash is the hash of an encoding made from parsed fields: it is *)
(* the one of the dictionary in the file, which the other peers of the     *)
(* torrent use, exactly when the keys are in order and nothing in it is    *)
(* lost on the way (Torrent.InfoHash).                                     *)
SameInfoHash ==
    Returned("torrent") /\ outcome.ok =>
        LET file == input.file
        IN  EncodeInfo(outcome.info) = file.hashed
                <=> Kept(file.info.dict) /\ file.hashed = EncodeIn(Keys, file.info)

=============================================================================
