------------------------------ MODULE Metainfo ------------------------------
(***************************************************************************)
(* Torrent files (meta/torrent.go): which ones are accepted, what is kept  *)
(* of the info dictionary, and the encoding of it that is hashed.  The hash*)
(* function is left out: equal encodings stand for equal hashes.           *)
(***************************************************************************)
EXTENDS Bencode

\* An integer that is read when it is there and is one.
OptionalInt(dict, word) == IF HasA("int", dict, word) THEN At(dict, word).int ELSE 0

IsFile(node) ==
    /\ "dict" \in DOMAIN node
    /\ HasA("int", node.dict, "length")
    /\ HasA("list", node.dict, "path")
    /\ \A i \in DOMAIN At(node.dict, "path").list :
            "str" \in DOMAIN At(node.dict, "path").list[i]

ParseFile(node) ==
    [length |-> At(node.dict, "length").int,
     path |-> [i \in DOMAIN At(node.dict, "path").list |-> At(node.dict, "path").list[i].str]]

\* With a length there, files are not looked at.
IsInfo(dict) ==
    /\ HasA("str", dict, "name")
    /\ HasA("int", dict, "piece length")
    /\ HasA("str", dict, "pieces")
    /\ IF Has(dict, "length")
       THEN HasA("int", dict, "length")
       ELSE /\ HasA("list", dict, "files")
            /\ \A i \in DOMAIN At(dict, "files").list : IsFile(At(dict, "files").list[i])

ParseInfo(dict) ==
    [name |-> At(dict, "name").str,
     pieceLength |-> At(dict, "piece length").int,
     pieces |-> At(dict, "pieces").str,
     length |-> OptionalInt(dict, "length"),
     files |-> IF Has(dict, "length") THEN <<>>
               ELSE LET list == At(dict, "files").list
                    IN  [i \in DOMAIN list |-> ParseFile(list[i])],
     private |-> OptionalInt(dict, "private")]

\* The entries that are optional and decide nothing are left out.
TorrentOf(decoded) ==
    IF /\ decoded.ok
       /\ "dict" \in DOMAIN decoded.node
       /\ HasA("str", decoded.node.dict, "announce")
       /\ HasA("dict", decoded.node.dict, "info")
       /\ IsInfo(At(decoded.node.dict, "info").dict)
    THEN [ok |-> TRUE, info |-> ParseInfo(At(decoded.node.dict, "info").dict)]
    ELSE Failed

ParseTorrent(data) == TorrentOf(Decode(data))

-----------------------------------------------------------------------------
EncodeFile(file) ==
    <<"d">> \o Entry("length", BInt(file.length))
    \o Entry("path", <<"l">> \o FlattenSeq([i \in DOMAIN file.path |-> BStr(file.path[i])])
                            \o <<"e">>)
    \o <<"e">>

\* A list of files that is there even when it is empty.
EncodeInfoAlwaysFiles(info) ==
    <<"d">>
    \o Entry("files", <<"l">> \o FlattenSeq([i \in DOMAIN info.files |->
                                                EncodeFile(info.files[i])]) \o <<"e">>)
    \o (IF info.length > 0 THEN Entry("length", BInt(info.length)) ELSE <<>>)
    \o Entry("name", BStr(info.name))
    \o Entry("piece length", BInt(info.pieceLength))
    \o Entry("pieces", BStr(info.pieces))
    \o (IF info.private > 0 THEN Entry("private", BInt(info.private)) ELSE <<>>)
    \o <<"e">>

\* encodeBencodeInfoDict.
EncodeInfo(info) ==
    <<"d">>
    \o (IF info.files # <<>>
        THEN Entry("files", <<"l">> \o FlattenSeq([i \in DOMAIN info.files |->
                                                    EncodeFile(info.files[i])]) \o <<"e">>)
        ELSE <<>>)
    \o (IF info.length > 0 THEN Entry("length", BInt(info.length)) ELSE <<>>)
    \o Entry("name", BStr(info.name))
    \o Entry("piece length", BInt(info.pieceLength))
    \o Entry("pieces", BStr(info.pieces))
    \o (IF info.private > 0 THEN Entry("private", BInt(info.private)) ELSE <<>>)
    \o <<"e">>

=============================================================================
