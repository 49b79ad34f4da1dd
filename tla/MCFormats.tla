----------------------------- MODULE MCFormats -----------------------------
(***************************************************************************)
(* Formats, HashFormat and Bitfields side by side: a behaviour is one call *)
(* of Formats, one announced hash, or the bitfield of one peer.            *)
(***************************************************************************)
EXTENDS InfoHash, HashFormat, Bitfields

Word(w) == [str |-> <<w>>]
Number(k) == [int |-> k]
List(s) == [list |-> s]

MCKeys ==
    << <<"announce">>, <<"failure reason">>, <<"files">>, <<"info">>, <<"interval">>,
       <<"ip">>, <<"length">>, <<"name">>, <<"path">>, <<"peer id">>, <<"peers">>,
       <<"piece length">>, <<"pieces">>, <<"port">>, <<"private">>, <<"source">> >>

MCDisordered == Reverse(MCKeys)

Dict(entries) == [dict |-> entries]

File(length, path) == <<"length">> :> length @@ <<"path">> :> path

Files ==
    { List(<<>>),
      List(<<Dict(File(Number(0), List(<<Word("a"), Word("b")>>)))>>),
      List(<<Dict(File(Number(5), List(<<Word("a")>>))),
             Dict(File(Number(12), List(<<>>)))>>),
      List(<<Dict(<<"source">> :> Word("x") @@ File(Number(5), List(<<Word("a")>>)))>>),
      List(<<Dict(File(Word("5"), List(<<Word("a")>>)))>>),
      List(<<Dict(File(Number(5), List(<<Number(5)>>)))>>),
      List(<<Word("a")>>),
      Word("a") }

Required == <<"name">> :> Word("n") @@ <<"piece length">> :> Number(16) @@ <<"pieces">> :> Word("h")

\* `word`, present with one of the values, or absent.
With(dicts, word, values) ==
    dicts \cup { <<word>> :> v @@ d : d \in dicts, v \in values }

Sizes == With(With({Required}, "length", {Number(-1), Number(0), Number(12), Word("12")}),
              "files", Files)

Options == With(With(Sizes, "private", {Number(-1), Number(0), Number(1), Word("1")}),
                "source", {Word("s")})

Single == <<"length">> :> Number(12) @@ Required

Broken ==
    { [k \in DOMAIN Single \ {<<w>>} |-> Single[k]] : w \in {"name", "piece length", "pieces"} }
    \cup { <<w>> :> Number(1) @@ Single : w \in {"name", "pieces"} }
    \cup { <<"piece length">> :> Word("16") @@ Single,
           <<"name">> :> [str |-> <<>>] @@ Single }

MCInfos == { Dict(d) : d \in Options \cup Broken }

MCTorrentFiles ==
    { TorrentFile(keys, info) : keys \in {MCKeys, MCDisordered}, info \in MCInfos }

MCCutFiles ==
    { TorrentFile(MCKeys, Dict(d)) :
        d \in Broken \cup {Single} \cup With({Required}, "files", Files) }

MCHashes == [1..4 -> {37, 43, 32, 52, 66, 171}]

MCPeers ==
    [id : {"A"}, ip : {"10.0.0.1", "10.0.0.2"}, port : {80, 8080}]

\* The commands listen at every address of the machine.
MCOwn == [ip |-> <<"::">>, port |-> 80]

MCPlainHash == <<52, 52, 52, 52>>

vars == <<formatVars, hashVars, bitVars>>

\* The one input that goes with hashes and bitfields.
Bystander == [call |-> "refusal"]

NoPieces == numPieces = 0 /\ peerPieces = 0

Init ==
    /\ FormatsInit
    /\ BitInit
    /\ input # Bystander => NoPieces
    /\ infoHash \in IF input = Bystander /\ NoPieces THEN Hashes ELSE {MCPlainHash}
    /\ HashInit

Next ==
    \/ FormatsNext /\ UNCHANGED <<hashVars, bitVars>>
    \/ AnnounceHash /\ UNCHANGED <<formatVars, bitVars>> /\ input = Bystander /\ NoPieces
    \/ BitNext /\ UNCHANGED <<formatVars, hashVars>> /\ input = Bystander

Spec == Init /\ [][Next]_vars
=============================================================================
