# Pixtorrent in TLA+

This directory specifies pixtorrent, a BitTorrent-like program in Go: nodes that
exchange the pieces of a file over TCP, and an HTTP tracker, with storage in memory
or in Redis, that tells them about each other. The specifications are translated
from the code under `src/`; TLC checks them on small instances and TLAPS proves
every safety property that the passing runs check, but `SameInfoHash`, for every
instance.

    Dissemination        what a swarm promises about data (abstract)
         ^  implemented by
    TorrentServer  ----  the protocol of many nodes: handlers, choking, pieces
         |  uses
    ChokePolicy    ----  the choice one unchoke round makes
         ^  uses
    Swarm          ----  one node's registry of peers and its unchoke rounds

    Streams              what the handlers take for granted of connections (abstract)
         ^  implemented by
    Transport      ----  connections: handshake, dedup, outbox, read loop, close

    Rendezvous           what a tracker promises (abstract)
         ^  implemented by                ^  and by
    Tracker              the memory       RedisTracker    announces over ...
                         storage               |
                                          RedisStorage    ... Redis commands, expiry
                                          Lifecycle       start, signal, exit

    Formats              one call that reads or writes bencode, over
      Bencode            the decoder and the encoding
      Metainfo           torrent files and what is hashed of them
      AnnounceFormat     peer lists between client and tracker
    InfoHash             the files other programs write, and their hashes
    HashFormat           info hashes in the URL of an announce
    Bitfields            the bytes and bits of a peer's bitfield

| Module | Contents | Checked by | Proved in |
|---|---|---|---|
| `ChokePolicy` | operators for one unchoke round | through the next two | |
| `Swarm` | `p2p/swarm.go`, `p2p/peer_state.go` | `MCSwarm` | `SwarmProofs` |
| `Dissemination` | abstract specification | refinement by `TorrentServer` | |
| `TorrentServer` | `torrent_server/`, `p2p/piece_manager.go` | `MCTorrentServer` | `TorrentServerProofs`, `TorrentClaimsProofs`, `TorrentAgreementProofs` |
| `Streams` | abstract specification | refinement by `Transport` | |
| `Transport` | `p2p/tcp_transport.go`, `p2p/handshake.go`, `p2p/encoding.go` | `MCTransport` | `TransportProofs` |
| `Rendezvous` | abstract specification | refinement by the next two trackers | |
| `Tracker` | `tracker/server.go`, `tracker/memory_storage.go`, announces | `MCTracker` | `TrackerProofs` |
| `Lifecycle` | `TorrentServer.Start`, `Stop`, the signal handler of `cmd/` | `MCRedis` | with `RedisTracker` |
| `RedisStorage`, `RedisTracker` | `tracker/redis_storage.go` under `tracker/server.go` | `MCRedis` | `RedisTrackerProofs` |
| `Bencode`, `Metainfo` | `meta/bencode.go`, `meta/torrent.go` | `MCFormats` | with `Formats` |
| `AnnounceFormat` | answers in `tracker/server.go`, `client/tracker_client.go`, `torrent_server/server.go` | `MCFormats` | with `Formats` |
| `Formats` | one call of the code above | `MCFormats` | `FormatsProofs` |
| `InfoHash` | `Torrent.InfoHash` in `meta/torrent.go` | `MCFormats` | |
| `HashFormat` | `buildAnnounceURL`, `decodeInfoHash` | `MCFormats`, `MCInfoHash` | `FormatsProofs` |
| `Bitfields` | layout in `p2p/piece_manager.go`, `p2p/swarm.go` | `MCFormats` | `FormatsProofs` |

## 1. The system

### Components, state and operations

**Swarm** (`src/p2p/swarm.go`, `peer_state.go`). Keeps the registered peers, a
`PeerState` for each (choking and interest both ways, byte counters, rates),
their bitfields, the optimistic peer and the round counter, all under one mutex.
Operations: `OnPeer` registers a handshaken connection and sends the bitfield;
setters called by message handlers; `RunUnchokeAlgorithm`; `RemovePeer`, `Close`.
It is correct when no more than four peers are served, no slot is wasted on a slower
peer or on nobody, nobody interested is starved, and both ends agree on who is choked.

**Piece manager** (`piece_manager.go`). A map from index to bytes, optional SHA-1
hashes. Correct when a piece is never replaced, and a verified file is the right
one.

**Torrent server** (`src/torrent_server`). One loop goroutine per node takes the
messages of all peers from a channel and runs a handler for each, and is also the
unchoke ticker. A piece arrives: verified, stored, announced with HAVE and a whole
BITFIELD; the last piece: HAVE only, the file is written, "completed" is
announced. A BITFIELD with something missing in it: INTERESTED, and the requests
are kept in `pendingRequests` until the peer's UNCHOKE. Correct when
announcements are never false, nothing stored goes unannounced, requests are
sent and answered, and downloads finish.

**Transport** (`tcp_transport.go`, `handshake.go`, `encoding.go`). A goroutine per
connection runs the handshake, `OnPeer` and the read loop; another drains the
outbox (2048 messages) into the socket; received messages go to one channel (1024)
per node. Both buffers are non-blocking: a full outbox is an error to the caller of
`Send`, a full rpc channel ends the connection. Correct when a message stream has
no holes, one connection serves a pair of nodes, and nothing is left hanging.

**Tracker** (`src/tracker`). `handleAnnounce` makes two or three storage calls per
request, each atomic, interleaved with those of other requests. The memory storage has
two maps that must agree. The Redis storage has a hash per peer and a set per torrent
with different lifetimes, written by pipelines that are not transactions;
`cmd/tracker.go` cleans it up every five minutes, `cmd/tracker/main.go` never. Correct
when two nodes that start are made known to each other, those that are gone are
forgotten, and the statistics count who is there.

**Tracker client and announces** (`src/client`, `handler.go:234`, `server.go:223`).
"started" is made synchronously before the loop; the others are made by goroutines
of their own, so they may overtake each other.

**Server lifecycle** (`server.go`, `cmd/seed.go` and its like). The main goroutine
listens, announces "started" and waits for the answer, then runs the loop until
`quitch` is closed, announces "stopped", and calls `Stop`. The signal handler calls
`Stop` and `os.Exit`. Correct when the tracker forgets the process however the two
goroutines interleave.

**Metainfo and bencode** (`src/meta`): the decoder reads tracker responses and
`.torrent` files; the info hash is the hash of an encoding made again from parsed
fields. Correct when cut-off input is refused and the info hash is the one others
compute. **Commands** (`src/cmd`): flags, wiring, printing.

### How they interact

The connection goroutines and the loop meet on `Swarm.mu`, on the piece manager's
lock and on the rpc channel. Two nodes meet only over a connection. Nodes and
tracker meet over HTTP. Tickers (10 s unchoke, 5 min announce) run in the loop's
`select`.

### What is hard

* `OnPeer` reads the bitfield in a connection goroutine while the loop stores and
  announces a piece: the new peer could miss it, or be told twice.
* An unchoke round decides under the lock and sends afterwards, into outboxes that may
  be full.
* A request passes a CHOKE on its way; a piece requested from two peers arrives
  twice; pending requests are stored after the UNCHOKE they wait for.
* Two nodes dial each other at once, and each side's duplicate check closes
  whichever connection it sees second.
* A connection breaks anywhere: in the handshake, before registration, with
  messages in either buffer; each end finds out on its own.
* Announces of one client arrive in any order, several clients' handlers interleave.
* Redis forgets a peer's hash while its ID stays in the set; the cleanup reads, removes
  and deletes in three steps with announces in between; a pipeline may break off, and the
  set may expire in the middle of one, by a deadline some peer set long before.
* `Stop` runs twice, races `os.Exit`, and "stopped" may be overtaken by a late announce.
* Formats: truncated input, hashes with bytes that are special in URLs, numbers of
  pieces that are not a multiple of eight or differ between two nodes.

`PROJECT.json` lists these hazards with the source line of each and the properties
that cover it.

## 2. The modules and the code

### ChokePolicy and Swarm

`ChokePolicy` has the possible outcomes of a round. `Rankings` are the orders
`sort.Slice` may leave, by its comparator and with ties open; `RegularUnchokes` is the
loop that takes the first `MaxUnchokedPeers - 1` of one; `OptimisticChoices` the random
draw. `Swarm` has one node. Variables are the fields of `Swarm` and `PeerState`; `live`
are the peers whose connection is open, `told` what each peer was last told, `actions`
the `UnchokeAction`s a round has decided and not sent. `Slow` peers may leave their
outbox full: `Send` then fails, the error is logged, and `AmChoking` stays as the round
has set it (`Sends`); `unheard` remembers the peers whose last message was lost so.
Actions: `OnPeer`, `ConnectionCloses`, `SetPeerInterested`, `RecordDownload`,
`RunUnchokeAlgorithm` (one critical section), `SendUnchokeAction` (one turn of the loop
in `runUnchokeRound`), `RemovePeer`, `Close`. While `actions` are left, the loop runs no
other handler (`LoopIdle`); connection goroutines do run.

Bytes are counted in units and a rate is units per round. A peer that joined since
the last round has been measured over less than a round, and one that joined
within the last second is skipped by `UpdateRates` (`MeasuredRates`, `young`).

`ServerSpec` has the calls the server makes. `Spec` adds `RemovePeer` and `Close`,
exported methods nothing in the repository calls; `AddPeer`, which nothing calls
either, would change what `OnPeer` changes.

### TorrentServer and Dissemination

`TorrentServer` is a network of nodes. `chan[a][b]` is everything between a's `Send`
and b's handler: outbox, socket, share of the rpc channel, a FIFO of at most
`OutboxCap` messages; what does not fit is dropped as `Send` drops it, and `lost`
remembers that. Each handler is one action that consumes the head of a channel and
sends everything the handler sends (`Exchange`). Two of them are split where
another goroutine can get in between:

* `OnPeerRegister` / `OnPeerSend`: the bitfield is read, then sent, `Swarm.mu` being
  held. Handlers that take `Swarm.mu` wait (`SwarmLocked`), `StorePiece` and
  `RejectPiece` need not: `AddPiece` and `VerifyPiece` take only the piece manager's
  lock. `RecordDownload`, which does take it, comes before the `AddPiece` and changes
  nothing this module keeps; the lock may be taken right after it.
* `StorePiece` / `AnnounceProgress` or `AnnounceComplete`: `AddPiece`, then the rest.

`CloseEnd` is the death of one end, losing a suffix of what was under way in each
direction; the other end keeps going until its own `CloseEnd`. Nothing un-registers the
peer. Contents of a piece are `good` or `odd`; `Verifying` are the nodes started with
hashes. A node sends what it holds: the model has no node that lies, and piece indexes
are in range because nodes agree on the number of pieces. NOT_INTERESTED is never sent
by this code, so its case is unreachable between these nodes (its handler is in
`Swarm`); keep-alives and unknown messages change nothing. The round is atomic here and
ranks peers arbitrarily; `Swarm` has it in full.

`Dissemination` has only `store` and `saved`: a piece is copied from a node that
holds it (verified by those who verify), never replaced, and a complete node writes
the file. `Disseminates` says that TorrentServer implements it, under the identity
mapping of the two variables, all the rest being hidden.

### Transport and Streams

An end of a connection goes through `stage`: idle, the two halves of the handshake
(the dialer writes first, the acceptor reads first), register (about to call
`OnPeer`), open (read loop), closing, closed. `Close` is split as in the code: the
outbox is closed under the peer's lock, the socket after it. `WriteMessage` is one
turn of `writeLoop`, which drains what is left after `Close` and fails if the socket
is gone; a write to a connection the other end has shut may also seem to work.
`ReadMessage` puts a message into the node's rpc channel or, if it is full, closes
the connection. Messages are numbered per end by `Send`; a read loses nothing of what
the socket delivers, frames being length-prefixed. `Oversized` messages are longer
than `MaxMessageLength`: they are sent, and close the connection when they are read.
`Breakable` connections may be
cut by the network at any time; a read then fails even if data was buffered, which
covers resets.

`Streams` is what is left of this for the handlers: a node speaks with another over one
connection, chosen by `OnPeer` for good, and receives what was sent to it there, each
message once and in order, up to a point. `TorrentServer` rests on it: its `chan` between
two nodes is such a pair of streams, and `CloseEnd` the point where one stops. A stream is
an end of a connection, `partner` is `swarm`, and both modules count `sent` and `got`.

### Tracker

`StoreAnnounce`, `CountCompleted` and `ListPeers` are the storage calls of
`handleAnnounce` for one request; requests of all clients interleave at that grain.
A client (`phase`) starts, receives pieces, ticks, quits and exits. Each piece and
each tick leave an announce for a goroutine of its own (`tasks`), which counts the
missing pieces when it runs (`MakeAnnounce`); several of the same kind that have not
run yet are one. `GrowOld` marks the registrations more than thirty minutes old,
which only a client that is gone can have, running ones announcing every five.
`uploaded` and `downloaded` are left out: nothing reads them but the responses.
`GetPeers` may return any `NumWant` of the registered peers. A second copy of a piece
is another announce, and another "completed" if nothing is missing (`SecondCopy`).

### Rendezvous, RedisStorage, RedisTracker and Lifecycle

`Rendezvous` is what a tracker is for: processes that start are registered, are told of
others when they are admitted, and are forgotten when they leave. `Admit` has the point
of it: whoever is admitted to a torrent that fits in one answer is told of every running
process that was not told of him. `Lossy` processes are in `trouble` until they recover;
the guarantees are for the others. One thing may come between two reliable processes:
while no reliable process runs, registrations may `Lapse`, those of starting processes
with them. Whoever lost his place so is `lapsed` until he is registered again, and he
and those who are starting meanwhile have `missed` each other. `Tracker` implements it
with `registered` as it is and nobody ever lapsed, `RedisTracker` with the IDs in the
set whose hash exists.

`RedisStorage` has the commands, one action each: `HSet`, `SAdd`, `Expire` and so on,
the two expiries (`HashExpires`, `SetExpires`) and `CleanupExpiredPeers` as read, remove
from the set, delete. A hash, and the set, has a time to live only after `Expire`
(`ttl`, `setTtl`). The deadline is that of the last `EXPIRE`: an `HSET` or `SADD` since
then has made `last_seen` new or added a member and left the deadline alone, so either
may expire with fresh contents. What time may pass is said in `RedisTracker`: thirty
minutes without an announce for a process that is over or in trouble (`Silent`), which
its hash may outlive or not and after which it is `old` to the cleanup; and two hours
without an `EXPIRE` of anyone while no reliable process runs (`SetLapses`), be a
pipeline under way or not. `lapsed` and `missed` are the history that `Rendezvous` asks
for. `RedisTracker` is `handleAnnounce` over them: a request runs one command at a time
(`step`), those of others coming in between, and a request of a process in trouble may
break off anywhere.

`Lifecycle` is a process: `main` is where the main goroutine is, `signal` how far the
signal handler has got. `DeferredStop` is the loop's `defer`, which closes a channel
that is closed already and panics unless `OsExit` comes first; `CloseListener` before
`ListenAndAccept` panics too. Both end a process that is about to end
(`Dies`).

### Formats

A behaviour of `Formats` is one call: a torrent file is parsed (`ParseTorrentFile`), an
answer is given and read (`AnswerAnnounce`), an announce is refused. `Bencode` works on
sequences of symbols, in which a word, an address or a hash is one symbol and the
digits, signs and brackets of the format are themselves; so lengths and nesting are
those of the code. The decoder reads from a position and says where the next one is;
what the code's reader has consumed is what is before that position, and its recursion
is a function of kind and position (`parsed` in `Decode`). A file or an answer may be cut
short. `Metainfo` keeps the two halves apart that the code has: what `ParseTorrent`
accepts, and what `encodeBencodeInfoDict` writes of it. `AnnounceFormat` has the list of
peers from the storage to the nodes to dial. `Own` is what `Transport.Addr()` returns: the
address of the listener, a wildcard in all commands, with which listed addresses are
compared as strings.

`InfoHash` has the files as any program may write them, with the keys in another order
and entries this one has no field for, and compares what is hashed of them.
`HashFormat` has `url.Values.Encode` and the two `QueryUnescape`s a hash goes through.

### Bitfields

One node's copy of the bitfield of one peer, byte by byte, with the setters of `Swarm`
and the readers of the piece manager. The two nodes may have been told different
numbers of pieces; `told` remembers what the peer has said.

## 3. Runs

Runs expected to pass:

| Run | Instance | What it shows |
|---|---|---|
| `MCSwarmApi` | 3 peers, 2 slots, rates 0..1, all exported calls in any order | types; `UnchokeBound`: never more peers unchoked than slots, even with a stale `optimisticPeer` left by `RemovePeer` or peer states left by `Close`; `NoSlotWasted`: who stays choked is outdone by others in every slot |
| `MCSwarmServer` | 3 peers, one of which may leave its outbox full, 2 slots, rates 0, the server's calls, fair | `ChokeAgreement`: what a live peer was told is what the node thinks, whatever joins or drops in mid-round, unless the last message for it met a full outbox; `NoStarvation`: an interested peer is unchoked sooner or later |
| `MCTorrentTriangle` | seeder and two leechers all linked, one piece, an optimistic draw every second round, the file write may fail | `NoLostAnnouncement`; `ChokeAgreement` between two nodes, with slots that are contested |
| `MCTorrentOdd` | triangle, two pieces, one leecher with hashes, a seeder of the same bytes cut otherwise, one link that may break, outboxes of 2 | types; `NoOverclaim`, `VerifiedFileIntact`, `Disseminates`, no deadlock, in a network that fails |
| `MCTorrentDownloads` | triangle, one piece, fair | `Downloads`: everyone finishes when everyone is linked to the seeder and has a slot there |
| `MCTransportStray` | a link that may break and a dial to another torrent's node, 3 messages of which the second is too long, buffers of 2 and 1 | types and buffer limits; `NoGaps`: in order and complete up to a cut, which the message that is too long makes; `SwarmOfOthers`; `HandshakesProceed`: of two ends in a handshake one can go on |
| `MCTransportFair` | two nodes dial each other, one connection may break, fair | `RepliesReachSender`, `HandshakesEnd`, `NoHalfOpen`, `WritersStop`; `OneStream`: Streams is implemented, in the cross dial where each side could take another connection (the order of messages, here one per end, is the matter of `NoGaps` above and of the theorem) |
| `MCTrackerPair` | a leecher and a seeder of a torrent, pieces may come twice, the seeder's requests may be lost, fair | types; `MapsAgree`; `Discovery`: of two that run, one knows the other; `Introduces`: Rendezvous is implemented; `SeederCounted`: stale announces do not stick |
| `MCRedis` | a reliable process, and one that may get a signal, crash, and have its requests fail at any command, fair | types; `Introduces`: Redis does what the memory storage does, and where the set expires under a starting process it is known who missed whom; `ComesBack`: who runs and gets through is registered in the end, even if the cleanup or an expiry hit its fresh announce; `DeadForgotten` |
| `MCFormats` | 1 to 2 files, optional and ill-typed entries, all cuts; 1296 hashes; lists of up to 3 peers at 2 addresses with 2 ports, a listener at a wildcard; bytes of 3 bits, 0 to 5 pieces | `TruncatedRefused`; `SameInfoHash`: exactly which files keep their info hash; `HashesApart`: exactly which hashes are refused or changed; `PeersArrive`; `BytesMeanPieces` |

Runs in which the code does not do what its documents say:

| Run | Statement | What happens |
|---|---|---|
| `MCTransportDedup` | "prevents redundant peer connections", `src/README.md:240` | `DedupKeepsOne` fails: in a cross dial each node keeps another connection, each duplicate is closed by one side, and no connection is left |
| `MCInfoHash` | the URL at `src/tracker/server.go:41`, "implements the BitTorrent tracker specification", `src/README.md:111` | `HashesArrive` fails: `decodeInfoHash` unescapes what `Query()` has unescaped. A hash with a `%` byte is refused, and a `+` byte becomes a space. About one random hash in thirteen has a `%` in it |

Other differences met while modelling. They follow from the code without a search, so
they have no run; the models contain the behaviour:

* A CHOKE or UNCHOKE for a peer whose outbox is full is logged and lost
  (`src/torrent_server/server.go:200`), and as `AmChoking` has changed the next round sees
  nothing to send: the two ends disagree until the peer's choking changes again.
* A HAVE never makes the receiver ask (`src/torrent_server/server.go:148`), and a node
  with its last piece sends no BITFIELD: at the end of a chain of leechers a download
  never finishes, where `src/README.md:141` speaks of "real-time piece availability
  updates across the swarm". `Downloads` is checked where everyone has a seeder.
* Requests stored when the peer has unchoked already wait for an UNCHOKE that may not
  come (`src/torrent_server/handler.go:34`, "will be sent when we receive UNCHOKE").
* The error of `AddPiece` for a duplicate is ignored (`src/torrent_server/handler.go:145`):
  a second copy of a piece writes the file again and announces "completed" again.
* A peer whose connection died stays registered (`src/p2p/tcp_transport.go:184`), and
  cannot come back under its ID; `src/README.md:220` speaks of "automatic connection
  recovery and peer replacement".
* A request that crosses a CHOKE is dropped (`src/torrent_server/handler.go:62`) and
  not made again until a BITFIELD brings the piece up. `MCTorrentDownloads` therefore
  has a slot for every peer; with fewer, `Downloads` does not hold.
* Without piece hashes a node saves whatever mixture of pieces it was sent
  (`src/torrent_server/handler.go:157`).
* A full rpc channel costs the connection (`src/p2p/tcp_transport.go:229`), where the
  log line says it drops the message.
* "started" is announced with `left = 0` (`src/torrent_server/server.go:224`), so that
  the scrape counts a new leecher as a seeder for a while.
* A plain announce handled after "stopped" registers the peer again
  (`src/tracker/server.go:105`). With Redis it is forgotten later (`DeadForgotten`); the
  memory storage is never cleaned up (`src/cmd/tracker.go:74`). The other tracker
  program, `src/cmd/tracker/main.go`, uses Redis and never cleans up: with it a hash
  that an announce broken off before `EXPIRE` has left without a time to live stays for
  ever.
* The set expires two hours after the last `EXPIRE`, which may be that of a peer now
  dead, and neither `HSET` nor `SADD` moves the deadline
  (`src/tracker/redis_storage.go:52`). If it comes between the `SADD` and the `EXPIRE`
  of a process that starts, that process runs without being listed until its next
  announce, and one that starts meanwhile is not told of it. A transaction would have
  made it safe, where `src/README.md:188` speaks of "Redis persistence with atomic
  operations" and `src/README.md:249` of "atomic operations for consistent state
  updates".
* The node leaves out its own address by comparing what the tracker lists with
  `Transport.Addr()` (`src/torrent_server/server.go:232`). All commands listen on 0.0.0.0
  (`src/cmd/download.go:73`), so that is a wildcard address and never in a list. What does
  leave the node out is the tracker, by its peer ID (`src/tracker/server.go:121`); a node
  dials itself when the list has its address under the ID of an earlier process.
* IDs whose hash has expired stay in the set, and the cleanup, which finds peers by
  their hash, does not take them out: they use up `SRANDMEMBER`'s `numwant`
  (`src/tracker/redis_storage.go:108`). `Introduces` counts the dead with the torrent.
* `Stop` closes `quitch`, and the loop's deferred `Stop` closes it again
  (`src/torrent_server/server.go:97`): a panic, unless `os.Exit` is first. A signal
  before `ListenAndAccept` meets a listener that is nil.
* The decoder takes what follows the number in `i12xe` for nothing, reads a key twice
  and ignores what follows the value (`src/meta/bencode.go`).
* Keys out of order, entries `InfoDict` has no field for, a `private` or a `length` that
  is not positive change the info hash (`src/meta/torrent.go:110`); `SameInfoHash` says
  that nothing else does.

### Bounds

Three nodes in a triangle are linked to the seeder and to another leecher. Three peers
with two slots make one regular slot contested and the optimistic one with it. Two
pieces give an intermediate bitfield and a last piece. `OutboxCap = 8` is never reached
in its runs; `2` is reached at once. `RoundsAhead = 1` bounds how many choke messages
may be unread on a connection: the rounds are ten seconds apart.
`OptimisticUnchokeInterval` is 1 or 2 instead of 3, so that the optimistic draw comes up
within a short run. `MaxSends` bounds the messages of an end in `Transport`: three are
what it takes to skip one and see it, one is enough where only the connection's life
matters. `MaxRate` is 1 where rates matter: slow and fast. In `Tracker` second copies of
pieces come only until `MaxCompleted` completions are counted, and not while one is
being announced; nothing else is bounded but the number of processes. Each starts once,
as a process has one peer ID. `NumWant` is the number of processes, the least that the
discovery property assumes.

In `RedisTracker` a process has one plain announce under way at a time (several of them
would write the same), and only `Signalled` processes get a signal: one of two, which is
also the one that may crash, the other being reliable. One request is handled in
seconds: the set does not expire between the `EXPIRE` of an announce and its answer, and
no process grows old in the middle of a pipeline of its own. In `MCFormats` a byte has
three bits, so that five pieces are two bytes with one bit to spare, and the numbers of
pieces of the two nodes make fields that are too short and too long; `FormatsProofs` has
no such bounds, nor any on the lengths of files, hashes and lists or on what files are
cut short. `HashLength` is four: one hash has room for `%`, two hex digits and one more
byte. Six bytes stand for the classes that `QueryUnescape` tells apart (`%`, `+`, space,
digit, letter, above ASCII).

Symmetry is used in the safety run of `Swarm`, where peers are not told apart, and
never with liveness.

Deadlock is checked for `Swarm` and `TorrentServer`, whose ticker always has
something to do. It is switched off for `Transport`, where the sends are bounded and
all connections may end, for `Tracker` and `RedisTracker`, where all clients may
exit, and in `MCFormats`, where a behaviour is one call.

### Fairness

`Swarm`: the ticker fires (weak fairness of a round), a round's sends are finished, and
the random draw picks every candidate offered infinitely often (strong fairness):
`rand.Intn` is uniform. `TorrentServer`: the same, and each connection's head message is
handled: Go's `select` picks at random among ready cases, so that neither the ticker nor
the rpc channel is starved, and the channel is FIFO. Dials happen once and links come
up. `Transport`: goroutines are scheduled; no message has to be sent and nothing has to
break. `Tracker`: requests that are not lost are served, tickers tick and goroutines
run. `RedisTracker`: the same, the hashes of the dead expire if they have a time to
live, a dead process is old after thirty minutes, and the cleanup, which scans all
hashes every five minutes (`src/cmd/tracker.go:74`), reaches every hash that is old at
infinitely many of them (strong fairness of `CleanupRead`). This is `cmd/tracker.go`
with Redis; `cmd/tracker/main.go` runs no cleanup and no run is about it, and of the
memory storage no run says that it forgets anyone. Nothing forces a connection to break,
a request to be lost or a process to quit.

## 4. Theorems

| Module | Theorem | Statement |
|---|---|---|
| `SwarmProofs` | `TypeCorrect` | `Spec => []TypeOK` |
| | `UnchokeBoundHolds` | `Spec => []UnchokeBound` |
| | `NoSlotWastedHolds` | `Spec => NoSlotWasted` |
| | `ChokeAgreementHolds` | `ServerSpec => []ChokeAgreement` |
| `TorrentServerProofs` | `TypeCorrect` | `Spec => []TypeOK` |
| `TorrentClaimsProofs` | `NoOverclaimHolds` | `Spec => []NoOverclaim` |
| | `Refinement` | `Spec => Disseminates` |
| | `VerifiedFileIntactHolds` | `Spec => []VerifiedFileIntact` |
| `TorrentAgreementProofs` | `ChokeAgreementHolds` | `Spec => []ChokeAgreement` |
| | `NoLostAnnouncementHolds` | `Spec => []NoLostAnnouncement` |
| `TransportProofs` | `TypeCorrect` | `Spec => []TypeOK` |
| | `NoGapsHolds` | `Spec => []NoGaps` |
| | `SwarmOfOthersHolds` | `Spec => []SwarmOfOthers` |
| | `RepliesReachSenderHolds` | `Spec => []RepliesReachSender` |
| | `HandshakesProceedHolds` | `Spec => []HandshakesProceed` |
| | `Refinement` | `Spec => OneStream` |
| `TrackerProofs` | `TypeCorrect` | `Spec => []TypeOK` |
| | `MapsAgreeHolds` | `Spec => []MapsAgree` |
| | `DiscoveryHolds` | `Spec => []Discovery` |
| | `Refinement` | `Spec => Introduces` |
| `RedisTrackerProofs` | `TypeCorrect` | `Spec => []TypeOK` |
| | `Refinement` | `Spec => Introduces` |
| | `Acquaintance` | of two reliable processes that run, one was told of the other, or a lapse came between them |
| `FormatsProofs` | `BytesMeanPiecesHolds` | `BitSpec => []BytesMeanPieces` |
| | `HashesApartHolds` | `HashSpec => []HashesApart` |
| | `ReadOnce` | `QueryUnescape(QueryEscape(s)) = [ok |-> TRUE, bytes |-> s]` |
| | `CutShort` | no proper beginning of a node is a node |
| | `TruncatedRefusedHolds` | `FormatsSpec => []TruncatedRefused` |
| | `PeersArriveHolds` | `FormatsSpec => []PeersArrive` |

Assumptions are the named ones of the modules (`ChokeConstants`, `SwarmConstants`,
`NetworkConstants`, `TransportConstants`, `TrackerConstants`, `LifecycleConstants`,
`RedisConstants`, `BitfieldConstants`, `HashConstants`, `FormatsConstants`): finite sets of
peers, nodes, processes and pieces, sentinels outside them, ends of connections that
belong to nodes, a verifying node that starts with right pieces only, hashes that are
bytes and of one length, ports and an interval that are not negative, and, of the files
that are cut short, that each is one node and nothing behind it.

*Swarm.* The type invariant includes `peers \subseteq states` and `live \subseteq
peers`. `UnchokeBound` is inductive with it: a round leaves at most `RegularSlots + 1`
peers unchoked by the cardinality of its outcome, every other action only chokes or
removes. `NoSlotWasted` is about one step, and needs the types only. A peer that stays
choked comes behind the first `RegularSlots` of the ranking, so that these are as many
as there are slots, and by the comparator none of them is slower
(`RegularUnchokesBound`); and it was there to be drawn. `ChokeAgreement` is not
inductive alone; it needs that an undelivered action is the one that repairs the
difference (`ActionsRepair`: a "choke" is pending only for a peer that is choked, an
"unchoke" only for one that is not; none for a peer that is not registered). A peer is
excused from the time a `Send` to it fails to the next that does not. It is claimed for
the server's calls: with `RemovePeer` between a round and its sends, and the same ID
joining again, the action would go to the new connection.

*TorrentServer.* `NoOverclaim` is inductive together with `TypeOK`: every claim of a
node, at each place it can be in (`views`, `pending`, `joinBits`, `announcing`, each
kind of message under way), is about pieces its owner holds, and holdings only grow
(`StoreGrows`). The refinement needs just that: a piece message carries what its sender
holds, hence `StorePiece` is a `Copy` or a stutter; `AnnounceComplete` is a `Save` or a
stutter, and all else leaves both variables alone. `VerifiedFileIntact` then follows in
the abstract specification from "verifying nodes hold right pieces" and "saved nodes are
complete".

*What two nodes agree on* (`TorrentAgreementProofs`). Both properties speak of a
connection with nothing under way; the invariant says what is true with any messages on
it: reading them, in order, onto what the reader knows leaves him with what the writer
knows now. For choking (`ChokesConclude`), the last choke message under way is the
writer's decision, or if there is none the reader has it already (`Concludes`). For pieces
(`PiecesLearnt`), each piece the writer holds is in the reader's view or in a HAVE or
BITFIELD under way, with no BITFIELD behind it that lacks it (`Learns`). One piece is
excepted, the one stored and not yet announced; and while `OnPeer` is between reading and
sending its bitfield, that bitfield has the pieces instead. Lemmas on sequences say what
writing and reading do to the two notions, and each action is one of the two in each
direction of each connection (`Carried`). Where a message was lost (`lost`) nothing is
claimed.

*Transport.* What is received has no gaps, because whatever breaks a stream also ends
its reading. The invariant follows the numbers from `Send` to the loop: the outbox holds
the last messages sent, in order (`InOrder`); what is on the wire continues what the
other end has read, its handshake counting as one (`Continued`); and as long as the
connection is whole and its writer alive, wire and outbox join without a gap (`Joined`).
An end that has not written its handshake has written nothing (`Silent`). Closing,
breaking, a full channel and an oversized message each take one end or the connection
out of these statements for good. For `RepliesReachSender` the invariant says that an
end which was ever read from is the one registered at the reader (`Sources`), and that
an end before `OnPeer` is in no swarm (`Fresh`); for `SwarmOfOthers`, that an end about
to call `OnPeer` has validated the handshake (`Validated`). `HandshakesProceed` comes
out of `Joined`: what an end has written and the other has not read is on the wire as
long as the connection is whole, so two ends never both wait for nothing; and both come
up together (`Together`). `NoGaps` counts the earlier entries of the same connection in
the channel (`Places`), which is a statement about one entry, and so can be kept when
another is appended or the head is taken. The refinement of `Streams` adds that nothing
is under way, and nothing waits in an rpc channel, that was not sent (`Spoken`): then
what the loop takes is the next message (`NoGaps`), was sent, and is from the connection
its node answers on (`RepliesReachSender`). `OnPeer` is a `Join` or a stutter, `Send` a
`Send`, `Consume` a `Receive`; the handshake, the writers, breaking and closing are
hidden.

*Tracker.* `MapsAgree` is inductive. `Discovery` needs that a running client, and
one whose "started" was stored and not answered, is registered (`StaysRegistered`):
only "stopped" and the cleanup remove a peer, a running client has no "stopped" under
way, and is never old. Then of two clients, whoever lists second finds the other. The
refinement of `Rendezvous` rests on the same invariant, with only started processes
registered (`RegisteredStarted`): a storage call is a `Register` or a `Forget`, the answer
to "started" is an `Admit`, and all else is a step of the same name or a stutter.

*Redis.* A mapped step must never forget a reliable process that runs. So the invariant
says that one that runs has a hash and is in the set, or is `lapsed` (`RunningListed`),
whom the next announce lists again, that a reliable one is `old`, or being cleaned up,
only when it is over (`OldOver`), and that "stopped" is only under way for those that
are leaving (`StoppedLeaves`). A process that waits to be admitted is as far in Redis as
the commands of its request have got, or has lapsed, whether it is reliable or not
(`StartingStored`): nothing grows old while a request of it is under way. The condition
of `Admit` is about the past: that a running process was in the list when the list was
drawn, or was told of the newcomer, or the two missed each other. It is carried by two
statements on requests that have drawn their list and whose process waits: of two of
them, one will be told of the other (`StartersMeet`), and of such a one and a process
that runs, one is or was (`RunnersMet`); pairs in `missed` are excepted, and whoever is
lapsed has missed everyone who is starting (`HistoryOK`). Drawing a list finds in the
set whoever drew before and has not lapsed; reading the hashes one by one loses none of
those, their hashes being there; and an answer turns the first statement into the
second. A list is whole if all processes, the dead included, fit in `numwant`
(`WholeSet`). A command on Redis is then a `Register`, a `Forget` or a stutter, by its
effect on set and hashes together, and the end of the set is a `Lapse`
(`SetLapsesPreserves`, `SetIntroduces`). `Acquaintance` is proved from the steps of
`Rendezvous` alone: it is what the abstract specification is for.

*Bitfields.* A piece is one bit of one byte, and no other piece's (`OneBit`); the bytes
for n pieces have room for each of them (`Room`). The invariant `FieldTells` says that a
field is as long as one of the two nodes makes it, and that its bits are those of the
pieces the peer has spoken of, as far as it reaches. What lies past its end is past this
node's pieces, or was never spoken of.

*Induction.* The definitions of the formats are recursive functions. The library's
theorems on induction and recursion take an operator, which the provers cannot
instantiate; so induction over the naturals (`Induct`) is derived from their being well
founded, `NatLessThanWellFounded`, for a set in place of a predicate. That a recursive
function exists at all, from each number to the next (`Forward`), from the end of a
string to its front (`Unescaping`, `Parsing`) or over a sequence of sequences
(`Flattened`), is proved by that induction in turn.

*Hashes.* What the URL has for a hash is one piece for each byte. Reading it from the
end, each piece gives its byte and goes on with the next (`ReadsByte`), which is
`ReadOnce`. The tracker reads a second time: a string without `%` comes out as long as it
was, with spaces for `+`, and one with a `%` has lost a byte at least where that is or is
malformed, so that its length is not a hash's and it is refused.

*Bencode, cut short.* What a decoder finds at a position depends only on what is from
there to where it ends (`NodeSame`, `ListSame`, `DictSame`). So whatever a string t is
decoded to from some position on, every string that begins with t is decoded to as well,
to the same end (`KnownAll`, by induction from the end of t). If a proper beginning of a
node were a node, the whole would end where it does (`CutShort`). `TruncatedRefused` then
needs of torrent files that they are one node, and of answers that the tracker writes one.

*Bencode, as written.* `Writes(S, w, node)` says that wherever the symbols w stand in a
string, the node is read there and w is what it takes; `Holds` says the same of the
inside of a list or a dictionary. Numbers and strings are written so (`IntWrites`, which
rests on digits being read as the number they were made of, and `StringWrites`), an entry
in front of others, a list of any length and its brackets keep it so (`EntryHolds`,
`ItemsHold`, `ListWrites`, `DictWrites`). An answer is therefore read as it was written
(`AnswerWrites`), the client's loops find in it each peer's address (`PeersRead`), and
going over these, a list is kept that has each exactly once, but for one that is the
listener's own string (`Dials`).

Model-checked only: everything about liveness under fairness (`NoStarvation`, `Downloads`,
`HandshakesEnd`, `NoHalfOpen`, `WritersStop`, `SeederCounted`, `ComesBack`,
`DeadForgotten`), for which the prover has no `ENABLED`; and `SameInfoHash`, which compares
an encoding with the one of any nested node (`EncodeIn`), a recursive operator, with which
the prover does not work.

## 5. Not modelled

* Upload counters, `AmInterested`, `GetSeeders`, `GetLeechers`, `GetActiveTorrents`,
  `SetPieceHashes`, `UpdatePeerLastSeen`: written or defined, and read or called by
  nothing. `TrackerClient.UpdateStats` writes two fields without a lock while
  `buildAnnounceURL` reads them; they only reach the `uploaded` and `downloaded` that
  nobody uses.
* The scrape beyond the set it counts, and `IncrementCompleted` of the Redis storage,
  one atomic `HINCRBY`.
* SHA-1: equal encodings stand for equal hashes.
* The accept loop's error handling, TCP and HTTP themselves, Redis beyond the commands.
* The commands: they read flags, build the objects above and print.

## 6. Plan

Done, in this order: `ChokePolicy`, `Swarm` and its proofs; `Dissemination`,
`TorrentServer` and its proofs; `Transport`; `Tracker` and its proofs; `Rendezvous`,
`Lifecycle`, `RedisStorage`, `RedisTracker`; `Bencode`, `Metainfo`, `AnnounceFormat`,
`Formats`, `InfoHash`; `HashFormat`, `Bitfields` and their proofs; the refinement of
`Rendezvous` by `Tracker`; the proofs of `Transport` with its refinement of `Streams`,
of the agreement between nodes of `TorrentServer`, and of `RedisTracker` with its
refinement; that handshakes proceed and that no slot is wasted; `Bencode` once more, by
positions, with the proofs of what is read of an input that is cut short and of an
answer as it was written.

What is left to TLC is named at the end of section 4: liveness, and the info hash of
arbitrary files.

## 7. Running

    tlc -config MCSwarmApi.cfg MCSwarm.tla
    tlc -config MCInfoHash.cfg MCFormats.tla
    tlapm SwarmProofs.tla

Each `.cfg` is named after the MC module it belongs to, followed by the instance;
`MCInfoHash.cfg` belongs to `MCFormats`.
