------------------------------- MODULE Tracker -------------------------------
(***************************************************************************)
(* The tracker with its in-memory storage (tracker/server.go,              *)
(* tracker/memory_storage.go) and the announces its clients make           *)
(* (torrent_server/server.go and handler.go over client/tracker_client.go).*)
(*                                                                         *)
(* A handler goroutine serves each request; the storage calls it makes are *)
(* atomic, under MemoryStorage.mu, and interleave with those of the other  *)
(* handlers.  A client makes its "started" announce before anything else   *)
(* and waits for the answer.  Later announces are made by goroutines of    *)
(* their own: their requests travel on several HTTP connections and arrive *)
(* in any order, or not at all, or after the client is gone.  A peer ID    *)
(* belongs to one process and so to one torrent.                           *)
(***************************************************************************)
EXTENDS Integers, FiniteSets

CONSTANTS
    Peer,           \* processes, and their peer IDs
    Hash,
    InfoHash,       \* [Peer -> Hash]
    MissingAtStart, \* [Peer -> Nat], pieces a process has to download
    NumWant,        \* 50 in buildAnnounceURL and handleAnnounce
    Lossy,          \* processes whose requests may be lost
    MaxCompleted    \* bound: second copies of pieces come only until so many
                    \* completions of a torrent are counted

ASSUME TrackerConstants ==
    /\ IsFiniteSet(Peer)
    /\ InfoHash \in [Peer -> Hash]
    /\ MissingAtStart \in [Peer -> Nat]
    /\ NumWant \in Nat
    /\ Lossy \subseteq Peer
    /\ MaxCompleted \in Nat

VARIABLES
    registered,     \* keys of MemoryStorage.peers
    left,           \* Left of each of them
    members,        \* MemoryStorage.torrents
    completed,      \* MemoryStorage.completed
    old,            \* registered peers last seen over 30 minutes ago
    requests,       \* announces under way or being handled
    phase,          \* where each client is
    missing,        \* its missing pieces
    tasks,          \* announces its goroutines have not made yet
    knows           \* its bootstrapNodes

storeVars  == <<registered, left, members, completed, old>>
clientVars == <<phase, missing, tasks, knows>>
vars == <<storeVars, requests, clientVars>>

Phase == {"off", "starting", "running", "stopping", "gone"}
Step  == {"sent", "count", "list"}
Event == {"started", "", "completed", "stopped"}

TypeOK ==
    /\ registered \subseteq Peer
    /\ left \in [Peer -> Nat]
    /\ members \in [Hash -> SUBSET Peer]
    /\ completed \in [Hash -> Nat]
    /\ old \subseteq registered
    /\ requests \subseteq [peer : Peer, event : Event, left : Nat, step : Step]
    /\ phase \in [Peer -> Phase]
    /\ missing \in [Peer -> Nat]
    /\ tasks \in [Peer -> SUBSET {"", "completed"}]
    /\ knows \in [Peer -> SUBSET Peer]

Init ==
    /\ registered = {}
    /\ left = [p \in Peer |-> 0]
    /\ members = [h \in Hash |-> {}]
    /\ completed = [h \in Hash |-> 0]
    /\ old = {}
    /\ requests = {}
    /\ phase = [p \in Peer |-> "off"]
    /\ missing = MissingAtStart
    /\ tasks = [p \in Peer |-> {}]
    /\ knows = [p \in Peer |-> {}]

-----------------------------------------------------------------------------
(* MemoryStorage. *)

AddPeer(p, l) ==
    /\ registered' = registered \cup {p}
    /\ left' = [left EXCEPT ![p] = l]
    /\ members' = [members EXCEPT ![InfoHash[p]] = @ \cup {p}]
    /\ old' = old \ {p}
    /\ UNCHANGED completed

\* The peer is deleted and its torrent is not told.
ForgetPeers(S) ==
    /\ registered' = registered \ S
    /\ old' = old \ S
    /\ UNCHANGED <<left, members, completed>>

\* RemovePeer, and CleanupExpiredPeers for the peers that are old.
RemovePeers(S) ==
    /\ registered' = registered \ S
    /\ members' = [h \in Hash |-> members[h] \ S]
    /\ old' = old \ S
    /\ UNCHANGED <<left, completed>>

\* GetPeers stops one short of the limit.
GetPeersShort(h, max) ==
    LET there == members[h] \cap registered
    IN  { T \in SUBSET there :
            \/ T = there /\ Cardinality(there) < max
            \/ Cardinality(T) = max - 1 }

\* The possible results of GetPeers: it goes over the set in map order.
GetPeers(h, max) ==
    LET there == members[h] \cap registered
    IN  { T \in SUBSET there :
            \/ T = there /\ Cardinality(there) <= max
            \/ Cardinality(T) = max }

\* GetTorrentStats.
Seeders(h) == { p \in members[h] \cap registered : left[p] = 0 }

-----------------------------------------------------------------------------
(* handleAnnounce, one step per storage call. *)

Request(p, event, l) == [peer |-> p, event |-> event, left |-> l, step |-> "sent"]

Moved(r, step) == (requests \ {r}) \cup {[r EXCEPT !.step = step]}

\* The first storage call.  "stopped" gets an empty list of peers at once.
StoreAnnounce(r) ==
    /\ r \in requests /\ r.step = "sent"
    /\ IF r.event = "stopped"
       THEN RemovePeers({r.peer}) /\ requests' = requests \ {r}
       ELSE IF r.event = "completed"
       THEN AddPeer(r.peer, 0) /\ requests' = Moved(r, "count")
       ELSE AddPeer(r.peer, r.left) /\ requests' = Moved(r, "list")
    /\ UNCHANGED clientVars

CountCompleted(r) ==
    /\ r \in requests /\ r.step = "count"
    /\ completed' = [completed EXCEPT ![InfoHash[r.peer]] = @ + 1]
    /\ requests' = Moved(r, "list")
    /\ UNCHANGED <<registered, left, members, old, clientVars>>

\* GetPeers, without the peer that asks.  The answer of "started" is all a
\* client ever uses: it goes to populateBootstrapNodes, and the loop starts.
ListPeers(r) ==
    /\ r \in requests /\ r.step = "list"
    /\ requests' = requests \ {r}
    /\ \E T \in GetPeers(InfoHash[r.peer], NumWant) :
         IF r.event = "started" /\ phase[r.peer] = "starting"
         THEN /\ knows' = [knows EXCEPT ![r.peer] = T \ {r.peer}]
              /\ phase' = [phase EXCEPT ![r.peer] = "running"]
         ELSE UNCHANGED <<knows, phase>>
    /\ UNCHANGED <<storeVars, missing, tasks>>

LoseRequest(r) ==
    /\ r \in requests /\ r.step = "sent" /\ r.peer \in Lossy
    /\ requests' = requests \ {r}
    /\ UNCHANGED <<storeVars, clientVars>>

-----------------------------------------------------------------------------
(* Time at the tracker.  A client that runs announces itself every five    *)
(* minutes: only one that is gone is not seen for thirty.                  *)

GrowOld(p) ==
    /\ p \in registered \ old
    /\ phase[p] = "gone" /\ \A r \in requests : r.peer # p
    /\ old' = old \cup {p}
    /\ UNCHANGED <<registered, left, members, completed, requests, clientVars>>

\* The peers that are not old are removed.
CleanupExpiredPeersFresh ==
    /\ registered # old
    /\ RemovePeers(registered \ old)
    /\ UNCHANGED <<requests, clientVars>>

\* A Storage method the commands never call on this storage.
CleanupExpiredPeers ==
    /\ old # {}
    /\ RemovePeers(old)
    /\ UNCHANGED <<requests, clientVars>>

-----------------------------------------------------------------------------
(* Clients. *)

\* populateBootstrapNodes announces "started" with left = 0, whatever is
\* missing.
Start(p) ==
    /\ phase[p] = "off"
    /\ phase' = [phase EXCEPT ![p] = "starting"]
    /\ requests' = requests \cup {Request(p, "started", 0)}
    /\ UNCHANGED <<storeVars, missing, tasks, knows>>

\* A piece that was there already is counted again.
ReceivePieceAgain(p) ==
    /\ phase[p] = "running"
    /\ missing' = [missing EXCEPT ![p] = @ - 1]
    /\ tasks' = [tasks EXCEPT ![p] = @ \cup {""}]
    /\ UNCHANGED <<storeVars, requests, phase, knows>>

\* Bounds: nor do they come while a "completed" is on its way.
SecondCopy(p) ==
    /\ missing[p] < MissingAtStart[p]
    /\ completed[InfoHash[p]] < MaxCompleted
    /\ "completed" \notin tasks[p]
    /\ \A r \in requests : r.peer = p => r.event # "completed"
    /\ UNCHANGED missing

\* A piece, or a second copy of one that was downloaded, of which AddPiece
\* complains in vain.  handlePiece starts UpdateTrackerStats, which ends in a
\* plain announce; when nothing is missing and the file can be written,
\* "completed" too.
ReceivePiece(p) ==
    /\ phase[p] = "running"
    /\ \/ missing[p] > 0 /\ missing' = [missing EXCEPT ![p] = @ - 1]
       \/ SecondCopy(p)
    /\ \E written \in BOOLEAN :
          tasks' = [tasks EXCEPT ![p] = @ \cup {""}
                       \cup (IF missing'[p] = 0 /\ written THEN {"completed"} ELSE {})]
    /\ UNCHANGED <<storeVars, requests, phase, knows>>

\* A node that has the whole file does not announce itself any more.
AnnounceTickLeecher(p) ==
    /\ phase[p] = "running" /\ missing[p] > 0
    /\ tasks' = [tasks EXCEPT ![p] = @ \cup {""}]
    /\ UNCHANGED <<storeVars, requests, phase, missing, knows>>

\* The announce ticker, every five minutes.
AnnounceTick(p) ==
    /\ phase[p] = "running"
    /\ tasks' = [tasks EXCEPT ![p] = @ \cup {""}]
    /\ UNCHANGED <<storeVars, requests, phase, missing, knows>>

\* AnnounceToTracker in its goroutine: the missing pieces are counted now.
MakeAnnounce(p, event) ==
    /\ phase[p] \in {"running", "stopping"}
    /\ event \in tasks[p]
    /\ tasks' = [tasks EXCEPT ![p] = @ \ {event}]
    /\ requests' = requests \cup {Request(p, event, missing[p])}
    /\ UNCHANGED <<storeVars, phase, missing, knows>>

\* quitch is closed: the loop announces "stopped".
Quit(p) ==
    /\ phase[p] = "running"
    /\ phase' = [phase EXCEPT ![p] = "stopping"]
    /\ requests' = requests \cup {Request(p, "stopped", missing[p])}
    /\ UNCHANGED <<storeVars, missing, tasks, knows>>

\* The process ends: os.Exit of the signal handler, with "stopped" sent or
\* not, a "started" that got no answer, a crash.
Exit(p) ==
    /\ phase[p] \in {"starting", "running", "stopping"}
    /\ phase' = [phase EXCEPT ![p] = "gone"]
    /\ tasks' = [tasks EXCEPT ![p] = {}]
    /\ knows' = [knows EXCEPT ![p] = {}]
    /\ UNCHANGED <<storeVars, requests, missing>>

-----------------------------------------------------------------------------
HandleAnnounce(r) == StoreAnnounce(r) \/ CountCompleted(r) \/ ListPeers(r)

ClientStep(p) ==
    \/ Start(p)
    \/ ReceivePiece(p)
    \/ AnnounceTick(p)
    \/ \E event \in {"", "completed"} : MakeAnnounce(p, event)
    \/ Quit(p)
    \/ Exit(p)

Next ==
    \/ \E r \in requests : HandleAnnounce(r) \/ LoseRequest(r)
    \/ \E p \in Peer : ClientStep(p) \/ GrowOld(p)
    \/ CleanupExpiredPeers

Spec == Init /\ [][Next]_vars

\* Requests that are not lost are served, goroutines run, tickers tick.
FairSpec ==
    /\ Spec
    /\ \A p \in Peer :
        /\ WF_vars(\E r \in requests : r.peer = p /\ r.event = "started" /\ HandleAnnounce(r))
        /\ WF_vars(\E r \in requests : r.peer = p /\ r.event = "completed" /\ HandleAnnounce(r))
        /\ \A l \in 0..MissingAtStart[p] :
              WF_vars(\E r \in requests : r.peer = p /\ r.event = "" /\ r.left = l
                                          /\ HandleAnnounce(r))
        /\ WF_vars(\E event \in {"", "completed"} : MakeAnnounce(p, event))
        /\ WF_vars(AnnounceTick(p))

-----------------------------------------------------------------------------
(* The two maps of the storage tell the same story: a torrent lists exactly*)
(* its registered peers, whatever order announces, exits and the cleanup   *)
(* come in.  GetPeers and the scrape counts rest on it.                    *)
MapsAgree ==
    \A h \in Hash : members[h] = { p \in registered : InfoHash[p] = h }

(* Discovery: of two processes of a torrent that have started, at least    *)
(* one was told about the other and dials it, however their announces were *)
(* interleaved, as long as the torrent fits in numwant.  Nothing but       *)
(* "started" ever makes a connection.                                      *)
Discovery ==
    \A p, q \in Peer :
        ( /\ p # q /\ InfoHash[p] = InfoHash[q]
          /\ phase[p] = "running" /\ phase[q] = "running"
          /\ Cardinality({ x \in Peer : InfoHash[x] = InfoHash[p] }) <= NumWant )
        => p \in knows[q] \/ q \in knows[p]

R == INSTANCE Rendezvous
     WITH Process <- Peer, Torrent <- InfoHash, Lossy <- {}, trouble <- {},
          lapsed <- {}, missed <- {},
          Whole <- { p \in Peer :
              Cardinality({ x \in Peer : InfoHash[x] = InfoHash[p] }) <= NumWant },
          phase <- phase, registered <- registered, knows <- knows

(* What Discovery rests on, as a specification: the storage forgets nobody *)
(* that has announced itself and not left, and an answer names started     *)
(* processes of the torrent only, whoever's announces come in between.     *)
Introduces == R!Spec

(* State synchronization: announces with stale counts may overtake the     *)
(* last one, and the periodic announce repairs it: a node that has the     *)
(* file and stays ends up counted as a seeder for good.                    *)
SeederCounted ==
    \A p \in Peer :
        <>[](phase[p] = "running" /\ missing[p] = 0) => <>[](p \in Seeders(InfoHash[p]))

=============================================================================
