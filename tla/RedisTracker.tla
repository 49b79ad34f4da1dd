---------------------------- MODULE RedisTracker ----------------------------
(***************************************************************************)
(* The tracker command with its Redis storage, and the processes of one    *)
(* torrent that announce themselves to it: handleAnnounce (tracker/        *)
(* server.go) command by command over RedisStorage, with the processes of  *)
(* Lifecycle as its clients.  A process in Lossy may crash, and Redis, the *)
(* tracker or the network may fail any of its requests at any point.       *)
(***************************************************************************)
EXTENDS Lifecycle

CONSTANTS
    NumWant,        \* 50 in buildAnnounceURL and handleAnnounce
    NoProcess

ASSUME RedisConstants ==
    /\ NoProcess \notin Process
    /\ NumWant \in Nat

VARIABLES
    hash, ttl, old, members, setTtl, cleaning, cleaned,  \* RedisStorage
    requests,   \* announces under way or being handled
    lapsed,     \* history: processes that lost their place in the set while
                \* they were starting, until they are listed again or over
    missed      \* history: pairs of which one was starting while the other was
                \* in lapsed, until one of them is over

INSTANCE RedisStorage

redisVars == <<hash, ttl, old, members, setTtl, cleaning, cleaned>>
history == <<lapsed, missed>>
vars == <<redisVars, lifeVars, requests, history>>

Event == {"started", "", "stopped"}

\* The command that comes next.
Step == {"hset", "sadd", "expire", "list", "get", "del", "srem"}

\* Every announce is stored.
RequestStoresStopped(p, event) ==
    [peer |-> p, event |-> event, step |-> "hset", ids |-> {}, found |-> {}]

\* The switch on the event: "stopped" removes the peer, any other stores it.
Request(p, event) ==
    [peer |-> p, event |-> event, step |-> IF event = "stopped" THEN "del" ELSE "hset",
     ids |-> {}, found |-> {}]

TypeOK ==
    /\ RedisTypeOK
    /\ LifeTypeOK
    /\ requests \subseteq [peer : Process, event : Event, step : Step,
                           ids : SUBSET Process, found : SUBSET Process]
    /\ \A r \in requests : r.event = "stopped" <=> r.step \in {"del", "srem"}
    /\ lapsed \subseteq Process \ Listed
    /\ missed \subseteq SUBSET Process

Init ==
    /\ RedisInit
    /\ LifeInit
    /\ requests = {}
    /\ lapsed = {}
    /\ missed = {}

-----------------------------------------------------------------------------
(* handleAnnounce. *)

\* r, whose turn it is to run command `step`, goes on to `next`.
Runs(r, step, next) ==
    /\ r.step = step
    /\ requests' = (requests \ {r}) \cup {[r EXCEPT !.step = next]}

Ends(r, step) ==
    /\ r.step = step
    /\ requests' = requests \ {r}

\* Only the answer to "started" is ever used: that another announce reads a
\* list of peers is left out.
AfterAddPeer(r) ==
    IF r.event = "started" THEN Runs(r, "expire", "list") ELSE Ends(r, "expire")

\* A plain announce only writes the hash again, as UpdatePeerLastSeen would.
AddPeerTouches(r) ==
    /\ \/ Runs(r, "hset", IF r.event = "" THEN "expire" ELSE "sadd") /\ HSet(r.peer)
       \/ Runs(r, "sadd", "expire") /\ SAdd(r.peer)
       \/ AfterAddPeer(r) /\ Expire(r.peer)
    /\ lapsed' = lapsed \ Listed'
    /\ UNCHANGED <<lifeVars, missed>>

AddPeer(r) ==
    /\ \/ Runs(r, "hset", "sadd") /\ HSet(r.peer)
       \/ Runs(r, "sadd", "expire") /\ SAdd(r.peer)
       \/ AfterAddPeer(r) /\ Expire(r.peer)
    /\ lapsed' = lapsed \ Listed'
    /\ UNCHANGED <<lifeVars, missed>>

RemovePeer(r) ==
    /\ \/ Runs(r, "del", "srem") /\ Del(r.peer)
       \/ Ends(r, "srem") /\ SRem(r.peer)
    /\ UNCHANGED <<lifeVars, history>>

\* GetPeers draws the IDs ...
DrawPeers(r) ==
    /\ r.step = "list"
    /\ \E ids \in SRandMember :
          requests' = (requests \ {r}) \cup {[r EXCEPT !.step = "get", !.ids = ids]}
    /\ UNCHANGED <<redisVars, lifeVars, history>>

\* ... and then reads their hashes one by one; one that is not there, or
\* cannot be read, is skipped.
GetPeer(r, q) ==
    /\ r.step = "get" /\ q \in r.ids
    /\ \/ requests' = (requests \ {r}) \cup
             {[r EXCEPT !.ids = @ \ {q}, !.found = @ \cup ({q} \cap hash)]}
       \/ /\ r.peer \in trouble
          /\ requests' = (requests \ {r}) \cup {[r EXCEPT !.ids = @ \ {q}]}
    /\ UNCHANGED <<redisVars, lifeVars, history>>

\* The answer, without the peer that asks, reaches the client that waits.
Answer(r) ==
    /\ r.ids = {} /\ Ends(r, "get")
    /\ IF main[r.peer] = "starting"
       THEN Enter(r.peer, r.found \ {r.peer})
       ELSE UNCHANGED lifeVars
    /\ UNCHANGED <<redisVars, history>>

HandleAnnounce(r) ==
    \/ AddPeer(r)
    \/ RemovePeer(r)
    \/ DrawPeers(r)
    \/ \E q \in Process : GetPeer(r, q)
    \/ Answer(r)

\* A request is lost, or a command of it fails and the rest is not run.
RequestFails(r) ==
    /\ r.peer \in trouble
    /\ requests' = requests \ {r}
    /\ UNCHANGED <<redisVars, lifeVars, history>>

-----------------------------------------------------------------------------
(* Clients. *)

Sends(p, event) == requests' = requests \cup {Request(p, event)}

Starts(p) ==
    /\ AnnounceStarted(p)
    /\ Sends(p, "started")
    /\ missed' = missed \cup { {p, q} : q \in lapsed }
    /\ UNCHANGED <<redisVars, lapsed>>

\* The ticker, every five minutes, and the updates after a piece.  One of
\* them under way at a time: a bound.
Announces(p) ==
    /\ main[p] \in {"running", "stopping"}
    /\ \A r \in requests : r.peer = p => r.event # ""
    /\ Sends(p, "")
    /\ UNCHANGED <<redisVars, lifeVars, history>>

Stops(p) ==
    /\ LeaveLoop(p)
    /\ Sends(p, "stopped")
    /\ UNCHANGED <<redisVars, history>>

\* The history of a process ends with it.
Forgotten ==
    /\ lapsed' = { q \in lapsed : ~Over(q)' }
    /\ missed' = { pair \in missed : \A q \in pair : ~Over(q)' }

\* The loop ends when "stopped" is answered, or has failed.
Returns(p) ==
    /\ \A r \in requests : r.peer = p => r.event # "stopped"
    /\ DeferredStop(p)
    /\ Forgotten
    /\ UNCHANGED <<redisVars, requests>>

ClientStep(p) ==
    \/ Starts(p)
    \/ Announces(p)
    \/ Stops(p)
    \/ Returns(p)
    \/ (LifeAlone(p) \/ StartFails(p)) /\ Forgotten /\ UNCHANGED <<redisVars, requests>>

-----------------------------------------------------------------------------
(* Time.  A running process announces itself every five minutes: if its    *)
(* requests get through, no deadline and no cutoff of thirty minutes or two*)
(* hours that an announce of it has set comes before the next one.  One    *)
(* request takes seconds to handle.                                        *)

\* Thirty minutes may pass without an announce of p.
Silent(p) == Over(p) \/ (p \in trouble /\ main[p] # "starting")

GrowsOld(p) ==
    /\ p \in hash \ old
    /\ Silent(p)
    /\ \A r \in requests : r.peer = p => r.step \in {"hset", "del"}
    /\ old' = old \cup {p}
    /\ UNCHANGED <<hash, ttl, members, setTtl, cleaning, cleaned,
                   lifeVars, requests, history>>

HashLapses(p) ==
    /\ Silent(p)
    /\ HashExpires(p)
    /\ UNCHANGED <<lifeVars, requests, history>>

Starting == { p \in Process : main[p] = "starting" }

\* Two hours may have passed since the last EXPIRE, whosever it was, though
\* somebody is about to send one: the set goes, with those who have just been
\* added to it.  It does not while a reliable process runs, nor soon after the
\* EXPIRE of a pipeline whose handler is about to answer.
SetLapses ==
    /\ \A p \in Process : main[p] = "running" => p \in trouble
    /\ \A r \in requests : r.step \notin {"list", "get"}
    /\ SetExpires
    /\ lapsed' = lapsed \cup (Listed \cap Starting)
    /\ missed' = missed \cup { {p, q} : p \in Listed \cap Starting, q \in Starting }
    /\ UNCHANGED <<lifeVars, requests>>

InRedis(A) == A /\ UNCHANGED <<lifeVars, requests, history>>

Next ==
    \/ \E r \in requests : HandleAnnounce(r) \/ RequestFails(r)
    \/ \E p \in Process : ClientStep(p) \/ GrowsOld(p) \/ HashLapses(p)
    \/ SetLapses
    \/ InRedis(Cleanup)

Spec == Init /\ [][Next]_vars

\* Requests that do not fail are handled, tickers tick, time passes, hashes
\* that are due expire, and the cleanup, which cmd/tracker.go runs every five
\* minutes, reaches every hash with its SCAN.
Handled(p) == \E r \in requests : r.peer = p /\ HandleAnnounce(r)

FairSpec ==
    /\ Spec
    /\ \A p \in Process :
        /\ WF_vars(Handled(p))
        /\ WF_vars(Announces(p))
        /\ WF_vars(GrowsOld(p) /\ Over(p))
        /\ WF_vars(HashLapses(p) /\ Over(p))
        /\ SF_vars(InRedis(CleanupRead(p)))
    /\ WF_vars(InRedis(CleanupSRem \/ CleanupDel))

-----------------------------------------------------------------------------
Phase(p) ==
    CASE main[p] \in {"off", "listening"} -> "off"
      [] Over(p) -> "gone"
      [] OTHER -> main[p]

R == INSTANCE Rendezvous
     WITH Torrent <- [p \in Process |-> "the torrent"],
          Whole <- IF Cardinality(Process) <= NumWant THEN Process ELSE {},
          phase <- [p \in Process |-> Phase(p)], registered <- Listed

(* What the Redis storage keeps of the memory storage's promises (module   *)
(* Tracker), though it forgets by itself, keeps dead IDs in the set and    *)
(* lets commands interleave: a reliable process that is listed stays so    *)
(* while it runs, and of two of them one is told about the other.  Not so  *)
(* when the set expires between the SADD and the EXPIRE of a process that  *)
(* starts: until its next announce nobody is told of it.                   *)
Introduces == R!Spec

(* A process that runs and whose announces get through again ends up       *)
(* registered for good: a hash that expired, or was cleaned up under a     *)
(* fresh announce, is put back, and so is an ID that went with the set.    *)
ComesBack ==
    \A p \in Process :
        <>[](main[p] = "running" /\ p \notin trouble) => <>[](p \in Listed)

(* TTL-based cleanup: a process that is over is not handed out for ever,   *)
(* even if it never said "stopped", "stopped" was overtaken, or an announce*)
(* of it broke off before its hash got a time to live.                     *)
DeadForgotten == \A p \in Process : <>[](Over(p) => p \notin Listed)

=============================================================================
