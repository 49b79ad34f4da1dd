------------------------- MODULE RedisTrackerProofs -------------------------
(***************************************************************************)
(* The tracker with its Redis storage implements Rendezvous, whatever the  *)
(* number of processes and of peers in an answer.  A process that has      *)
(* asked to be admitted is in Redis from its first commands on, unless the *)
(* set expires under it; a reliable one stays there until it is over.      *)
(* Hence of two that ask at the same time the one that draws its list last *)
(* finds the other in it, if neither has lost its place.                   *)
(***************************************************************************)
EXTENDS RedisTracker, FiniteSetTheorems, TLAPS

\* The types that need no history and no other invariant.
Typed ==
    /\ RedisTypeOK
    /\ LifeTypeOK
    /\ requests \subseteq [peer : Process, event : Event, step : Step,
                           ids : SUBSET Process, found : SUBSET Process]

Unstarted(p) == main[p] \in {"off", "listening"}

Leaving(p) == main[p] \in {"stopping", "panicked", "exited"}

(* Nothing is known of a process before it announces itself.               *)
Unheard ==
    \A p \in Process :
        Unstarted(p) =>
            p \notin hash /\ cleaning # p /\ \A r \in requests : r.peer # p

(* "stopped" is sent on leaving, and nothing else removes a peer.          *)
StoppedLeaves ==
    \A r \in requests :
        r.event = "stopped" \/ r.step \in {"del", "srem"} =>
            r.event = "stopped" /\ r.step \in {"del", "srem"} /\ Leaving(r.peer)

(* A reliable process grows old, and is cleaned up, only when it is over.  *)
OldOver == \A p \in Process \ Lossy : p \in old \/ cleaning = p => Over(p)

CleanedNamed == cleaned => cleaning # NoProcess

(* A process whose first request is under way is as far in Redis as its    *)
(* commands have got, if the set has not expired since.                    *)
StartingStored ==
    \A r \in requests :
        main[r.peer] = "starting" =>
            /\ r.event = "started"
            /\ r.peer \notin old /\ cleaning # r.peer
            /\ r.step # "hset" => r.peer \in hash
            /\ r.step \notin {"hset", "sadd"} => r.peer \in members \cup lapsed

(* A reliable process that runs is listed, or will be with its next        *)
(* announce.                                                               *)
RunningListed ==
    \A p \in Process \ Lossy :
        main[p] = "running" => p \in hash /\ p \in members \cup lapsed

(* Who lost its place has missed everybody that starts before it is listed *)
(* again.                                                                  *)
HistoryOK ==
    /\ lapsed \subseteq Process \ Listed
    /\ missed \subseteq SUBSET Process
    /\ \A p \in lapsed : ~Unstarted(p) /\ ~Over(p)
    /\ \A pair \in missed : \A p \in pair : ~Over(p)
    /\ \A p \in lapsed, q \in Process : main[q] = "starting" => {p, q} \in missed

(* Who is found in Redis has started.                                      *)
FoundStarted == \A r \in requests : \A q \in r.found : ~Unstarted(q)

\* The peers of which r has answered, or will.
Covers(r) == r.ids \cup r.found

\* r draws its list for a process that starts and whose requests get through.
Admitting(r) == r.step = "get" /\ main[r.peer] = "starting" /\ r.peer \notin trouble

(* When a whole torrent fits in an answer: of two processes one of which   *)
(* starts, and the other starts or runs, one is told of the other, unless  *)
(* they missed each other.                                                 *)
StartersMeet ==
    Cardinality(Process) <= NumWant =>
        \A r, s \in requests :
            r.peer # s.peer /\ Admitting(r) /\ Admitting(s) =>
                s.peer \in Covers(r) \/ r.peer \in Covers(s) \/ {r.peer, s.peer} \in missed

RunnersMet ==
    Cardinality(Process) <= NumWant =>
        \A r \in requests, q \in Process \ Lossy :
            r.peer # q /\ Admitting(r) /\ main[q] = "running" =>
                q \in Covers(r) \/ r.peer \in knows[q] \/ {r.peer, q} \in missed

IInv ==
    /\ Typed
    /\ Unheard
    /\ StoppedLeaves
    /\ OldOver
    /\ CleanedNamed
    /\ StartingStored
    /\ RunningListed
    /\ HistoryOK
    /\ FoundStarted
    /\ StartersMeet
    /\ RunnersMet

-----------------------------------------------------------------------------
(* Types. *)

RequestSet ==
    [peer : Process, event : Event, step : Step, ids : SUBSET Process, found : SUBSET Process]

LEMMA RequestFields ==
    ASSUME NEW r \in RequestSet
    PROVE  /\ r.peer \in Process /\ r.event \in Event /\ r.step \in Step
           /\ r.ids \in SUBSET Process /\ r.found \in SUBSET Process
  BY DEF RequestSet

(* A request that goes on is the same request at another step.             *)
LEMMA Moved ==
    ASSUME NEW r \in RequestSet, NEW step \in Step
    PROVE  /\ [r EXCEPT !.step = step] \in RequestSet
           /\ [r EXCEPT !.step = step].peer = r.peer
           /\ [r EXCEPT !.step = step].event = r.event
           /\ [r EXCEPT !.step = step].step = step
           /\ [r EXCEPT !.step = step].ids = r.ids
           /\ [r EXCEPT !.step = step].found = r.found
  BY DEF RequestSet

LEMMA NewRequest ==
    ASSUME NEW p \in Process, NEW event \in Event
    PROVE  /\ Request(p, event) \in RequestSet
           /\ Request(p, event).peer = p /\ Request(p, event).event = event
           /\ Request(p, event).step = IF event = "stopped" THEN "del" ELSE "hset"
           /\ Request(p, event).ids = {} /\ Request(p, event).found = {}
  BY DEF Request, RequestSet, Step

LEMMA RequestsType == Typed <=> RedisTypeOK /\ LifeTypeOK /\ requests \subseteq RequestSet
  BY DEF Typed, RequestSet

LEMMA TypeInit == Init => Typed
  BY LifecycleConstants
     DEF Init, RedisInit, LifeInit, Typed, RedisTypeOK, LifeTypeOK, Main, Handler

(* The commands, by what they do to Redis.                                 *)
LEMMA RedisTypeStep ==
    ASSUME RedisTypeOK,
           \/ UNCHANGED redisVars
           \/ \E p \in Process : \/ HSet(p) \/ SAdd(p) \/ Expire(p) \/ Del(p) \/ SRem(p)
                                 \/ HashExpires(p)
           \/ SetExpires
           \/ Cleanup
           \/ \E p \in hash : /\ old' = old \cup {p}
                            /\ UNCHANGED <<hash, ttl, members, setTtl, cleaning, cleaned>>
    PROVE  RedisTypeOK'
<1>1. CASE UNCHANGED redisVars
  BY <1>1 DEF RedisTypeOK, redisVars
<1>2. ASSUME NEW p \in Process, HSet(p) PROVE RedisTypeOK'
  BY <1>2 DEF RedisTypeOK, HSet
<1>3. ASSUME NEW p \in Process, SAdd(p) PROVE RedisTypeOK'
  BY <1>3 DEF RedisTypeOK, SAdd
<1>4. ASSUME NEW p \in Process, Expire(p) PROVE RedisTypeOK'
  BY <1>4 DEF RedisTypeOK, Expire
<1>5. ASSUME NEW p \in Process, Del(p) \/ HashExpires(p) PROVE RedisTypeOK'
  BY <1>5 DEF RedisTypeOK, HashExpires, Del, DropHash
<1>6. ASSUME NEW p \in Process, SRem(p) PROVE RedisTypeOK'
  BY <1>6 DEF RedisTypeOK, SRem, DropMember
<1>7. CASE SetExpires
  BY <1>7 DEF RedisTypeOK, SetExpires
<1>8. CASE Cleanup
  <2>1. ASSUME NEW p \in Process, CleanupRead(p) PROVE RedisTypeOK'
    BY <2>1 DEF RedisTypeOK, CleanupRead
  <2>2. CASE CleanupSRem
    BY <2>2 DEF RedisTypeOK, CleanupSRem, DropMember
  <2>3. CASE CleanupDel
    BY <2>3 DEF RedisTypeOK, CleanupDel, DropHash
  <2> QED
    BY <1>8, <2>1, <2>2, <2>3 DEF Cleanup
<1>9. ASSUME NEW p \in hash, old' = old \cup {p},
             UNCHANGED <<hash, ttl, members, setTtl, cleaning, cleaned>>
      PROVE  RedisTypeOK'
  BY <1>9 DEF RedisTypeOK
<1> QED
  BY <1>1, <1>2, <1>3, <1>4, <1>5, <1>6, <1>7, <1>8, <1>9

LEMMA LifeTypeStep ==
    ASSUME LifeTypeOK,
           \/ UNCHANGED lifeVars
           \/ \E p \in Process : \/ LifeAlone(p) \/ StartFails(p) \/ AnnounceStarted(p)
                                 \/ LeaveLoop(p) \/ DeferredStop(p)
                                 \/ \E nodes \in SUBSET Process : Enter(p, nodes)
    PROVE  LifeTypeOK'
  BY DEF LifeTypeOK, lifeVars, LifeAlone, Listen, Signal, CloseListener, OsExit, Crash, Recover,
     StartFails, AnnounceStarted, LeaveLoop, DeferredStop, Enter, Moves, Dies, Main, Handler

\* r has gone on to a step, if it is not over; the other requests are as before.
GoesOn(r, step) ==
    \A x \in requests' :
        \/ x \in requests
        \/ x.peer = r.peer /\ x.event = r.event /\ x.step = step /\ x.found = r.found

(* What a handler's step does to the requests.                             *)
LEMMA RunsRequests ==
    ASSUME requests \subseteq RequestSet, NEW r \in requests, NEW step, NEW next \in Step,
           Runs(r, step, next)
    PROVE  requests' \subseteq RequestSet /\ r.step = step /\ GoesOn(r, next)
<1>1. r \in RequestSet
  OBVIOUS
<1> DEFINE y == [r EXCEPT !.step = next]
<1>2. requests' = (requests \ {r}) \cup {y} /\ r.step = step
  BY DEF Runs
<1>3. /\ y \in RequestSet /\ y.peer = r.peer /\ y.event = r.event /\ y.step = next
      /\ y.ids = r.ids /\ y.found = r.found
  BY <1>1, Moved
<1> HIDE DEF y
<1> QED
  BY <1>2, <1>3 DEF GoesOn

LEMMA EndsRequests ==
    ASSUME requests \subseteq RequestSet, NEW r \in requests, NEW step, NEW next, Ends(r, step)
    PROVE  requests' \subseteq RequestSet /\ r.step = step /\ GoesOn(r, next)
  BY DEF Ends, GoesOn

LEMMA DrawRequests ==
    ASSUME Typed, NEW r \in requests, DrawPeers(r)
    PROVE  /\ r.step = "list"
           /\ UNCHANGED <<redisVars, lifeVars, history>>
           /\ requests' \subseteq RequestSet
           /\ \E ids \in SRandMember : \A x \in requests' :
                 \/ x \in requests
                 \/ /\ x.peer = r.peer /\ x.event = r.event /\ x.step = "get"
                    /\ x.ids = ids /\ x.found = r.found
<1>1. r \in RequestSet /\ requests \subseteq RequestSet /\ members \subseteq Process
  BY RequestsType DEF RedisTypeOK
<1>2. PICK ids \in SRandMember :
         requests' = (requests \ {r}) \cup {[r EXCEPT !.step = "get", !.ids = ids]}
  BY DEF DrawPeers
<1>3. ids \in SUBSET Process
  BY <1>1 DEF SRandMember
<1> DEFINE x == [r EXCEPT !.step = "get", !.ids = ids]
<1>4. /\ x \in RequestSet /\ x.peer = r.peer /\ x.event = r.event /\ x.step = "get"
      /\ x.ids = ids /\ x.found = r.found
  BY <1>1, <1>3 DEF RequestSet, Step
<1>5. requests' = (requests \ {r}) \cup {x}
  BY <1>2
<1> HIDE DEF x
<1> QED
  BY <1>1, <1>2, <1>4, <1>5 DEF DrawPeers

(* Reading one hash: the ID is found if its hash is there, and passed over *)
(* in silence only when requests of this client may fail.                  *)
LEMMA GetRequests ==
    ASSUME Typed, NEW r \in requests, NEW q \in Process, GetPeer(r, q)
    PROVE  /\ r.step = "get" /\ q \in r.ids
           /\ UNCHANGED <<redisVars, lifeVars, history>>
           /\ requests' \subseteq RequestSet
           /\ \A x \in requests' :
                 \/ x \in requests
                 \/ /\ x.peer = r.peer /\ x.event = r.event /\ x.step = "get"
                    /\ x.ids = r.ids \ {q}
                    /\ x.found \subseteq r.found \cup (hash \cap {q}) /\ r.found \subseteq x.found
                    /\ r.peer \notin trouble => x.found = r.found \cup ({q} \cap hash)
<1>1. r \in RequestSet /\ requests \subseteq RequestSet
  BY RequestsType
<1> DEFINE read == [r EXCEPT !.ids = @ \ {q}, !.found = @ \cup ({q} \cap hash)]
           skipped == [r EXCEPT !.ids = @ \ {q}]
<1>2. /\ r.step = "get" /\ q \in r.ids
      /\ UNCHANGED <<redisVars, lifeVars, history>>
      /\ \/ requests' = (requests \ {r}) \cup {read}
         \/ r.peer \in trouble /\ requests' = (requests \ {r}) \cup {skipped}
  BY DEF GetPeer
<1>3. /\ read \in RequestSet /\ read.peer = r.peer /\ read.event = r.event /\ read.step = r.step
      /\ read.ids = r.ids \ {q} /\ read.found = r.found \cup ({q} \cap hash)
  BY <1>1 DEF RequestSet
<1>4. /\ skipped \in RequestSet /\ skipped.peer = r.peer /\ skipped.event = r.event
      /\ skipped.step = r.step /\ skipped.ids = r.ids \ {q} /\ skipped.found = r.found
  BY <1>1 DEF RequestSet
<1> HIDE DEF read, skipped
<1> QED
  BY <1>1, <1>2, <1>3, <1>4

LEMMA SendsRequests ==
    ASSUME Typed, NEW p \in Process, NEW event \in Event, Sends(p, event)
    PROVE  /\ requests' \subseteq RequestSet
           /\ requests \subseteq requests'
           /\ \A x \in requests' :
                 \/ x \in requests
                 \/ /\ x.peer = p /\ x.event = event
                    /\ x.step = IF event = "stopped" THEN "del" ELSE "hset"
                    /\ x.ids = {} /\ x.found = {}
  BY NewRequest, RequestsType DEF Sends

(* The steps of the handlers that write to Redis.                          *)
LEMMA AddPeerEffect ==
    ASSUME Typed, NEW r \in requests, AddPeer(r)
    PROVE  /\ UNCHANGED lifeVars /\ lapsed' = lapsed \ Listed' /\ missed' = missed
           /\ requests' \subseteq RequestSet /\ r.peer \in Process
           /\ \/ HSet(r.peer) /\ r.step = "hset" /\ GoesOn(r, "sadd")
              \/ SAdd(r.peer) /\ r.step = "sadd" /\ GoesOn(r, "expire")
              \/ Expire(r.peer) /\ r.step = "expire" /\ GoesOn(r, "list")
<1>1. requests \subseteq RequestSet /\ r.peer \in Process
  BY RequestsType, RequestFields
<1>2. "sadd" \in Step /\ "expire" \in Step /\ "list" \in Step
  BY DEF Step
<1>3. UNCHANGED lifeVars /\ lapsed' = lapsed \ Listed' /\ missed' = missed
  BY DEF AddPeer
<1>4. CASE Runs(r, "hset", "sadd") /\ HSet(r.peer)
  BY <1>1, <1>2, <1>3, <1>4, RunsRequests
<1>5. CASE Runs(r, "sadd", "expire") /\ SAdd(r.peer)
  BY <1>1, <1>2, <1>3, <1>5, RunsRequests
<1>6. CASE Runs(r, "expire", "list") /\ Expire(r.peer)
  BY <1>1, <1>2, <1>3, <1>6, RunsRequests
<1>7. CASE Ends(r, "expire") /\ Expire(r.peer)
  BY <1>1, <1>3, <1>7, EndsRequests
<1> QED
  BY <1>4, <1>5, <1>6, <1>7 DEF AddPeer, AfterAddPeer

LEMMA RemovePeerEffect ==
    ASSUME Typed, NEW r \in requests, RemovePeer(r)
    PROVE  /\ UNCHANGED <<lifeVars, history>>
           /\ requests' \subseteq RequestSet /\ r.peer \in Process
           /\ Del(r.peer) \/ SRem(r.peer)
           /\ r.step \in {"del", "srem"} /\ GoesOn(r, "srem")
<1>1. requests \subseteq RequestSet /\ r.peer \in Process /\ "srem" \in Step
  BY RequestsType, RequestFields DEF Step
<1>2. UNCHANGED <<lifeVars, history>>
  BY DEF RemovePeer
<1>3. CASE Runs(r, "del", "srem") /\ Del(r.peer)
  BY <1>1, <1>2, <1>3, RunsRequests
<1>4. CASE Ends(r, "srem") /\ SRem(r.peer)
  BY <1>1, <1>2, <1>4, EndsRequests
<1> QED
  BY <1>3, <1>4 DEF RemovePeer

(* What a client's step does to Redis' view of the processes: nothing, but *)
(* that a request may be new, and then says where its process is.          *)
LEMMA ClientEffect ==
    ASSUME Typed, NEW p \in Process, ClientStep(p)
    PROVE  /\ UNCHANGED redisVars /\ LifeTypeOK'
           /\ requests' \subseteq RequestSet
           /\ \A q \in Process :
                 /\ ~Over(q)' => knows'[q] = knows[q]
                 /\ Unstarted(q)' => Unstarted(q)
                 /\ Leaving(q) => Leaving(q)'
                 /\ Over(q) => Over(q)'
                 /\ main'[q] = "running" => main[q] = "running"
                 /\ main'[q] = "starting" =>
                       \/ main[q] = "starting" /\ (q \in trouble => q \in trouble')
                       \/ Unstarted(q)
           /\ \A x \in requests' :
                 \/ x \in requests
                 \/ /\ ~Unstarted(x.peer)' /\ x.found = {}
                    /\ x.step = IF x.event = "stopped" THEN "del" ELSE "hset"
                    /\ x.event = "stopped" => Leaving(x.peer)'
                    /\ main'[x.peer] = "starting" => x.event = "started" /\ Unstarted(x.peer)
<1>1. /\ requests \subseteq RequestSet /\ LifeTypeOK
      /\ main \in [Process -> Main] /\ {"started", "", "stopped"} = Event
  BY RequestsType DEF LifeTypeOK, Event
<1>2. CASE Starts(p)
  <2>1. /\ main[p] = "listening" /\ main' = [main EXCEPT ![p] = "starting"]
        /\ UNCHANGED <<signal, knows, trouble, redisVars>> /\ Sends(p, "started")
        /\ AnnounceStarted(p)
    BY <1>2 DEF Starts, AnnounceStarted, Moves
  <2>2. LifeTypeOK'
    BY <1>1, <2>1, LifeTypeStep
  <2>3. /\ requests' \subseteq RequestSet
        /\ \A x \in requests' :
              \/ x \in requests
              \/ x.peer = p /\ x.event = "started" /\ x.step = "hset" /\ x.found = {}
    BY <1>1, <2>1, SendsRequests
  <2> QED
    BY <1>1, <2>1, <2>2, <2>3 DEF Unstarted, Leaving, Over
<1>3. CASE Announces(p)
  <2>1. main[p] \in {"running", "stopping"} /\ UNCHANGED <<lifeVars, redisVars>> /\ Sends(p, "")
    BY <1>3 DEF Announces
  <2>2. LifeTypeOK' /\ main' = main /\ knows' = knows /\ trouble' = trouble
    BY <1>1, <2>1, LifeTypeStep DEF lifeVars
  <2>3. /\ requests' \subseteq RequestSet
        /\ \A x \in requests' :
              \/ x \in requests
              \/ x.peer = p /\ x.event = "" /\ x.step = "hset" /\ x.found = {}
    BY <1>1, <2>1, SendsRequests
  <2> QED
    BY <1>1, <2>1, <2>2, <2>3 DEF Unstarted, Leaving, Over
<1>4. CASE Stops(p)
  <2>1. /\ main[p] = "running" /\ main' = [main EXCEPT ![p] = "stopping"]
        /\ UNCHANGED <<signal, knows, trouble, redisVars>> /\ Sends(p, "stopped")
        /\ LeaveLoop(p)
    BY <1>4 DEF Stops, LeaveLoop, Moves
  <2>2. LifeTypeOK'
    BY <1>1, <2>1, LifeTypeStep
  <2>3. /\ requests' \subseteq RequestSet
        /\ \A x \in requests' :
              \/ x \in requests
              \/ x.peer = p /\ x.event = "stopped" /\ x.step = "del" /\ x.found = {}
    BY <1>1, <2>1, SendsRequests
  <2> QED
    BY <1>1, <2>1, <2>2, <2>3 DEF Unstarted, Leaving, Over
<1>5. CASE \/ Returns(p)
           \/ (LifeAlone(p) \/ StartFails(p)) /\ Forgotten /\ UNCHANGED <<redisVars, requests>>
  <2>1. /\ DeferredStop(p) \/ LifeAlone(p) \/ StartFails(p)
        /\ UNCHANGED <<redisVars, requests>>
    BY <1>5 DEF Returns
  <2>2. LifeTypeOK'
    BY <1>1, <2>1, LifeTypeStep
  <2>3. \A q \in Process : ~Over(q)' => knows'[q] = knows[q]
    BY <1>1, <2>1 DEF DeferredStop, LifeAlone, Listen, Signal, CloseListener, OsExit, Crash,
       Recover, StartFails, Moves, Dies, Over, LifeTypeOK
  <2>4. \A q \in Process :
                 /\ Unstarted(q)' => Unstarted(q)
                 /\ Leaving(q) => Leaving(q)'
                 /\ Over(q) => Over(q)'
                 /\ main'[q] = "running" => main[q] = "running"
                 /\ main'[q] = "starting" =>
                       main[q] = "starting" /\ (q \in trouble => q \in trouble')
    BY <1>1, <2>1 DEF DeferredStop, LifeAlone, Listen, Signal, CloseListener, OsExit, Crash,
       Recover, StartFails, Moves, Dies, Unstarted, Leaving, Over, Main
  <2> QED
    BY <1>1, <2>1, <2>2, <2>3, <2>4
<1> QED
  BY <1>2, <1>3, <1>4, <1>5 DEF ClientStep

(* Of what is remembered only the dead are dropped, and who starts has     *)
(* missed all that have lost their place.                                  *)
LEMMA ClientHistory ==
    ASSUME Typed, HistoryOK, NEW p \in Process, ClientStep(p)
    PROVE  /\ HistoryOK'
           /\ \A q \in lapsed : ~Over(q)' => q \in lapsed'
           /\ \A pair \in missed : (\A q \in pair : ~Over(q)') => pair \in missed'
<1>1. Listed' = Listed
  BY ClientEffect DEF redisVars, Listed
<1>2. \A q \in Process : (Unstarted(q)' => Unstarted(q)) /\ (Over(q) => Over(q)')
  BY ClientEffect
<1>3. main \in [Process -> Main] /\ lapsed \subseteq Process /\ missed \subseteq SUBSET Process
  BY RequestsType DEF LifeTypeOK, HistoryOK
<1>4. CASE Starts(p)
  <2>1. /\ main[p] = "listening" /\ main' = [main EXCEPT ![p] = "starting"]
        /\ lapsed' = lapsed /\ missed' = missed \cup { {p, q} : q \in lapsed }
    BY <1>4 DEF Starts, AnnounceStarted, Moves
  <2>2. /\ main'[p] = "starting"
        /\ \A q \in Process : q # p => main'[q] = main[q]
    BY <1>3, <2>1
  <2>3. \A q \in lapsed : q # p /\ ~Unstarted(q)' /\ ~Over(q)'
    BY <1>3, <2>1, <2>2 DEF HistoryOK, Unstarted, Over
  <2>4. ~Over(p)' /\ \A q \in Process : ~Over(q) => ~Over(q)'
    BY <2>2 DEF Over
  <2>5. ASSUME NEW pair \in missed' PROVE pair \in SUBSET Process /\ \A q \in pair : ~Over(q)'
    <3>1. CASE pair \in missed
      BY <1>3, <2>4, <3>1 DEF HistoryOK
    <3>2. CASE pair \notin missed
      <4>1. PICK q \in lapsed : pair = {p, q}
        BY <2>1, <3>2
      <4> QED
        BY <1>3, <2>3, <2>4, <4>1
    <3> QED
      BY <3>1, <3>2
  <2>6. ASSUME NEW a \in lapsed, NEW b \in Process, main'[b] = "starting" PROVE {a, b} \in missed'
    <3>1. CASE b = p
      <4>1. {a, b} = {p, a}
        BY <3>1
      <4> QED
        BY <2>1, <4>1
    <3>2. CASE b # p
      BY <2>1, <2>2, <2>6, <3>2 DEF HistoryOK
    <3> QED
      BY <3>1, <3>2
  <2>7. HistoryOK'
    BY <1>1, <2>1, <2>3, <2>5, <2>6 DEF HistoryOK
  <2> QED
    BY <2>1, <2>7
<1>5. CASE Announces(p) \/ Stops(p)
  <2>1. /\ lapsed' = lapsed /\ missed' = missed
        /\ \/ main' = main
           \/ main[p] = "running" /\ main' = [main EXCEPT ![p] = "stopping"]
    BY <1>5 DEF Announces, Stops, LeaveLoop, Moves, history, lifeVars
  <2>2. \A q \in Process : /\ Over(q)' => Over(q)
                           /\ main'[q] = "starting" => main[q] = "starting"
    BY <1>3, <2>1 DEF Over
  <2>3. HistoryOK'
    BY <1>1, <1>2, <1>3, <2>1, <2>2 DEF HistoryOK
  <2> QED
    BY <2>1, <2>3
<1>6. CASE \/ Returns(p)
           \/ (LifeAlone(p) \/ StartFails(p)) /\ Forgotten /\ UNCHANGED <<redisVars, requests>>
  <2>1. /\ DeferredStop(p) \/ LifeAlone(p) \/ StartFails(p)
        /\ lapsed' = { q \in lapsed : ~Over(q)' }
        /\ missed' = { pair \in missed : \A q \in pair : ~Over(q)' }
    BY <1>6 DEF Returns, Forgotten
  <2>2. \A q \in Process : main'[q] = "starting" => main[q] = "starting"
    BY <1>3, <2>1 DEF DeferredStop, LifeAlone, Listen, Signal, CloseListener, OsExit, Crash,
       Recover, StartFails, Moves, Dies
  <2>3. ASSUME NEW a \in lapsed', NEW b \in Process, main'[b] = "starting" PROVE {a, b} \in missed'
    <3>1. {a, b} \in missed
      BY <2>1, <2>2, <2>3 DEF HistoryOK
    <3>2. ~Over(a)' /\ ~Over(b)'
      BY <2>1, <2>3 DEF Over
    <3> QED
      BY <2>1, <3>1, <3>2
  <2>4. /\ lapsed' \subseteq lapsed /\ missed' \subseteq missed
        /\ \A q \in lapsed' : ~Over(q)'
        /\ \A pair \in missed' : \A q \in pair : ~Over(q)'
    BY <2>1
  <2>5. \A q \in lapsed' : ~Unstarted(q)'
    BY <1>2, <1>3, <2>4 DEF HistoryOK
  <2>6. lapsed' \subseteq Process \ Listed' /\ missed' \subseteq SUBSET Process
    BY <1>1, <1>3, <2>4 DEF HistoryOK
  <2>7. HistoryOK'
    BY <2>3, <2>4, <2>5, <2>6 DEF HistoryOK
  <2>8. /\ \A q \in lapsed : ~Over(q)' => q \in lapsed'
        /\ \A pair \in missed : (\A q \in pair : ~Over(q)') => pair \in missed'
    BY <2>1
  <2> QED
    BY <2>7, <2>8
<1> QED
  BY <1>4, <1>5, <1>6 DEF ClientStep

LEMMA ClientPreserves ==
    ASSUME IInv, NEW p \in Process, ClientStep(p) PROVE IInv'
<1>0. /\ Typed /\ Unheard /\ StoppedLeaves /\ OldOver /\ CleanedNamed /\ StartingStored
      /\ RunningListed /\ HistoryOK /\ FoundStarted /\ StartersMeet /\ RunnersMet
      /\ requests \subseteq RequestSet /\ RedisTypeOK
  BY RequestsType DEF IInv
<1>1. /\ hash' = hash /\ old' = old /\ ttl' = ttl /\ members' = members
      /\ setTtl' = setTtl /\ cleaning' = cleaning /\ cleaned' = cleaned
      /\ LifeTypeOK' /\ requests' \subseteq RequestSet
  BY <1>0, ClientEffect DEF redisVars
<1>2. \A q \in Process :
          /\ ~Over(q)' => knows'[q] = knows[q]
          /\ Unstarted(q)' => Unstarted(q)
          /\ Leaving(q) => Leaving(q)'
          /\ Over(q) => Over(q)'
          /\ main'[q] = "running" => main[q] = "running"
          /\ main'[q] = "starting" =>
                \/ main[q] = "starting" /\ (q \in trouble => q \in trouble')
                \/ Unstarted(q)
  BY <1>0, ClientEffect
<1>3. \A x \in requests' :
          \/ x \in requests
          \/ /\ ~Unstarted(x.peer)' /\ x.found = {}
             /\ x.step = IF x.event = "stopped" THEN "del" ELSE "hset"
             /\ x.event = "stopped" => Leaving(x.peer)'
             /\ main'[x.peer] = "starting" => x.event = "started" /\ Unstarted(x.peer)
  BY <1>0, ClientEffect
<1>4. \A x \in requests' : x.peer \in Process /\ x.found \subseteq Process
  BY <1>1, RequestFields
<1>0a. /\ HistoryOK'
       /\ \A q \in lapsed : ~Over(q)' => q \in lapsed'
       /\ \A pair \in missed : (\A q \in pair : ~Over(q)') => pair \in missed'
  BY <1>0, ClientHistory
<1>0b. \A q \in Process : main'[q] \in {"starting", "running"} => ~Over(q)'
  BY DEF Over
<1>5. Typed'
  BY <1>0, <1>1 DEF Typed, RequestSet, RedisTypeOK
<1>6. Unheard'
  BY <1>0, <1>1, <1>2, <1>3, <1>4 DEF Unheard
<1>7. StoppedLeaves'
  BY <1>0, <1>2, <1>3, <1>4 DEF StoppedLeaves
<1>8. OldOver' /\ CleanedNamed'
  BY <1>0, <1>1, <1>2 DEF OldOver, CleanedNamed
<1>9. StartingStored'
  <2> SUFFICES ASSUME NEW x \in requests', main'[x.peer] = "starting"
               PROVE  /\ x.event = "started"
                      /\ x.peer \notin old' /\ cleaning' # x.peer
                      /\ x.step # "hset" => x.peer \in hash'
                      /\ x.step \notin {"hset", "sadd"} => x.peer \in members' \cup lapsed'
    BY DEF StartingStored
  <2>1. CASE x \in requests
    <3>1. main[x.peer] = "starting"
      BY <1>0, <1>2, <1>4, <2>1 DEF Unheard
    <3>2. x.peer \in lapsed => x.peer \in lapsed'
      BY <1>0a, <1>0b, <1>4
    <3> QED
      BY <1>0, <1>1, <2>1, <3>1, <3>2 DEF StartingStored
  <2>2. CASE x \notin requests
    <3>1. Unstarted(x.peer) /\ x.event = "started" /\ x.step = "hset"
      BY <1>3, <2>2
    <3>2. x.peer \notin hash /\ cleaning # x.peer
      BY <1>0, <1>4, <3>1 DEF Unheard
    <3> QED
      BY <1>0, <1>1, <3>1, <3>2 DEF RedisTypeOK
  <2> QED
    BY <2>1, <2>2
<1>10. RunningListed'
  BY <1>0, <1>0a, <1>0b, <1>1, <1>2 DEF RunningListed
<1>11. FoundStarted'
  BY <1>0, <1>2, <1>3, <1>4 DEF FoundStarted
<1>12. \A x \in requests' : Admitting(x)' => x \in requests /\ Admitting(x)
  <2> SUFFICES ASSUME NEW x \in requests', Admitting(x)' PROVE x \in requests /\ Admitting(x)
    OBVIOUS
  <2>1. x.step = "get" /\ main'[x.peer] = "starting" /\ x.peer \notin trouble'
    BY DEF Admitting
  <2>2. x \in requests
    BY <1>3, <2>1
  <2>3. ~Unstarted(x.peer)
    BY <1>0, <1>4, <2>2 DEF Unheard
  <2> QED
    BY <1>2, <1>4, <2>1, <2>2, <2>3 DEF Admitting
<1>13. StartersMeet'
  <2> SUFFICES ASSUME Cardinality(Process) <= NumWant, NEW x \in requests', NEW y \in requests',
                      x.peer # y.peer, Admitting(x)', Admitting(y)'
               PROVE  \/ y.peer \in Covers(x) \/ x.peer \in Covers(y)
                      \/ {x.peer, y.peer} \in missed'
    BY DEF StartersMeet, Covers
  <2>1. \/ y.peer \in Covers(x) \/ x.peer \in Covers(y)
        \/ {x.peer, y.peer} \in missed
    BY <1>0, <1>12 DEF StartersMeet
  <2>2. ~Over(x.peer)' /\ ~Over(y.peer)'
    BY <1>0b, <1>4 DEF Admitting
  <2> QED
    BY <1>0a, <2>1, <2>2
<1>14. RunnersMet'
  <2> SUFFICES ASSUME Cardinality(Process) <= NumWant, NEW x \in requests',
                      NEW q \in Process \ Lossy,
                      x.peer # q, Admitting(x)', main'[q] = "running"
               PROVE  q \in Covers(x) \/ x.peer \in knows'[q] \/ {x.peer, q} \in missed'
    BY DEF RunnersMet, Covers
  <2>1. ~Over(x.peer)' /\ ~Over(q)' /\ main[q] = "running"
    BY <1>0b, <1>2, <1>4 DEF Admitting
  <2>2. q \in Covers(x) \/ x.peer \in knows[q] \/ {x.peer, q} \in missed
    BY <1>0, <1>12, <2>1 DEF RunnersMet
  <2> QED
    BY <1>0a, <1>2, <2>1, <2>2
<1> QED
  BY <1>0a, <1>5, <1>6, <1>7, <1>8, <1>9, <1>10, <1>11, <1>13, <1>14 DEF IInv

-----------------------------------------------------------------------------
(* Steps that write to Redis.                                              *)

(* No process moves and no list is drawn or read: what is said of requests *)
(* alone stays so.                                                         *)
LEMMA RequestsKept ==
    ASSUME IInv, UNCHANGED lifeVars, missed' = missed,
           \A x \in requests' :
              \/ x \in requests
              \/ \E r \in requests :
                    /\ x.peer = r.peer /\ x.event = r.event /\ x.found = r.found
                    /\ x.step # "get" /\ (x.step \in {"del", "srem"} <=> r.step \in {"del", "srem"})
    PROVE  StoppedLeaves' /\ FoundStarted' /\ StartersMeet' /\ RunnersMet'
<1>0. StoppedLeaves /\ FoundStarted /\ StartersMeet /\ RunnersMet
  BY DEF IInv
<1>1. main' = main /\ knows' = knows /\ trouble' = trouble
  BY DEF lifeVars
<1>2. StoppedLeaves'
  BY <1>0, <1>1 DEF StoppedLeaves, Leaving
<1>3. FoundStarted'
  BY <1>0, <1>1 DEF FoundStarted, Unstarted
<1>4. \A x \in requests' : Admitting(x)' => x \in requests /\ Admitting(x)
  BY <1>1 DEF Admitting
<1>5. StartersMeet'
  BY <1>0, <1>4 DEF StartersMeet, Covers
<1>6. RunnersMet'
  BY <1>0, <1>1, <1>4 DEF RunnersMet, Covers
<1> QED
  BY <1>2, <1>3, <1>5, <1>6

LEMMA StepKinds ==
    ASSUME NEW r \in requests, NEW step \in Step \ {"get"}, GoesOn(r, step),
           step \in {"del", "srem"} <=> r.step \in {"del", "srem"}
    PROVE  \A x \in requests' :
              \/ x \in requests
              \/ \E s \in requests :
                    /\ x.peer = s.peer /\ x.event = s.event /\ x.found = s.found
                    /\ x.step # "get" /\ (x.step \in {"del", "srem"} <=> s.step \in {"del", "srem"})
  BY DEF GoesOn

LEMMA AddPeerPreserves ==
    ASSUME IInv, NEW r \in requests, AddPeer(r) PROVE IInv'
<1>0. /\ Typed /\ Unheard /\ OldOver /\ CleanedNamed /\ StartingStored /\ RunningListed
      /\ HistoryOK /\ requests \subseteq RequestSet /\ RedisTypeOK /\ LifeTypeOK
  BY RequestsType DEF IInv
<1>1. /\ UNCHANGED lifeVars /\ requests' \subseteq RequestSet /\ r.peer \in Process
      /\ lapsed' = lapsed \ Listed' /\ missed' = missed
      /\ \/ HSet(r.peer) /\ r.step = "hset" /\ GoesOn(r, "sadd")
         \/ SAdd(r.peer) /\ r.step = "sadd" /\ GoesOn(r, "expire")
         \/ Expire(r.peer) /\ r.step = "expire" /\ GoesOn(r, "list")
  BY <1>0, AddPeerEffect
<1>2. main' = main /\ trouble' = trouble /\ knows' = knows
  BY <1>1 DEF lifeVars
<1>3. PICK step \in {"sadd", "expire", "list"} : GoesOn(r, step)
  BY <1>1
<1>4. StoppedLeaves' /\ FoundStarted' /\ StartersMeet' /\ RunnersMet'
  <2>1. step \in Step \ {"get"} /\ step \notin {"del", "srem"} /\ r.step \notin {"del", "srem"}
    BY <1>1 DEF Step
  <2> QED
    BY <1>1, <1>3, <2>1, StepKinds, RequestsKept
<1>5. Typed'
  <2>1. RedisTypeOK'
    BY <1>0, <1>1, RedisTypeStep
  <2>2. LifeTypeOK'
    BY <1>0, <1>1, LifeTypeStep
  <2> QED
    BY <1>1, <2>1, <2>2 DEF Typed, RequestSet
<1>6. /\ hash \subseteq hash' /\ hash' \subseteq hash \cup {r.peer}
      /\ members \subseteq members' /\ members' \subseteq members \cup {r.peer}
      /\ old' \subseteq old /\ cleaning' = cleaning /\ cleaned' = cleaned
  BY <1>1 DEF HSet, SAdd, Expire
<1>7. ~Unstarted(r.peer)
  BY <1>0, <1>1 DEF Unheard
<1>8. \A x \in requests' : x \in requests \/ x.peer = r.peer
  BY <1>3 DEF GoesOn
<1>9. Unheard'
  BY <1>0, <1>2, <1>6, <1>7, <1>8 DEF Unheard, Unstarted
<1>10. OldOver' /\ CleanedNamed'
  BY <1>0, <1>2, <1>6 DEF OldOver, CleanedNamed, Over
<1>6a. members \cup lapsed \subseteq members' \cup lapsed'
  BY <1>1, <1>6 DEF Listed
<1>6b. HistoryOK'
  BY <1>0, <1>1, <1>2 DEF HistoryOK, Unstarted, Over
<1>11. RunningListed'
  BY <1>0, <1>2, <1>6, <1>6a DEF RunningListed
<1>12. StartingStored'
  <2> SUFFICES ASSUME NEW x \in requests', main'[x.peer] = "starting"
               PROVE  /\ x.event = "started"
                      /\ x.peer \notin old' /\ cleaning' # x.peer
                      /\ x.step # "hset" => x.peer \in hash'
                      /\ x.step \notin {"hset", "sadd"} => x.peer \in members' \cup lapsed'
    BY DEF StartingStored
  <2>1. CASE x \in requests
    BY <1>0, <1>2, <1>6, <1>6a, <2>1 DEF StartingStored
  <2>2. CASE x \notin requests
    <3>1. x.peer = r.peer /\ x.event = r.event
      BY <1>3, <2>2 DEF GoesOn
    <3>2. /\ r.event = "started"
          /\ r.peer \notin old /\ cleaning # r.peer
          /\ r.step # "hset" => r.peer \in hash
          /\ r.step \notin {"hset", "sadd"} => r.peer \in members \cup lapsed
      BY <1>0, <1>2, <3>1 DEF StartingStored
    <3>3. CASE HSet(r.peer) /\ r.step = "hset" /\ GoesOn(r, "sadd")
      <4>1. x.step = "sadd" /\ r.peer \in hash'
        BY <2>2, <3>3 DEF GoesOn, HSet
      <4> QED
        BY <1>6, <3>1, <3>2, <4>1
    <3>4. CASE SAdd(r.peer) /\ r.step = "sadd" /\ GoesOn(r, "expire")
      <4>1. r.peer \in members'
        BY <3>4 DEF SAdd
      <4> QED
        BY <1>6, <3>1, <3>2, <3>4, <4>1
    <3>5. CASE Expire(r.peer) /\ r.step = "expire" /\ GoesOn(r, "list")
      BY <1>6, <1>6a, <3>1, <3>2, <3>5
    <3> QED
      BY <1>1, <3>3, <3>4, <3>5
  <2> QED
    BY <2>1, <2>2
<1> QED
  BY <1>4, <1>5, <1>6b, <1>9, <1>10, <1>11, <1>12 DEF IInv

(* Only a process that is leaving is taken out.                            *)
LEMMA RemovePeerPreserves ==
    ASSUME IInv, NEW r \in requests, RemovePeer(r) PROVE IInv'
<1>0. /\ Typed /\ Unheard /\ OldOver /\ CleanedNamed /\ StartingStored /\ RunningListed
      /\ StoppedLeaves /\ HistoryOK
      /\ requests \subseteq RequestSet /\ RedisTypeOK /\ LifeTypeOK
  BY RequestsType DEF IInv
<1>1. /\ UNCHANGED <<lifeVars, history>>
      /\ requests' \subseteq RequestSet /\ r.peer \in Process
      /\ Del(r.peer) \/ SRem(r.peer)
      /\ r.step \in {"del", "srem"} /\ GoesOn(r, "srem")
  BY <1>0, RemovePeerEffect
<1>2. /\ main' = main /\ trouble' = trouble /\ knows' = knows
      /\ lapsed' = lapsed /\ missed' = missed
  BY <1>1 DEF lifeVars, history
<1>3. "srem" \in Step \ {"get"}
  BY DEF Step
<1>4. StoppedLeaves' /\ FoundStarted' /\ StartersMeet' /\ RunnersMet'
  BY <1>1, <1>2, <1>3, StepKinds, RequestsKept
<1>5. Typed'
  <2>1. RedisTypeOK'
    BY <1>0, <1>1, RedisTypeStep
  <2>2. LifeTypeOK'
    BY <1>0, <1>1, LifeTypeStep
  <2> QED
    BY <1>1, <2>1, <2>2 DEF Typed, RequestSet
<1>6. /\ hash \ {r.peer} \subseteq hash' /\ hash' \subseteq hash
      /\ members \ {r.peer} \subseteq members' /\ members' \subseteq members
      /\ old' \subseteq old /\ cleaning' = cleaning /\ cleaned' = cleaned
  BY <1>1 DEF Del, SRem, DropHash, DropMember
<1>7. Leaving(r.peer)
  BY <1>0, <1>1 DEF StoppedLeaves
<1>8. \A x \in requests' : x \in requests \/ x.peer = r.peer
  BY <1>1 DEF GoesOn
<1>9. Unheard'
  BY <1>0, <1>2, <1>6, <1>7, <1>8 DEF Unheard, Unstarted, Leaving
<1>10. OldOver' /\ CleanedNamed'
  BY <1>0, <1>2, <1>6 DEF OldOver, CleanedNamed, Over
<1>6a. HistoryOK'
  BY <1>0, <1>2, <1>6 DEF HistoryOK, Listed, Unstarted, Over
<1>11. RunningListed'
  BY <1>0, <1>2, <1>6, <1>7 DEF RunningListed, Leaving
<1>12. StartingStored'
  BY <1>0, <1>2, <1>6, <1>7, <1>8 DEF StartingStored, Leaving
<1> QED
  BY <1>4, <1>5, <1>6a, <1>9, <1>10, <1>11, <1>12 DEF IInv

(* The expiry of a hash and the cleanup, which know no requests, spare all *)
(* that is neither old nor silent.                                         *)
LEMMA ForgetsPreserves ==
    ASSUME IInv, UNCHANGED <<lifeVars, requests, history>>,
           Cleanup \/ \E p \in Process : Silent(p) /\ HashExpires(p)
    PROVE  IInv'
<1>0. /\ Typed /\ Unheard /\ OldOver /\ CleanedNamed /\ StartingStored /\ RunningListed
      /\ HistoryOK /\ requests \subseteq RequestSet /\ RedisTypeOK /\ LifeTypeOK
      /\ trouble \subseteq Lossy
  BY RequestsType DEF IInv, LifeTypeOK
<1>1. /\ main' = main /\ trouble' = trouble /\ knows' = knows /\ requests' = requests
      /\ lapsed' = lapsed /\ missed' = missed
  BY DEF lifeVars, history
<1>2. StoppedLeaves' /\ FoundStarted' /\ StartersMeet' /\ RunnersMet'
  BY <1>1, RequestsKept
<1>3. Typed'
  <2>1. RedisTypeOK'
    BY <1>0, RedisTypeStep
  <2>2. LifeTypeOK'
    BY <1>0, <1>1, LifeTypeStep
  <2> QED
    BY <1>0, <1>1, <2>1, <2>2 DEF Typed
<1>4. ASSUME \A p \in hash : p \notin old /\ p # cleaning /\ ~Silent(p) =>
                 p \in hash' /\ (p \in members => p \in members'),
             hash' \subseteq hash, members' \subseteq members, old' \subseteq old,
             cleaning' \in old \cup {cleaning, NoProcess},
             cleaned' => cleaning' # NoProcess
      PROVE  IInv'
  <2>1. \A p \in Process : cleaning' = p => cleaning = p \/ p \in old
    BY <1>4, RedisConstants
  <2>2. Unheard'
    BY <1>0, <1>1, <1>4, <2>1 DEF Unheard, Unstarted, RedisTypeOK
  <2>3. OldOver' /\ CleanedNamed'
    BY <1>0, <1>1, <1>4, <2>1 DEF OldOver, CleanedNamed, Over
  <2>4. \A p \in Process \ Lossy : main[p] = "running" =>
            /\ p \in hash /\ p \in members \cup lapsed
            /\ p \notin old /\ p # cleaning /\ ~Silent(p)
    BY <1>0 DEF RunningListed, OldOver, Over, Silent
  <2>5. RunningListed'
    BY <1>1, <1>4, <2>4 DEF RunningListed
  <2>6. \A r \in requests : r.peer \in Process
    BY <1>0, RequestFields
  <2>7. StartingStored'
    <3> SUFFICES ASSUME NEW x \in requests, main[x.peer] = "starting"
                 PROVE  /\ x.event = "started"
                        /\ x.peer \notin old' /\ cleaning' # x.peer
                        /\ x.step # "hset" => x.peer \in hash'
                        /\ x.step \notin {"hset", "sadd"} => x.peer \in members' \cup lapsed'
      BY <1>1 DEF StartingStored
    <3>1. /\ x.event = "started" /\ x.peer \notin old /\ cleaning # x.peer
          /\ x.step # "hset" => x.peer \in hash
          /\ x.step \notin {"hset", "sadd"} => x.peer \in members \cup lapsed
      BY <1>0 DEF StartingStored
    <3>2. ~Silent(x.peer)
      BY DEF Silent, Over
    <3> QED
      BY <1>1, <1>4, <2>1, <2>6, <3>1, <3>2
  <2>8. HistoryOK'
    BY <1>0, <1>1, <1>4 DEF HistoryOK, Listed, Unstarted, Over
  <2> QED
    BY <1>2, <1>3, <2>2, <2>3, <2>5, <2>7, <2>8 DEF IInv
<1>6. ASSUME NEW p \in Process, Silent(p), HashExpires(p) PROVE IInv'
  <2>1. /\ hash' = hash \ {p} /\ members' = members /\ old' = old \ {p}
        /\ cleaning' = cleaning /\ cleaned' = cleaned
    BY <1>6 DEF HashExpires, Del, DropHash
  <2>2. cleaned' => cleaning' # NoProcess
    BY <1>0, <2>1 DEF CleanedNamed
  <2> QED
    BY <1>4, <1>6, <2>1, <2>2
<1>7. ASSUME NEW p \in Process, CleanupRead(p) PROVE IInv'
  <2>1. /\ p \in old /\ hash' = hash /\ members' = members /\ old' = old
        /\ cleaning' = p
    BY <1>7 DEF CleanupRead
  <2>2. cleaned' => cleaning' # NoProcess
    BY <2>1, RedisConstants
  <2> QED
    BY <1>4, <2>1, <2>2
<1>8. CASE CleanupSRem
  <2>1. /\ hash' = hash /\ members' = members \ {cleaning} /\ old' = old
        /\ cleaning' = cleaning /\ cleaning # NoProcess
    BY <1>8 DEF CleanupSRem, DropMember
  <2> QED
    BY <1>4, <2>1
<1>9. CASE CleanupDel
  <2>1. /\ hash' = hash \ {cleaning} /\ members' = members /\ old' = old \ {cleaning}
        /\ cleaning' = NoProcess /\ ~cleaned'
    BY <1>9 DEF CleanupDel, DropHash
  <2> QED
    BY <1>4, <2>1
<1> QED
  BY <1>6, <1>7, <1>8, <1>9 DEF Cleanup

(* The set expires while no reliable process runs and no list is being     *)
(* read: who had just been added to it has lost its place, and misses all  *)
(* that are starting too.                                                  *)
LEMMA SetLapsesPreserves == ASSUME IInv, SetLapses PROVE IInv'
<1>0. /\ Typed /\ Unheard /\ StoppedLeaves /\ OldOver /\ CleanedNamed /\ StartingStored
      /\ RunningListed /\ HistoryOK /\ FoundStarted
      /\ requests \subseteq RequestSet /\ RedisTypeOK /\ LifeTypeOK
      /\ trouble \subseteq Lossy
  BY RequestsType DEF IInv, LifeTypeOK
<1>1. /\ main' = main /\ trouble' = trouble /\ knows' = knows /\ requests' = requests
      /\ hash' = hash /\ old' = old /\ members' = {}
      /\ cleaning' = cleaning /\ cleaned' = cleaned
  BY DEF SetLapses, SetExpires, lifeVars
<1>2. /\ \A p \in Process : main[p] = "running" => p \in trouble
      /\ \A r \in requests : r.step \notin {"list", "get"}
      /\ SetExpires /\ UNCHANGED lifeVars
      /\ lapsed' = lapsed \cup (Listed \cap Starting)
      /\ missed' = missed \cup { {p, q} : p \in Listed \cap Starting, q \in Starting }
  BY DEF SetLapses
<1>3. Typed'
  <2>1. RedisTypeOK'
    BY <1>0, <1>2, RedisTypeStep
  <2>2. LifeTypeOK'
    BY <1>0, <1>2, LifeTypeStep
  <2> QED
    BY <1>0, <1>1, <2>1, <2>2 DEF Typed
<1>4. Unheard' /\ StoppedLeaves' /\ OldOver' /\ CleanedNamed' /\ FoundStarted'
  BY <1>0, <1>1 DEF Unheard, StoppedLeaves, OldOver, CleanedNamed, FoundStarted, Unstarted,
     Leaving, Over
<1>5. RunningListed' /\ StartersMeet' /\ RunnersMet'
  BY <1>0, <1>1, <1>2 DEF RunningListed, StartersMeet, RunnersMet, Admitting
<1>6. StartingStored'
  <2> SUFFICES ASSUME NEW x \in requests, main[x.peer] = "starting",
                      x.step \notin {"hset", "sadd"}
               PROVE  x.peer \in lapsed'
    BY <1>0, <1>1 DEF StartingStored
  <2>1. x.peer \in hash /\ x.peer \in members \cup lapsed /\ x.peer \in Process
    BY <1>0, RequestFields DEF StartingStored
  <2>2. x.peer \in Starting
    BY <2>1 DEF Starting
  <2> QED
    BY <1>2, <2>1, <2>2 DEF Listed
<1>7. HistoryOK'
  <2>1. Listed' = {} /\ lapsed' \subseteq Process
    BY <1>0, <1>1, <1>2 DEF Listed, HistoryOK, Starting
  <2>2. \A p \in Starting : p \in Process /\ ~Unstarted(p) /\ ~Over(p)
    BY DEF Starting, Unstarted, Over
  <2>3. \A p \in lapsed' : ~Unstarted(p)' /\ ~Over(p)'
    BY <1>0, <1>1, <1>2, <2>2 DEF HistoryOK, Unstarted, Over
  <2>4. ASSUME NEW pair \in missed' PROVE pair \in SUBSET Process /\ \A p \in pair : ~Over(p)'
    <3>1. CASE pair \in missed
      BY <1>0, <1>1, <3>1 DEF HistoryOK, Over
    <3>2. CASE pair \notin missed
      <4>1. PICK p \in Starting, q \in Starting : pair = {p, q}
        BY <1>2, <3>2
      <4>2. ~Over(p)' /\ ~Over(q)'
        BY <1>1, <2>2 DEF Over
      <4> QED
        BY <2>2, <4>1, <4>2
    <3> QED
      BY <3>1, <3>2
  <2>5. ASSUME NEW p \in lapsed', NEW q \in Process, main'[q] = "starting" PROVE {p, q} \in missed'
    <3>1. q \in Starting
      BY <1>1, <2>5 DEF Starting
    <3>2. CASE p \in lapsed
      BY <1>0, <1>1, <1>2, <2>5, <3>2 DEF HistoryOK
    <3>3. CASE p \notin lapsed
      BY <1>2, <3>1, <3>3
    <3> QED
      BY <3>2, <3>3
  <2> QED
    BY <2>1, <2>3, <2>4, <2>5 DEF HistoryOK
<1> QED
  BY <1>3, <1>4, <1>5, <1>6, <1>7 DEF IInv

-----------------------------------------------------------------------------
(* Steps that read, answer or drop a request.                              *)

LEMMA FewerPreserves ==
    ASSUME IInv, UNCHANGED <<redisVars, lifeVars, history>>, requests' \subseteq requests PROVE IInv'
<1>0. /\ Typed /\ Unheard /\ OldOver /\ CleanedNamed /\ StartingStored /\ RunningListed /\ HistoryOK
      /\ requests \subseteq RequestSet /\ RedisTypeOK /\ LifeTypeOK
  BY RequestsType DEF IInv
<1>1. /\ hash' = hash /\ ttl' = ttl /\ old' = old /\ members' = members
      /\ setTtl' = setTtl /\ lapsed' = lapsed /\ missed' = missed
      /\ cleaning' = cleaning /\ cleaned' = cleaned
      /\ main' = main /\ signal' = signal /\ trouble' = trouble /\ knows' = knows
  BY DEF redisVars, lifeVars, history
<1>2. StoppedLeaves' /\ FoundStarted' /\ StartersMeet' /\ RunnersMet'
  BY <1>1, RequestsKept
<1>3. Typed'
  BY <1>0, <1>1 DEF Typed, RedisTypeOK, LifeTypeOK
<1>4. Unheard' /\ OldOver' /\ CleanedNamed' /\ RunningListed' /\ HistoryOK'
  BY <1>0, <1>1 DEF Unheard, OldOver, CleanedNamed, RunningListed, HistoryOK, Unstarted, Over, Listed
<1>5. StartingStored'
  BY <1>0, <1>1 DEF StartingStored
<1> QED
  BY <1>2, <1>3, <1>4, <1>5 DEF IInv

LEMMA GrowsOldPreserves ==
    ASSUME IInv, NEW p \in Process, GrowsOld(p) PROVE IInv'
<1>0. /\ Typed /\ Unheard /\ OldOver /\ CleanedNamed /\ StartingStored /\ RunningListed /\ HistoryOK
      /\ requests \subseteq RequestSet /\ RedisTypeOK /\ LifeTypeOK
  BY RequestsType DEF IInv
<1>1. /\ p \in hash /\ old' = old \cup {p} /\ Silent(p)
      /\ hash' = hash /\ ttl' = ttl /\ members' = members
      /\ setTtl' = setTtl /\ lapsed' = lapsed /\ missed' = missed
      /\ cleaning' = cleaning /\ cleaned' = cleaned
      /\ main' = main /\ signal' = signal /\ trouble' = trouble /\ knows' = knows
      /\ requests' = requests /\ UNCHANGED lifeVars
  BY DEF GrowsOld, lifeVars, history
<1>2. StoppedLeaves' /\ FoundStarted' /\ StartersMeet' /\ RunnersMet'
  BY <1>1, RequestsKept
<1>3. Typed'
  BY <1>0, <1>1 DEF Typed, RedisTypeOK, LifeTypeOK
<1>4. Unheard' /\ CleanedNamed' /\ RunningListed' /\ HistoryOK'
  BY <1>0, <1>1 DEF Unheard, CleanedNamed, RunningListed, HistoryOK, Unstarted, Over, Listed
<1>5. OldOver'
  BY <1>0, <1>1 DEF OldOver, Over, Silent, LifeTypeOK
<1>6. StartingStored'
  BY <1>0, <1>1 DEF StartingStored, Silent, Over
<1> QED
  BY <1>2, <1>3, <1>4, <1>5, <1>6 DEF IInv

(* A list that fits in numwant is the whole set.                           *)
LEMMA WholeSet ==
    ASSUME Typed, NEW ids \in SRandMember, Cardinality(Process) <= NumWant
    PROVE  ids = members
<1>1. members \subseteq Process /\ ids \subseteq members
  BY RequestsType DEF RedisTypeOK, SRandMember
<1>2. IsFiniteSet(members) /\ Cardinality(members) <= Cardinality(Process)
  BY <1>1, FS_Subset, LifecycleConstants
<1>3. /\ Cardinality(ids) <= Cardinality(members)
      /\ Cardinality(ids) = Cardinality(members) => ids = members
  BY <1>1, <1>2, FS_Subset
<1>4. /\ Cardinality(members) \in Nat /\ Cardinality(Process) \in Nat /\ NumWant \in Nat
      /\ Cardinality(ids) \in Nat
  BY <1>1, <1>2, FS_Subset, FS_CardinalityType, LifecycleConstants, RedisConstants
<1> QED
  BY <1>2, <1>3, <1>4 DEF SRandMember

(* What a request that goes on reading needs to say of the others.         *)
LEMMA ReadingPreserves ==
    ASSUME IInv, UNCHANGED <<redisVars, lifeVars, history>>, NEW r \in requests,
           requests' \subseteq RequestSet, r.step \in {"list", "get"},
           \A x \in requests' :
              \/ x \in requests
              \/ /\ x.peer = r.peer /\ x.event = r.event /\ x.step = "get"
                 /\ x.found \subseteq r.found \cup hash
    PROVE  /\ Typed' /\ Unheard' /\ StoppedLeaves' /\ OldOver' /\ CleanedNamed'
           /\ StartingStored' /\ RunningListed' /\ HistoryOK' /\ FoundStarted'
<1>0. /\ Typed /\ Unheard /\ OldOver /\ CleanedNamed /\ StartingStored /\ RunningListed
      /\ StoppedLeaves /\ HistoryOK /\ FoundStarted
      /\ requests \subseteq RequestSet /\ RedisTypeOK /\ LifeTypeOK
  BY RequestsType DEF IInv
<1>1. /\ hash' = hash /\ ttl' = ttl /\ old' = old /\ members' = members
      /\ setTtl' = setTtl /\ lapsed' = lapsed /\ missed' = missed
      /\ cleaning' = cleaning /\ cleaned' = cleaned
      /\ main' = main /\ signal' = signal /\ trouble' = trouble /\ knows' = knows
  BY DEF redisVars, lifeVars, history
<1>2. Typed'
  BY <1>0, <1>1 DEF Typed, RedisTypeOK, LifeTypeOK, RequestSet
<1>3. Unheard' /\ OldOver' /\ CleanedNamed' /\ RunningListed' /\ HistoryOK'
  BY <1>0, <1>1 DEF Unheard, OldOver, CleanedNamed, RunningListed, HistoryOK, Unstarted, Over, Listed
<1>4. StartingStored'
  BY <1>0, <1>1 DEF StartingStored
<1>5. r.event # "stopped"
  BY <1>0 DEF StoppedLeaves
<1>6. StoppedLeaves'
  BY <1>0, <1>1, <1>5 DEF StoppedLeaves, Leaving
<1>7. \A q \in hash : ~Unstarted(q)
  BY <1>0 DEF Unheard, RedisTypeOK
<1>8. FoundStarted'
  BY <1>0, <1>1, <1>7 DEF FoundStarted, Unstarted
<1> QED
  BY <1>2, <1>3, <1>4, <1>6, <1>8

(* Whoever draws a list last finds the other in the set.                   *)
LEMMA DrawPreserves ==
    ASSUME IInv, NEW r \in requests, DrawPeers(r) PROVE IInv'
<1>0. /\ Typed /\ StartingStored /\ RunningListed /\ HistoryOK /\ StartersMeet /\ RunnersMet
      /\ requests \subseteq RequestSet
  BY RequestsType DEF IInv
<1>1. /\ r.step = "list" /\ UNCHANGED <<redisVars, lifeVars, history>> /\ requests' \subseteq RequestSet
  BY <1>0, DrawRequests
<1>2. PICK ids \in SRandMember : \A x \in requests' :
         \/ x \in requests
         \/ /\ x.peer = r.peer /\ x.event = r.event /\ x.step = "get"
            /\ x.ids = ids /\ x.found = r.found
  BY <1>0, DrawRequests
<1>3. main' = main /\ trouble' = trouble /\ knows' = knows /\ missed' = missed
  BY <1>1 DEF lifeVars, history
<1>0a. \A x \in requests' : x.peer \in Process
  BY <1>1, RequestFields
<1>4. \A x \in requests' : Admitting(x)' <=> Admitting(x)
  BY <1>3 DEF Admitting
<1>5. ASSUME Cardinality(Process) <= NumWant,
             NEW x \in requests', x \notin requests, Admitting(x),
             NEW q \in members \cup lapsed
      PROVE  q \in Covers(x) \/ {x.peer, q} \in missed
  <2>1. CASE q \in members
    <3>1. ids = members
      BY <1>0, <1>5, WholeSet
    <3> QED
      BY <1>2, <1>5, <2>1, <3>1 DEF Covers
  <2>2. CASE q \in lapsed
    <3>1. {q, x.peer} \in missed
      BY <1>0, <1>0a, <1>5, <2>2 DEF HistoryOK, Admitting
    <3>2. {q, x.peer} = {x.peer, q}
      OBVIOUS
    <3> QED
      BY <3>1, <3>2
  <2> QED
    BY <1>5, <2>1, <2>2
<1>5a. \A s \in requests : Admitting(s) => s.peer \in members \cup lapsed
  BY <1>0 DEF StartingStored, Admitting
<1>6. StartersMeet'
  <2> SUFFICES ASSUME Cardinality(Process) <= NumWant, NEW x \in requests', NEW y \in requests',
                      x.peer # y.peer, Admitting(x), Admitting(y)
               PROVE  \/ y.peer \in Covers(x) \/ x.peer \in Covers(y)
                      \/ {x.peer, y.peer} \in missed
    BY <1>3, <1>4 DEF StartersMeet, Covers
  <2>1. CASE x \in requests /\ y \in requests
    BY <1>0, <2>1 DEF StartersMeet
  <2>2. CASE x \notin requests /\ y \in requests
    BY <1>5, <1>5a, <2>2
  <2>3. CASE y \notin requests /\ x \in requests
    <3>1. x.peer \in Covers(y) \/ {y.peer, x.peer} \in missed
      BY <1>5, <1>5a, <2>3
    <3>2. {x.peer, y.peer} = {y.peer, x.peer}
      OBVIOUS
    <3> QED
      BY <3>1, <3>2
  <2>4. CASE x \notin requests /\ y \notin requests
    BY <1>2, <2>4
  <2> QED
    BY <2>1, <2>2, <2>3, <2>4
<1>7. RunnersMet'
  <2> SUFFICES ASSUME Cardinality(Process) <= NumWant, NEW x \in requests',
                      NEW q \in Process \ Lossy,
                      x.peer # q, Admitting(x), main[q] = "running"
               PROVE  q \in Covers(x) \/ x.peer \in knows[q] \/ {x.peer, q} \in missed
    BY <1>3, <1>4 DEF RunnersMet, Covers
  <2>1. CASE x \in requests
    BY <1>0, <2>1 DEF RunnersMet
  <2>2. CASE x \notin requests
    <3>1. q \in members \cup lapsed
      BY <1>0 DEF RunningListed
    <3> QED
      BY <1>5, <2>2, <3>1
  <2> QED
    BY <2>1, <2>2
<1>8. /\ Typed' /\ Unheard' /\ StoppedLeaves' /\ OldOver' /\ CleanedNamed'
      /\ StartingStored' /\ RunningListed' /\ HistoryOK' /\ FoundStarted'
  BY <1>1, <1>2, ReadingPreserves
<1> QED
  BY <1>6, <1>7, <1>8 DEF IInv

(* What was in a list and is still there when it is read is found.         *)
LEMMA GetPreserves ==
    ASSUME IInv, NEW r \in requests, NEW q \in Process, GetPeer(r, q) PROVE IInv'
<1>0. /\ Typed /\ StartingStored /\ RunningListed /\ StartersMeet /\ RunnersMet
      /\ requests \subseteq RequestSet
  BY RequestsType DEF IInv
<1>1. /\ r.step = "get" /\ q \in r.ids
      /\ UNCHANGED <<redisVars, lifeVars, history>> /\ requests' \subseteq RequestSet
      /\ \A x \in requests' :
            \/ x \in requests
            \/ /\ x.peer = r.peer /\ x.event = r.event /\ x.step = "get"
               /\ x.ids = r.ids \ {q}
               /\ x.found \subseteq r.found \cup (hash \cap {q}) /\ r.found \subseteq x.found
               /\ r.peer \notin trouble => x.found = r.found \cup ({q} \cap hash)
  BY <1>0, GetRequests
<1>2. main' = main /\ trouble' = trouble /\ knows' = knows /\ missed' = missed
  BY <1>1 DEF lifeVars, history
<1>3. \A x \in requests' : Admitting(x)' <=> Admitting(x)
  BY <1>2 DEF Admitting
<1>4. ASSUME NEW x \in requests', Admitting(x)
      PROVE  \E s \in requests :
                 s.peer = x.peer /\ Admitting(s) /\ Covers(s) \cap hash \subseteq Covers(x)
  <2>1. CASE x \in requests
    BY <1>4, <2>1
  <2>2. CASE x \notin requests
    <3>1. /\ x.peer = r.peer /\ Admitting(r) /\ x.ids = r.ids \ {q}
          /\ x.found = r.found \cup ({q} \cap hash)
      BY <1>1, <1>4, <2>2 DEF Admitting
    <3>2. Covers(r) \cap hash \subseteq Covers(x)
      BY <3>1 DEF Covers
    <3> QED
      BY <3>1, <3>2
  <2> QED
    BY <2>1, <2>2
<1>5. StartersMeet'
  <2> SUFFICES ASSUME Cardinality(Process) <= NumWant, NEW x \in requests', NEW y \in requests',
                      x.peer # y.peer, Admitting(x), Admitting(y)
               PROVE  \/ y.peer \in Covers(x) \/ x.peer \in Covers(y)
                      \/ {x.peer, y.peer} \in missed
    BY <1>2, <1>3 DEF StartersMeet, Covers
  <2>1. PICK s \in requests : s.peer = x.peer /\ Admitting(s) /\ Covers(s) \cap hash \subseteq Covers(x)
    BY <1>4
  <2>2. PICK t \in requests : t.peer = y.peer /\ Admitting(t) /\ Covers(t) \cap hash \subseteq Covers(y)
    BY <1>4
  <2>3. s.peer \in hash /\ t.peer \in hash
    BY <1>0, <2>1, <2>2 DEF StartingStored, Admitting
  <2>4. t.peer \in Covers(s) \/ s.peer \in Covers(t) \/ {s.peer, t.peer} \in missed
    BY <1>0, <2>1, <2>2 DEF StartersMeet
  <2> QED
    BY <2>1, <2>2, <2>3, <2>4
<1>6. RunnersMet'
  <2> SUFFICES ASSUME Cardinality(Process) <= NumWant, NEW x \in requests',
                      NEW p \in Process \ Lossy,
                      x.peer # p, Admitting(x), main[p] = "running"
               PROVE  p \in Covers(x) \/ x.peer \in knows[p] \/ {x.peer, p} \in missed
    BY <1>2, <1>3 DEF RunnersMet, Covers
  <2>1. PICK s \in requests : s.peer = x.peer /\ Admitting(s) /\ Covers(s) \cap hash \subseteq Covers(x)
    BY <1>4
  <2>2. p \in hash
    BY <1>0 DEF RunningListed, Listed
  <2>3. p \in Covers(s) \/ s.peer \in knows[p] \/ {s.peer, p} \in missed
    BY <1>0, <2>1 DEF RunnersMet
  <2> QED
    BY <2>1, <2>2, <2>3
<1>7. \A x \in requests' :
            \/ x \in requests
            \/ /\ x.peer = r.peer /\ x.event = r.event /\ x.step = "get"
               /\ x.found \subseteq r.found \cup hash
  BY <1>1
<1>8. /\ Typed' /\ Unheard' /\ StoppedLeaves' /\ OldOver' /\ CleanedNamed'
      /\ StartingStored' /\ RunningListed' /\ HistoryOK' /\ FoundStarted'
  BY <1>1, <1>7, ReadingPreserves
<1> QED
  BY <1>5, <1>6, <1>8 DEF IInv

(* Who is admitted is listed, and knows all that his answer named.         *)
LEMMA AnswerPreserves ==
    ASSUME IInv, NEW r \in requests, Answer(r) PROVE IInv'
<1>0. /\ Typed /\ Unheard /\ StoppedLeaves /\ OldOver /\ CleanedNamed /\ StartingStored
      /\ RunningListed /\ HistoryOK /\ FoundStarted /\ StartersMeet /\ RunnersMet
      /\ requests \subseteq RequestSet /\ RedisTypeOK /\ LifeTypeOK
      /\ main \in [Process -> Main] /\ knows \in [Process -> SUBSET Process]
      /\ trouble \subseteq Lossy
  BY RequestsType DEF IInv, LifeTypeOK
<1>1. r.peer \in Process /\ r.found \in SUBSET Process
  BY <1>0, RequestFields
<1>2. /\ r.ids = {} /\ r.step = "get" /\ requests' = requests \ {r}
      /\ UNCHANGED <<redisVars, history>>
  BY DEF Answer, Ends
<1>3. CASE main[r.peer] # "starting"
  <2>1. UNCHANGED lifeVars
    BY <1>3 DEF Answer
  <2> QED
    BY <1>2, <2>1, FewerPreserves
<1>4. CASE main[r.peer] = "starting"
  <2>1. /\ Enter(r.peer, r.found \ {r.peer})
        /\ main' = [main EXCEPT ![r.peer] = "running"]
        /\ knows' = [knows EXCEPT ![r.peer] = r.found \ {r.peer}]
        /\ trouble' = trouble
    BY <1>4 DEF Answer, Enter, Moves
  <2>2. /\ hash' = hash /\ ttl' = ttl /\ old' = old /\ members' = members
        /\ setTtl' = setTtl /\ lapsed' = lapsed /\ missed' = missed
        /\ cleaning' = cleaning /\ cleaned' = cleaned
    BY <1>2 DEF redisVars, history
  <2>3. \A x \in requests : x.peer \in Process /\ x.found \subseteq Process
    BY <1>0, RequestFields
  <2>4. /\ r.peer \in hash /\ r.peer \in members \cup lapsed
        /\ r.peer \notin old /\ cleaning # r.peer
    BY <1>2, <1>4, <1>0 DEF StartingStored
  <2>5. \A p \in Process : p # r.peer => main'[p] = main[p] /\ knows'[p] = knows[p]
    BY <1>0, <2>1
  <2>6. main'[r.peer] = "running" /\ knows'[r.peer] = r.found \ {r.peer}
    BY <1>0, <1>1, <2>1
  <2>7. Typed'
    <3>1. LifeTypeOK'
      BY <1>0, <1>1, <2>1, LifeTypeStep
    <3> QED
      BY <1>0, <1>2, <2>2, <3>1 DEF Typed, RedisTypeOK
  <2>8. Unheard' /\ OldOver' /\ CleanedNamed'
    BY <1>0, <1>1, <1>2, <1>4, <2>2, <2>4, <2>5, <2>6
       DEF Unheard, OldOver, CleanedNamed, Unstarted, Over
  <2>9. StoppedLeaves' /\ StartingStored'
    BY <1>0, <1>2, <1>4, <2>2, <2>3, <2>5, <2>6 DEF StoppedLeaves, StartingStored, Leaving
  <2>10. RunningListed'
    BY <1>0, <2>2, <2>4, <2>5, <2>6 DEF RunningListed
  <2>11. FoundStarted'
    BY <1>0, <1>2, <2>3, <2>5, <2>6 DEF FoundStarted, Unstarted
  <2>12. \A x \in requests' :
             Admitting(x)' => x \in requests /\ Admitting(x) /\ x.peer # r.peer
    BY <1>2, <2>1, <2>3, <2>5, <2>6 DEF Admitting
  <2>13. StartersMeet'
    BY <1>0, <2>2, <2>12 DEF StartersMeet, Covers
  <2>15. HistoryOK'
    BY <1>0, <1>1, <2>2, <2>5, <2>6 DEF HistoryOK, Listed, Unstarted, Over
  <2>14. RunnersMet'
    <3> SUFFICES ASSUME Cardinality(Process) <= NumWant, NEW x \in requests,
                        NEW q \in Process \ Lossy, x.peer # q, x.peer # r.peer,
                        Admitting(x), main'[q] = "running"
                 PROVE  q \in Covers(x) \/ x.peer \in knows'[q] \/ {x.peer, q} \in missed
      BY <2>2, <2>12 DEF RunnersMet, Covers
    <3>1. CASE q # r.peer
      BY <1>0, <2>5, <3>1 DEF RunnersMet
    <3>2. CASE q = r.peer
      <4>1. Admitting(r)
        BY <1>0, <1>2, <1>4, <3>2 DEF Admitting
      <4>2. q \in Covers(x) \/ x.peer \in Covers(r) \/ {x.peer, q} \in missed
        BY <1>0, <3>2, <4>1 DEF StartersMeet
      <4> QED
        BY <1>2, <2>6, <3>2, <4>2 DEF Covers
    <3> QED
      BY <3>1, <3>2
  <2> QED
    BY <2>7, <2>8, <2>9, <2>10, <2>11, <2>13, <2>14, <2>15 DEF IInv
<1> QED
  BY <1>3, <1>4

-----------------------------------------------------------------------------
(* The invariant. *)

LEMMA IInit == Init => IInv
<1> SUFFICES ASSUME Init PROVE IInv
  OBVIOUS
<1>1. /\ requests = {} /\ hash = {} /\ old = {} /\ cleaning = NoProcess /\ cleaned = FALSE
      /\ main = [p \in Process |-> "off"] /\ lapsed = {} /\ missed = {}
  BY DEF Init, RedisInit, LifeInit
<1>2. \A p \in Process : main[p] = "off" /\ p # NoProcess
  BY <1>1, RedisConstants
<1> QED
  BY <1>1, <1>2, TypeInit
     DEF IInv, Unheard, StoppedLeaves, OldOver, CleanedNamed, StartingStored, RunningListed,
         HistoryOK, FoundStarted, StartersMeet, RunnersMet

LEMMA IStep == IInv /\ [Next]_vars => IInv'
<1> SUFFICES ASSUME IInv, [Next]_vars PROVE IInv'
  OBVIOUS
<1>1. ASSUME NEW r \in requests, HandleAnnounce(r) PROVE IInv'
  BY <1>1, AddPeerPreserves, RemovePeerPreserves, DrawPreserves, GetPreserves, AnswerPreserves
     DEF HandleAnnounce
<1>2. ASSUME NEW r \in requests, RequestFails(r) PROVE IInv'
  <2>1. UNCHANGED <<redisVars, lifeVars, history>> /\ requests' \subseteq requests
    BY <1>2 DEF RequestFails
  <2> QED
    BY <2>1, FewerPreserves
<1>3. ASSUME NEW p \in Process, ClientStep(p) \/ GrowsOld(p) PROVE IInv'
  BY <1>3, ClientPreserves, GrowsOldPreserves
<1>4. ASSUME NEW p \in Process, HashLapses(p) PROVE IInv'
  BY <1>4, ForgetsPreserves DEF HashLapses
<1>5. CASE SetLapses
  BY <1>5, SetLapsesPreserves
<1>6. CASE InRedis(Cleanup)
  BY <1>6, ForgetsPreserves DEF InRedis
<1>7. CASE UNCHANGED vars
  <2>1. UNCHANGED <<redisVars, lifeVars, history>> /\ requests' \subseteq requests
    BY <1>7 DEF vars
  <2> QED
    BY <2>1, FewerPreserves
<1> QED
  BY <1>1, <1>2, <1>3, <1>4, <1>5, <1>6, <1>7 DEF Next

LEMMA Invariance == Spec => []IInv
  BY IInit, IStep, PTL DEF Spec

(* The types of what the handlers of tracker/server.go, the storage of     *)
(* tracker/redis_storage.go and the processes keep; a request that says    *)
(* "stopped" is at a command of RemovePeer, and no other request is.       *)
THEOREM TypeCorrect == Spec => []TypeOK
<1>1. IInv => TypeOK
  BY DEF IInv, Typed, StoppedLeaves, HistoryOK, TypeOK
<1> QED
  BY <1>1, Invariance, PTL

-----------------------------------------------------------------------------
(* Rendezvous. *)

Phases == [p \in Process |-> Phase(p)]

PhaseAt(at) ==
    CASE at \in {"off", "listening"} -> "off"
      [] at \in {"panicked", "exited"} -> "gone"
      [] OTHER -> at

LEMMA PhaseIs == \A p \in Process : Phases[p] = PhaseAt(main[p])
  BY DEF Phases, Phase, PhaseAt, Over

LEMMA PhaseMoves ==
    ASSUME LifeTypeOK, NEW p \in Process, NEW at \in Main, main' = [main EXCEPT ![p] = at]
    PROVE  Phases' = [Phases EXCEPT ![p] = PhaseAt(at)]
  BY DEF Phases, Phase, PhaseAt, Over, LifeTypeOK

LEMMA PhasesKept == main' = main => Phases' = Phases
  BY DEF Phases, Phase, Over

LEMMA PhaseOff == \A p \in Process : Phases[p] = "off" <=> Unstarted(p)
  BY PhaseIs DEF PhaseAt, Unstarted

LEMMA PhaseLeaving == \A p \in Process : Leaving(p) => Phases[p] \in {"stopping", "gone"}
  BY PhaseIs DEF PhaseAt, Leaving

(* An answer to a process that waits is an admission.                      *)
LEMMA AnswerAdmits ==
    ASSUME IInv, NEW r \in requests, Answer(r), main[r.peer] = "starting"
    PROVE  R!Admit(r.peer, r.found \ {r.peer})
<1>0. /\ StartingStored /\ FoundStarted /\ RunnersMet
      /\ requests \subseteq RequestSet /\ LifeTypeOK
  BY RequestsType DEF IInv
<1>1. r.peer \in Process /\ r.found \in SUBSET Process
  BY <1>0, RequestFields
<1>2. /\ r.ids = {} /\ r.step = "get"
      /\ main' = [main EXCEPT ![r.peer] = "running"]
      /\ knows' = [knows EXCEPT ![r.peer] = r.found \ {r.peer}]
      /\ trouble' = trouble /\ hash' = hash /\ members' = members
      /\ lapsed' = lapsed /\ missed' = missed
  BY DEF Answer, Ends, Enter, Moves, redisVars, history
<1>3. Phases[r.peer] = "starting"
  BY <1>1, PhaseIs DEF PhaseAt
<1>4. r.peer \in Listed \cup lapsed
  BY <1>0, <1>2 DEF StartingStored, Listed
<1>5. r.found \ {r.peer} \subseteq { q \in R!Mates(r.peer) : Phases[q] # "off" }
  BY <1>0, <1>1, PhaseOff DEF FoundStarted, R!Mates
<1>6. ASSUME Cardinality(Process) <= NumWant, r.peer \notin trouble,
             NEW q \in R!Mates(r.peer) \ Lossy, Phases[q] = "running"
      PROVE  q \in r.found \ {r.peer} \/ r.peer \in knows[q] \/ {r.peer, q} \in missed
  <2>1. q \in Process \ Lossy /\ q # r.peer
    BY <1>6 DEF R!Mates
  <2>2. main[q] = "running"
    BY <1>6, <2>1, PhaseIs DEF PhaseAt
  <2>3. Admitting(r)
    BY <1>2, <1>6 DEF Admitting
  <2>4. q \in Covers(r) \/ r.peer \in knows[q] \/ {r.peer, q} \in missed
    BY <1>0, <1>6, <2>1, <2>2, <2>3 DEF RunnersMet
  <2> QED
    BY <1>2, <2>1, <2>4 DEF Covers
<1>7. Phases' = [Phases EXCEPT ![r.peer] = "running"]
  BY <1>0, <1>1, <1>2, PhaseMoves DEF PhaseAt, Main
<1>8. Listed' = Listed
  BY <1>2 DEF Listed
<1> QED
  BY <1>1, <1>2, <1>3, <1>4, <1>5, <1>6, <1>7, <1>8 DEF R!Admit, Phases

(* What a client does by itself.                                           *)
LEMMA ClientIntroduces ==
    ASSUME IInv, NEW p \in Process, ClientStep(p) PROVE [R!Next]_(R!vars)
<1>0. LifeTypeOK /\ main \in [Process -> Main] /\ HistoryOK
  BY RequestsType DEF IInv, LifeTypeOK
<1>1. Phases[p] = PhaseAt(main[p])
  BY PhaseIs
<1>2. UNCHANGED redisVars
  BY DEF ClientStep, Starts, Announces, Stops, Returns
<1>3. Listed' = Listed
  BY <1>2 DEF redisVars, Listed
<1>4. ASSUME main' = main, knows' = knows, trouble' = trouble, UNCHANGED history
      PROVE  [R!Next]_(R!vars)
  BY <1>3, <1>4, PhasesKept DEF R!vars, Phases, history
<1>4a. ASSUME Forgotten, \A q \in Process : Over(q)' => Over(q) PROVE UNCHANGED history
  <2>1. lapsed' = lapsed
    BY <1>0, <1>4a DEF Forgotten, HistoryOK
  <2>2. missed' = missed
    BY <1>0, <1>4a DEF Forgotten, HistoryOK
  <2> QED
    BY <2>1, <2>2 DEF history
<1>5. ASSUME NEW at \in {"panicked", "exited"}, Dies(p, at), ~Over(p), Forgotten
      PROVE  [R!Next]_(R!vars)
  <2>0. /\ main' = [main EXCEPT ![p] = at] /\ trouble' = trouble
        /\ knows' = [knows EXCEPT ![p] = {}]
    BY <1>5 DEF Dies
  <2>1. Phases' = [Phases EXCEPT ![p] = "gone"]
    BY <1>0, <2>0, PhaseMoves DEF PhaseAt, Main
  <2>2. Phases[p] # "gone"
    BY <1>0, <1>1, <1>5 DEF PhaseAt, Over, Main
  <2>3. \A q \in Process : Over(q)' <=> Over(q) \/ q = p
    BY <1>0, <2>0 DEF Over
  <2>4. lapsed' = lapsed \ {p}
    BY <1>0, <1>5, <2>3 DEF Forgotten, HistoryOK
  <2>5. missed' = { pair \in missed : p \notin pair }
    BY <1>0, <1>5, <2>3 DEF Forgotten, HistoryOK
  <2>6. R!Exit(p)
    BY <1>3, <2>0, <2>1, <2>2, <2>4, <2>5 DEF R!Exit, Phases
  <2> QED
    BY <2>6 DEF R!Next
<1>6. CASE Starts(p)
  <2>1. /\ main[p] = "listening" /\ main' = [main EXCEPT ![p] = "starting"]
        /\ knows' = knows /\ trouble' = trouble
        /\ lapsed' = lapsed /\ missed' = missed \cup { {p, q} : q \in lapsed }
    BY <1>6 DEF Starts, AnnounceStarted, Moves
  <2>2. Phases' = [Phases EXCEPT ![p] = "starting"]
    BY <1>0, <2>1, PhaseMoves DEF PhaseAt, Main
  <2>3. R!Start(p)
    BY <1>1, <1>3, <2>1, <2>2 DEF R!Start, Phases, PhaseAt
  <2> QED
    BY <2>3 DEF R!Next
<1>7. CASE Announces(p)
  BY <1>4, <1>7 DEF Announces, lifeVars
<1>8. CASE Stops(p)
  <2>1. /\ main[p] = "running" /\ main' = [main EXCEPT ![p] = "stopping"]
        /\ knows' = knows /\ trouble' = trouble /\ lapsed' = lapsed /\ missed' = missed
    BY <1>8 DEF Stops, LeaveLoop, Moves, history
  <2>2. Phases' = [Phases EXCEPT ![p] = "stopping"]
    BY <1>0, <2>1, PhaseMoves DEF PhaseAt, Main
  <2>3. R!Quit(p)
    BY <1>1, <1>3, <2>1, <2>2 DEF R!Quit, Phases, PhaseAt
  <2> QED
    BY <2>3 DEF R!Next
<1>9. CASE Returns(p)
  BY <1>5, <1>9 DEF Returns, DeferredStop, Over
<1>10. ASSUME Listen(p), Forgotten PROVE [R!Next]_(R!vars)
  <2>1. /\ main[p] = "off" /\ main' = [main EXCEPT ![p] = "listening"]
        /\ knows' = knows /\ trouble' = trouble
    BY <1>10 DEF Listen, Moves
  <2>2. Phases' = [Phases EXCEPT ![p] = "off"]
    BY <1>0, <2>1, PhaseMoves DEF PhaseAt, Main
  <2>3. Phases' = Phases
    BY <1>1, <2>1, <2>2 DEF PhaseAt, Phases
  <2>4. UNCHANGED history
    BY <1>0, <1>4a, <1>10, <2>1 DEF Over
  <2> QED
    BY <1>3, <2>1, <2>3, <2>4 DEF R!vars, Phases, history
<1>11. ASSUME main' = main, knows' = knows, trouble' = trouble, Forgotten PROVE [R!Next]_(R!vars)
  BY <1>4, <1>4a, <1>11 DEF Over
<1>12. ASSUME CloseListener(p), Forgotten PROVE [R!Next]_(R!vars)
  <2>1. CASE main[p] = "off"
    BY <1>5, <1>12, <2>1 DEF CloseListener
  <2>2. CASE main[p] # "off"
    BY <1>11, <1>12, <2>2 DEF CloseListener
  <2> QED
    BY <2>1, <2>2
<1>13. ASSUME OsExit(p) \/ Crash(p) \/ StartFails(p), Forgotten PROVE [R!Next]_(R!vars)
  BY <1>5, <1>13 DEF OsExit, Crash, StartFails, Over
<1>14. ASSUME Recover(p), Forgotten PROVE [R!Next]_(R!vars)
  <2>1. main' = main /\ knows' = knows /\ trouble' = trouble \ {p}
    BY <1>14 DEF Recover
  <2>2. Phases' = Phases
    BY <2>1, PhasesKept
  <2>3. UNCHANGED history
    BY <1>4a, <1>14, <2>1 DEF Over
  <2>4. R!Recover(p)
    BY <1>3, <2>1, <2>2, <2>3 DEF R!Recover, Phases, history
  <2> QED
    BY <2>4 DEF R!Next
<1>15. ASSUME Signal(p), Forgotten PROVE [R!Next]_(R!vars)
  BY <1>11, <1>15 DEF Signal
<1> QED
  BY <1>6, <1>7, <1>8, <1>9, <1>10, <1>12, <1>13, <1>14, <1>15 DEF ClientStep, LifeAlone

(* A step that only writes to Redis registers, or forgets, or neither.     *)
LEMMA RegisterOrForget ==
    ASSUME UNCHANGED lifeVars, missed' = missed,
           \/ Listed' = Listed /\ lapsed' = lapsed
           \/ \E p \in Process :
                 ~Unstarted(p) /\ Listed' = Listed \cup {p} /\ lapsed' = lapsed \ {p}
           \/ \E S \in SUBSET Process :
                 /\ \A p \in S \ Lossy : Leaving(p)
                 /\ Listed' = Listed \ S /\ lapsed' = lapsed
    PROVE  [R!Next]_(R!vars)
<1>1. Phases' = Phases /\ knows' = knows /\ trouble' = trouble
  BY PhasesKept DEF lifeVars
<1>2. CASE Listed' = Listed /\ lapsed' = lapsed
  BY <1>1, <1>2 DEF R!vars, Phases
<1>3. ASSUME NEW p \in Process, ~Unstarted(p),
             Listed' = Listed \cup {p}, lapsed' = lapsed \ {p}
      PROVE  [R!Next]_(R!vars)
  <2>1. R!Register(p)
    BY <1>1, <1>3, PhaseOff DEF R!Register, Phases
  <2> QED
    BY <2>1 DEF R!Next
<1>4. ASSUME NEW S \in SUBSET Process, \A p \in S \ Lossy : Leaving(p),
             Listed' = Listed \ S, lapsed' = lapsed
      PROVE  [R!Next]_(R!vars)
  <2>1. \A p \in S \ Lossy : Phases[p] \in {"stopping", "gone"}
    BY <1>4, PhaseLeaving
  <2>2. R!Forget(S)
    BY <1>1, <1>4, <2>1 DEF R!Forget, Phases
  <2> QED
    BY <2>2 DEF R!Next
<1> QED
  BY <1>2, <1>3, <1>4

LEMMA HandlerIntroduces ==
    ASSUME IInv, NEW r \in requests, HandleAnnounce(r) \/ RequestFails(r)
    PROVE  [R!Next]_(R!vars)
<1>0. Typed /\ Unheard /\ StoppedLeaves /\ HistoryOK /\ r.peer \in Process
  BY RequestsType, RequestFields DEF IInv
<1>1. CASE AddPeer(r)
  <2>1. /\ UNCHANGED lifeVars /\ lapsed' = lapsed \ Listed' /\ missed' = missed
        /\ HSet(r.peer) \/ SAdd(r.peer) \/ Expire(r.peer)
    BY <1>0, <1>1, AddPeerEffect
  <2>2. ~Unstarted(r.peer)
    BY <1>0 DEF Unheard
  <2>3. Listed' = Listed \/ Listed' = Listed \cup {r.peer}
    BY <2>1 DEF HSet, SAdd, Expire, Listed
  <2>4. lapsed \cap Listed = {}
    BY <1>0 DEF HistoryOK
  <2> QED
    BY <1>0, <2>1, <2>2, <2>3, <2>4, RegisterOrForget
<1>2. CASE RemovePeer(r)
  <2>1. /\ UNCHANGED lifeVars /\ lapsed' = lapsed /\ missed' = missed
        /\ Del(r.peer) \/ SRem(r.peer)
        /\ r.step \in {"del", "srem"}
    BY <1>0, <1>2, RemovePeerEffect DEF history
  <2>2. Leaving(r.peer)
    BY <1>0, <2>1 DEF StoppedLeaves
  <2>3. Listed' = Listed \ {r.peer}
    BY <2>1 DEF Del, SRem, DropHash, DropMember, Listed
  <2>4. {r.peer} \in SUBSET Process /\ \A p \in {r.peer} \ Lossy : Leaving(p)
    BY <1>0, <2>2
  <2> QED
    BY <2>1, <2>3, <2>4, RegisterOrForget
<1>3. ASSUME UNCHANGED <<redisVars, lifeVars, history>> PROVE [R!Next]_(R!vars)
  <2>1. Listed' = Listed /\ lapsed' = lapsed /\ missed' = missed
    BY <1>3 DEF redisVars, Listed, history
  <2> QED
    BY <1>3, <2>1, RegisterOrForget
<1>4. CASE DrawPeers(r) \/ (\E q \in Process : GetPeer(r, q)) \/ RequestFails(r)
  BY <1>3, <1>4 DEF DrawPeers, GetPeer, RequestFails
<1>5. CASE Answer(r)
  <2>1. CASE main[r.peer] = "starting"
    <3>1. R!Admit(r.peer, r.found \ {r.peer})
      BY <1>5, <2>1, AnswerAdmits
    <3>2. r.found \ {r.peer} \in SUBSET Process
      BY <1>0, RequestsType, RequestFields
    <3> QED
      BY <1>0, <3>1, <3>2 DEF R!Next
  <2>2. CASE main[r.peer] # "starting"
    BY <1>3, <1>5, <2>2 DEF Answer
  <2> QED
    BY <2>1, <2>2
<1> QED
  BY <1>1, <1>2, <1>4, <1>5 DEF HandleAnnounce

LEMMA TimeIntroduces ==
    ASSUME IInv, UNCHANGED <<lifeVars, history>>,
           Cleanup \/ \E p \in Process : Silent(p) /\ HashExpires(p)
    PROVE  [R!Next]_(R!vars)
<1>0. RedisTypeOK /\ OldOver /\ CleanedNamed /\ trouble \subseteq Lossy
  BY RequestsType DEF IInv, LifeTypeOK
<1>1. UNCHANGED lifeVars /\ lapsed' = lapsed /\ missed' = missed
  BY DEF history
<1>2. \A p \in Process \ Lossy : p \in old \/ cleaning = p \/ Silent(p) => Leaving(p)
  BY <1>0 DEF OldOver, Over, Leaving, Silent
<1>3. ASSUME NEW p \in Process, Silent(p), HashExpires(p) PROVE [R!Next]_(R!vars)
  <2>1. Listed' = Listed \ {p}
    BY <1>3 DEF HashExpires, Del, DropHash, Listed
  <2>2. {p} \in SUBSET Process /\ \A q \in {p} \ Lossy : Leaving(q)
    BY <1>2, <1>3
  <2> QED
    BY <1>1, <2>1, <2>2, RegisterOrForget
<1>4. ASSUME NEW p \in Process, CleanupRead(p) PROVE [R!Next]_(R!vars)
  <2>1. Listed' = Listed
    BY <1>4 DEF CleanupRead, Listed
  <2> QED
    BY <1>1, <2>1, RegisterOrForget
<1>5. CASE CleanupSRem \/ CleanupDel
  <2>1. Listed' = Listed \ {cleaning} /\ cleaning # NoProcess
    BY <1>0, <1>5 DEF CleanupSRem, CleanupDel, DropHash, DropMember, CleanedNamed, Listed
  <2>2. {cleaning} \in SUBSET Process /\ \A p \in {cleaning} \ Lossy : Leaving(p)
    BY <1>0, <1>2, <2>1 DEF RedisTypeOK
  <2> QED
    BY <1>1, <2>1, <2>2, RegisterOrForget
<1> QED
  BY <1>3, <1>4, <1>5 DEF Cleanup

(* The set expires: all that were listed lapse.                            *)
LEMMA SetIntroduces == ASSUME IInv, SetLapses PROVE [R!Next]_(R!vars)
<1>1. trouble \subseteq Lossy
  BY RequestsType DEF IInv, LifeTypeOK
<1>2. /\ \A p \in Process : main[p] = "running" => p \in trouble
      /\ Listed' = {} /\ UNCHANGED lifeVars
      /\ lapsed' = lapsed \cup (Listed \cap Starting)
      /\ missed' = missed \cup { {p, q} : p \in Listed \cap Starting, q \in Starting }
  BY DEF SetLapses, SetExpires, Listed
<1>3. Phases' = Phases /\ knows' = knows /\ trouble' = trouble
  BY <1>2, PhasesKept DEF lifeVars
<1>4. \A p \in Process \ Lossy : Phases[p] # "running"
  BY <1>1, <1>2, PhaseIs DEF PhaseAt
<1>5. Starting = { p \in Process : Phases[p] = "starting" }
  BY PhaseIs DEF PhaseAt, Starting
<1>6. Listed \in SUBSET Process /\ Listed' = Listed \ Listed /\ Listed \cap Listed = Listed
  BY <1>2, RequestsType DEF IInv, RedisTypeOK, Listed
<1>7. R!Lapse(Listed)
  BY <1>2, <1>3, <1>4, <1>5, <1>6 DEF R!Lapse, Phases
<1> QED
  BY <1>6, <1>7 DEF R!Next

LEMMA IntroducesStep == IInv /\ [Next]_vars => [R!Next]_(R!vars)
<1> SUFFICES ASSUME IInv, [Next]_vars PROVE [R!Next]_(R!vars)
  OBVIOUS
<1>1. ASSUME NEW r \in requests, HandleAnnounce(r) \/ RequestFails(r) PROVE [R!Next]_(R!vars)
  BY <1>1, HandlerIntroduces
<1>2. ASSUME NEW p \in Process, ClientStep(p) PROVE [R!Next]_(R!vars)
  BY <1>2, ClientIntroduces
<1>3. ASSUME UNCHANGED <<lifeVars, history>>, Listed' = Listed PROVE [R!Next]_(R!vars)
  BY <1>3, RegisterOrForget DEF history
<1>4. ASSUME NEW p \in Process, GrowsOld(p) PROVE [R!Next]_(R!vars)
  BY <1>3, <1>4 DEF GrowsOld, Listed
<1>5. CASE InRedis(Cleanup) \/ \E p \in Process : HashLapses(p)
  BY <1>5, TimeIntroduces DEF InRedis, HashLapses
<1>6. CASE SetLapses
  BY <1>6, SetIntroduces
<1>7. CASE UNCHANGED vars
  BY <1>3, <1>7 DEF vars, redisVars, Listed
<1> QED
  BY <1>1, <1>2, <1>4, <1>5, <1>6, <1>7 DEF Next

(* The tracker with its Redis storage implements Rendezvous.  Commands of  *)
(* the handlers in tracker/server.go and of CleanupExpiredPeers in         *)
(* tracker/redis_storage.go come between one another, hashes expire, the   *)
(* set expires even between the SADD and the EXPIRE of a process that      *)
(* starts, requests fail: a reliable process that is listed is not         *)
(* forgotten while it runs, and of two that fit in an answer one is told   *)
(* about the other, unless the set expired under one while it was starting.*)
THEOREM Refinement == Spec => Introduces
<1>1. Init => R!Init
  <2> SUFFICES ASSUME Init PROVE R!Init
    OBVIOUS
  <2>1. /\ main = [p \in Process |-> "off"] /\ knows = [p \in Process |-> {}]
        /\ trouble = Lossy /\ members = {} /\ lapsed = {} /\ missed = {}
    BY DEF Init, RedisInit, LifeInit
  <2>2. Phases = [p \in Process |-> "off"] /\ Listed = {}
    <3>1. \A p \in Process : Phases[p] = "off"
      BY <2>1, PhaseIs DEF PhaseAt
    <3>2. Phases = [p \in Process |-> Phases[p]]
      BY Zenon DEF Phases
    <3>3. Listed = {}
      BY <2>1 DEF Listed
    <3> QED
      BY <3>1, <3>2, <3>3
  <2> QED
    BY <2>1, <2>2 DEF R!Init, Phases
<1> QED
  BY <1>1, Invariance, IntroducesStep, PTL DEF Spec, Introduces, R!Spec

-----------------------------------------------------------------------------
(* What Rendezvous means for those who run. *)

\* Of two reliable processes of a torrent that fits in an answer, both of
\* which run, one was told of the other, unless they missed each other.
Acquainted ==
    Cardinality(Process) <= NumWant =>
        \A p, q \in Process \ Lossy :
            p # q /\ Phases[p] = "running" /\ Phases[q] = "running" =>
                q \in knows[p] \/ p \in knows[q] \/ {p, q} \in missed

LEMMA AcquaintedStep ==
    LifeTypeOK /\ Acquainted /\ [R!Next]_(R!vars) => Acquainted'
<1> SUFFICES ASSUME LifeTypeOK, Acquainted, [R!Next]_(R!vars) PROVE Acquainted'
  OBVIOUS
<1>1. /\ knows \in [Process -> SUBSET Process] /\ trouble \subseteq Lossy
      /\ Phases = [p \in Process |-> Phases[p]]
  BY DEF LifeTypeOK, Phases
<1>2. ASSUME knows' = knows, missed \subseteq missed',
             \A p \in Process : Phases'[p] = "running" => Phases[p] = "running"
      PROVE  Acquainted'
  BY <1>2 DEF Acquainted
<1>3. ASSUME NEW p \in Process, NEW phase \in {"starting", "stopping"},
             knows' = knows, missed \subseteq missed', Phases' = [Phases EXCEPT ![p] = phase]
      PROVE  Acquainted'
  <2>1. \A q \in Process : Phases'[q] = "running" => Phases[q] = "running"
    BY <1>1, <1>3
  <2> QED
    BY <1>2, <1>3, <2>1
<1>4. ASSUME knows' = knows, missed \subseteq missed', Phases' = Phases PROVE Acquainted'
  BY <1>2, <1>4
<1>5. ASSUME NEW p \in Process, R!Start(p) \/ R!Quit(p) PROVE Acquainted'
  BY <1>3, <1>5 DEF R!Start, R!Quit, Phases
<1>6. ASSUME NEW p \in Process, R!Register(p) \/ R!Recover(p) PROVE Acquainted'
  BY <1>4, <1>6 DEF R!Register, R!Recover, Phases
<1>7. ASSUME NEW S \in SUBSET Process, R!Forget(S) \/ R!Lapse(S) PROVE Acquainted'
  BY <1>4, <1>7 DEF R!Forget, R!Lapse, Phases
<1>8. ASSUME NEW p \in Process, R!Exit(p) PROVE Acquainted'
  <2>1. /\ Phases' = [Phases EXCEPT ![p] = "gone"] /\ knows' = [knows EXCEPT ![p] = {}]
        /\ missed' = { pair \in missed : p \notin pair }
    BY <1>8 DEF R!Exit, Phases
  <2>2. \A q \in Process : Phases'[q] = "running" =>
            q # p /\ Phases[q] = "running" /\ knows'[q] = knows[q]
    BY <1>1, <2>1
  <2>3. \A q, t \in Process : q # p /\ t # p /\ {q, t} \in missed => {q, t} \in missed'
    BY <2>1
  <2> QED
    BY <2>2, <2>3 DEF Acquainted
<1>9. ASSUME NEW p \in Process, NEW T \in SUBSET Process, R!Admit(p, T) PROVE Acquainted'
  <2>1. /\ Phases' = [Phases EXCEPT ![p] = "running"] /\ knows' = [knows EXCEPT ![p] = T]
        /\ missed' = missed
    BY <1>9 DEF R!Admit, Phases
  <2>2. /\ \A q \in Process : q # p => Phases'[q] = Phases[q] /\ knows'[q] = knows[q]
        /\ knows'[p] = T
    BY <1>1, <2>1
  <2>3. ASSUME Cardinality(Process) <= NumWant, p \notin Lossy,
               NEW q \in Process \ Lossy, q # p, Phases[q] = "running"
        PROVE  q \in T \/ p \in knows[q] \/ {p, q} \in missed
    <3>1. q \in R!Mates(p) \ Lossy
      BY <2>3 DEF R!Mates
    <3>2. p \notin trouble
      BY <1>1, <2>3
    <3> QED
      BY <1>9, <2>3, <3>1, <3>2 DEF R!Admit, Phases
  <2>4. \A q \in Process : {p, q} = {q, p}
    OBVIOUS
  <2> QED
    BY <2>1, <2>2, <2>3, <2>4 DEF Acquainted
<1>10. CASE UNCHANGED R!vars
  BY <1>4, <1>10 DEF R!vars, Phases
<1> QED
  BY <1>5, <1>6, <1>7, <1>8, <1>9, <1>10 DEF R!Next

(* Two clients that run found each other, though the commands of AddPeer   *)
(* and GetPeers of their announces came between one another, and hashes    *)
(* expired meanwhile (tracker/redis_storage.go), unless the set expired    *)
(* under one of them while both were starting, or under one, before its    *)
(* next announce, and then the other started.                              *)
THEOREM Acquaintance ==
    Spec => [](Cardinality(Process) <= NumWant =>
                 \A p, q \in Process \ Lossy :
                     p # q /\ main[p] = "running" /\ main[q] = "running" =>
                         q \in knows[p] \/ p \in knows[q] \/ {p, q} \in missed)
<1> DEFINE Goal == Cardinality(Process) <= NumWant =>
                 \A p, q \in Process \ Lossy :
                     p # q /\ main[p] = "running" /\ main[q] = "running" =>
                         q \in knows[p] \/ p \in knows[q] \/ {p, q} \in missed
<1>1. Init => Acquainted
  <2> SUFFICES ASSUME Init PROVE Acquainted
    OBVIOUS
  <2>1. \A p \in Process : main[p] = "off"
    BY DEF Init, LifeInit
  <2>2. \A p \in Process : Phases[p] = "off"
    BY <2>1, PhaseIs DEF PhaseAt
  <2> QED
    BY <2>2 DEF Acquainted
<1>2. IInv /\ Acquainted /\ [Next]_vars => Acquainted'
  BY AcquaintedStep, IntroducesStep DEF IInv, Typed
<1>3. Acquainted => Goal
  <2>1. \A p \in Process : main[p] = "running" => Phases[p] = "running"
    BY PhaseIs DEF PhaseAt
  <2> QED
    BY <2>1 DEF Acquainted
<1>4. Spec => []Goal
  <2> HIDE DEF Goal
  <2> QED
    BY <1>1, <1>2, <1>3, Invariance, PTL DEF Spec
<1> QED
  BY <1>4

=============================================================================
