---------------------------- MODULE TrackerProofs ----------------------------
(***************************************************************************)
(* Discovery for any number of processes, torrents and any numwant.  The   *)
(* argument: from the moment a process's "started" is stored until it      *)
(* announces "stopped" or is gone, it is registered, because nothing else  *)
(* takes it out; so of two processes the one whose list is read last finds *)
(* the other in it.                                                        *)
(***************************************************************************)
EXTENDS Tracker, FiniteSetTheorems, TLAPS

LEMMA MovedType ==
    ASSUME TypeOK, NEW r \in requests, NEW step \in Step
    PROVE  Moved(r, step) \subseteq [peer : Peer, event : Event, left : Nat, step : Step]
  BY DEF Moved, TypeOK

LEMMA RequestType ==
    ASSUME NEW p \in Peer, NEW event \in Event, NEW l \in Nat
    PROVE  Request(p, event, l) \in [peer : Peer, event : Event, left : Nat, step : Step]
  BY DEF Request, Step

LEMMA InitType == Init => TypeOK
  BY TrackerConstants DEF Init, TypeOK, Phase

LEMMA AddPeerType ==
    ASSUME TypeOK, NEW p \in Peer, NEW l \in Nat, AddPeer(p, l)
    PROVE  /\ registered' \subseteq Peer /\ left' \in [Peer -> Nat]
           /\ members' \in [Hash -> SUBSET Peer] /\ completed' \in [Hash -> Nat]
           /\ old' \subseteq registered'
  BY TrackerConstants DEF TypeOK, AddPeer

LEMMA RemovePeersType ==
    ASSUME TypeOK, NEW S, RemovePeers(S)
    PROVE  /\ registered' \subseteq Peer /\ left' \in [Peer -> Nat]
           /\ members' \in [Hash -> SUBSET Peer] /\ completed' \in [Hash -> Nat]
           /\ old' \subseteq registered'
  BY DEF TypeOK, RemovePeers

LEMMA TypeStep == TypeOK /\ [Next]_vars => TypeOK'
<1> SUFFICES ASSUME TypeOK, [Next]_vars PROVE TypeOK'
  OBVIOUS
<1>1. CASE UNCHANGED vars
  BY <1>1 DEF TypeOK, vars, storeVars, clientVars
<1>2. ASSUME NEW r \in requests, StoreAnnounce(r) PROVE TypeOK'
  <2>1. r \in [peer : Peer, event : Event, left : Nat, step : Step]
    BY DEF TypeOK
  <2>2. Moved(r, "count") \subseteq [peer : Peer, event : Event, left : Nat, step : Step]
        /\ Moved(r, "list") \subseteq [peer : Peer, event : Event, left : Nat, step : Step]
    BY MovedType DEF Step
  <2>3. requests' \subseteq [peer : Peer, event : Event, left : Nat, step : Step]
    BY <1>2, <2>2 DEF StoreAnnounce, TypeOK
  <2>4. \/ RemovePeers({r.peer})
        \/ AddPeer(r.peer, 0)
        \/ AddPeer(r.peer, r.left)
    BY <1>2 DEF StoreAnnounce
  <2>5. /\ registered' \subseteq Peer /\ left' \in [Peer -> Nat]
        /\ members' \in [Hash -> SUBSET Peer] /\ completed' \in [Hash -> Nat]
        /\ old' \subseteq registered'
    BY <2>1, <2>4, AddPeerType, RemovePeersType
  <2> QED
    BY <1>2, <2>3, <2>5 DEF StoreAnnounce, clientVars, TypeOK
<1>3. ASSUME NEW r \in requests, CountCompleted(r) PROVE TypeOK'
  <2>1. r.peer \in Peer
    BY DEF TypeOK
  <2>2. InfoHash[r.peer] \in Hash
    BY <2>1, TrackerConstants
  <2>3. completed' \in [Hash -> Nat]
    <3>1. completed \in [Hash -> Nat]
      BY DEF TypeOK
    <3>2. completed' = [completed EXCEPT ![InfoHash[r.peer]] = completed[InfoHash[r.peer]] + 1]
      BY <1>3 DEF CountCompleted
    <3> QED
      BY <2>2, <3>1, <3>2
  <2>4. requests' \subseteq [peer : Peer, event : Event, left : Nat, step : Step]
    BY <1>3, MovedType DEF CountCompleted, Step
  <2> QED
    BY <1>3, <2>3, <2>4 DEF CountCompleted, clientVars, TypeOK
<1>4. ASSUME NEW r \in requests, ListPeers(r) PROVE TypeOK'
  <2>1. PICK T \in GetPeers(InfoHash[r.peer], NumWant) :
            IF r.event = "started" /\ phase[r.peer] = "starting"
            THEN /\ knows' = [knows EXCEPT ![r.peer] = T \ {r.peer}]
                 /\ phase' = [phase EXCEPT ![r.peer] = "running"]
            ELSE UNCHANGED <<knows, phase>>
    BY <1>4 DEF ListPeers
  <2>2. T \subseteq Peer
    BY DEF GetPeers, TypeOK
  <2>3. knows' \in [Peer -> SUBSET Peer] /\ phase' \in [Peer -> Phase]
    <3>1. /\ knows \in [Peer -> SUBSET Peer] /\ phase \in [Peer -> Phase]
          /\ T \ {r.peer} \in SUBSET Peer /\ "running" \in Phase
      BY <2>2 DEF TypeOK, Phase
    <3> HIDE DEF Phase
    <3>2. CASE r.event = "started" /\ phase[r.peer] = "starting"
      BY <2>1, <3>1, <3>2
    <3>3. CASE ~(r.event = "started" /\ phase[r.peer] = "starting")
      BY <2>1, <3>1, <3>3
    <3> QED
      BY <3>2, <3>3
  <2> QED
    BY <1>4, <2>3 DEF ListPeers, storeVars, TypeOK
<1>5. ASSUME NEW r \in requests, LoseRequest(r) PROVE TypeOK'
  BY <1>5 DEF LoseRequest, storeVars, clientVars, TypeOK
<1>6. ASSUME NEW p \in Peer, ClientStep(p) PROVE TypeOK'
  <2>1. CASE Start(p)
    <3>1. Request(p, "started", 0) \in [peer : Peer, event : Event, left : Nat, step : Step]
      BY RequestType DEF Event
    <3> QED
      BY <2>1, <3>1 DEF Start, storeVars, TypeOK, Phase
  <2>2. CASE ReceivePiece(p)
    <3>1. missing' \in [Peer -> Nat]
      <4>1. missing \in [Peer -> Nat]
        BY DEF TypeOK
      <4>2. \/ missing[p] > 0 /\ missing' = [missing EXCEPT ![p] = missing[p] - 1]
            \/ missing' = missing
        BY <2>2 DEF ReceivePiece, SecondCopy
      <4> QED
        BY <4>1, <4>2
    <3>2. PICK new \in SUBSET {"", "completed"} :
              tasks' = [tasks EXCEPT ![p] = tasks[p] \cup {""} \cup new]
      BY <2>2 DEF ReceivePiece, SecondCopy
    <3>3. tasks' \in [Peer -> SUBSET {"", "completed"}]
      BY <3>2 DEF TypeOK
    <3> QED
      BY <2>2, <3>1, <3>3 DEF ReceivePiece, SecondCopy, storeVars, TypeOK
  <2>3. CASE AnnounceTick(p)
    BY <2>3 DEF AnnounceTick, storeVars, TypeOK
  <2>4. ASSUME NEW event \in {"", "completed"}, MakeAnnounce(p, event) PROVE TypeOK'
    <3>1. Request(p, event, missing[p]) \in [peer : Peer, event : Event, left : Nat, step : Step]
      BY RequestType DEF Event, TypeOK
    <3> QED
      BY <2>4, <3>1 DEF MakeAnnounce, storeVars, TypeOK
  <2>5. CASE Quit(p)
    <3>1. Request(p, "stopped", missing[p]) \in [peer : Peer, event : Event, left : Nat, step : Step]
      BY RequestType DEF Event, TypeOK
    <3> QED
      BY <2>5, <3>1 DEF Quit, storeVars, TypeOK, Phase
  <2>6. CASE Exit(p)
    BY <2>6 DEF Exit, storeVars, TypeOK, Phase
  <2> QED
    BY <1>6, <2>1, <2>2, <2>3, <2>4, <2>5, <2>6 DEF ClientStep
<1>7. ASSUME NEW p \in Peer, GrowOld(p) PROVE TypeOK'
  BY <1>7 DEF GrowOld, clientVars, TypeOK
<1>8. CASE CleanupExpiredPeers
  BY <1>8, RemovePeersType DEF CleanupExpiredPeers, clientVars, TypeOK
<1> QED
  BY <1>1, <1>2, <1>3, <1>4, <1>5, <1>6, <1>7, <1>8 DEF Next, HandleAnnounce

(* The tracker's variables keep their types.                               *)
THEOREM TypeCorrect == Spec => []TypeOK
  BY InitType, TypeStep, PTL DEF Spec

-----------------------------------------------------------------------------
(* A storage call keeps the two maps in step.                              *)
LEMMA MapsStep == TypeOK /\ MapsAgree /\ [Next]_vars => MapsAgree'
<1> SUFFICES ASSUME TypeOK, MapsAgree, [Next]_vars PROVE MapsAgree'
  OBVIOUS
<1>1. ASSUME UNCHANGED <<registered, members>> PROVE MapsAgree'
  BY <1>1 DEF MapsAgree
<1>2. ASSUME NEW p \in Peer, NEW l, AddPeer(p, l) PROVE MapsAgree'
  BY <1>2, TrackerConstants DEF AddPeer, MapsAgree, TypeOK
<1>3. ASSUME NEW S, RemovePeers(S) PROVE MapsAgree'
  BY <1>3 DEF RemovePeers, MapsAgree
<1>4. \/ UNCHANGED <<registered, members>>
      \/ \E p \in Peer : \E l \in Nat : AddPeer(p, l)
      \/ \E S \in {old} \cup { {p} : p \in Peer } : RemovePeers(S)
  <2>1. ASSUME NEW r \in requests, StoreAnnounce(r)
        PROVE  \/ \E p \in Peer : \E l \in Nat : AddPeer(p, l)
               \/ \E S \in {old} \cup { {p} : p \in Peer } : RemovePeers(S)
    <3>1. r.peer \in Peer /\ r.left \in Nat
      BY DEF TypeOK
    <3>2. RemovePeers({r.peer}) \/ AddPeer(r.peer, 0) \/ AddPeer(r.peer, r.left)
      BY <2>1 DEF StoreAnnounce
    <3> QED
      BY <3>1, <3>2
  <2>2. ASSUME NEW r \in requests, CountCompleted(r) \/ ListPeers(r) \/ LoseRequest(r)
        PROVE  UNCHANGED <<registered, members>>
    BY <2>2 DEF CountCompleted, ListPeers, LoseRequest, storeVars
  <2>3. ASSUME NEW p \in Peer, ClientStep(p) \/ GrowOld(p)
        PROVE  UNCHANGED <<registered, members>>
    BY <2>3 DEF ClientStep, GrowOld, Start, ReceivePiece, SecondCopy, AnnounceTick, MakeAnnounce,
       Quit, Exit, storeVars
  <2>4. CASE CleanupExpiredPeers
    BY <2>4 DEF CleanupExpiredPeers
  <2>5. CASE UNCHANGED vars
    BY <2>5 DEF vars, storeVars
  <2> QED
    BY <2>1, <2>2, <2>3, <2>4, <2>5 DEF Next, HandleAnnounce
<1> QED
  BY <1>1, <1>2, <1>3, <1>4

(* The peers and torrents maps of the storage agree after every call.      *)
THEOREM MapsAgreeHolds == Spec => []MapsAgree
<1>1. Init => MapsAgree
  BY DEF Init, MapsAgree
<1> QED
  BY <1>1, MapsStep, TypeCorrect, PTL DEF Spec

-----------------------------------------------------------------------------
(* p's "started" is stored, and p has not asked to leave.                  *)
Announced(p) ==
    \/ phase[p] = "running"
    \/ /\ phase[p] = "starting"
       /\ \E r \in requests : r.peer = p /\ r.event = "started" /\ r.step = "list"

\* Whoever is announced stays registered, because only its own "stopped" and
\* the cleanup of what is old take a peer out.
StaysRegistered ==
    /\ \A p \in Peer : Announced(p) => p \in registered
    /\ \A p \in old : phase[p] = "gone"
    /\ \A r \in requests : r.event = "stopped" => phase[r.peer] \in {"stopping", "gone"}
    /\ \A r \in requests : phase[r.peer] # "off"
    /\ \A r \in requests : r.step = "count" => r.event = "completed"

(* A handler that goes one step further is still the same announce.        *)
LEMMA MovedSame ==
    ASSUME TypeOK, NEW r \in requests, NEW step \in Step
    PROVE  \A q \in Moved(r, step) :
               q \in requests \/ (q.peer = r.peer /\ q.event = r.event /\ q.step = step)
<1>1. r \in [peer : Peer, event : Event, left : Nat, step : Step]
  BY DEF TypeOK
<1> DEFINE m == [r EXCEPT !.step = step]
<1>2. m.peer = r.peer /\ m.event = r.event /\ m.step = step
  BY <1>1
<1>3. Moved(r, step) = (requests \ {r}) \cup {m}
  BY DEF Moved
<1> HIDE DEF m
<1> QED
  BY <1>2, <1>3

LEMMA StaysInit == Init => StaysRegistered
  BY DEF Init, StaysRegistered, Announced

LEMMA StaysStep == TypeOK /\ StaysRegistered /\ [Next]_vars => StaysRegistered'
<1> SUFFICES ASSUME TypeOK, StaysRegistered, [Next]_vars PROVE StaysRegistered'
  OBVIOUS
<1>1. CASE UNCHANGED vars
  BY <1>1 DEF StaysRegistered, Announced, vars, storeVars, clientVars
<1>2. ASSUME NEW r \in requests, StoreAnnounce(r) PROVE StaysRegistered'
  <2>1. UNCHANGED phase
    BY <1>2 DEF StoreAnnounce, clientVars
  <2>2. \/ requests' = requests \ {r}
        \/ requests' = Moved(r, "count")
        \/ requests' = Moved(r, "list")
    BY <1>2 DEF StoreAnnounce
  <2>3. \A q \in requests' : \/ q \in requests
                             \/ q.peer = r.peer /\ q.event = r.event
    <3>1. "count" \in Step /\ "list" \in Step
      BY DEF Step
    <3> QED
      BY <2>2, <3>1, MovedSame
  <2>8. \A q \in requests' : q.step = "count" => q.event = "completed"
    <3>1. "count" \in Step /\ "list" \in Step
      BY DEF Step
    <3>2. requests' = Moved(r, "count") => r.event = "completed"
      <4>1. CASE requests' = Moved(r, "count") /\ r.event # "completed"
        <5>1. requests' = Moved(r, "list") \/ requests' = requests \ {r}
          BY <1>2, <4>1 DEF StoreAnnounce
        <5>2. [r EXCEPT !.step = "count"] \in requests'
          BY <4>1 DEF Moved
        <5>3. r.step = "sent" /\ r \in [peer : Peer, event : Event, left : Nat, step : Step]
          BY <1>2 DEF StoreAnnounce, TypeOK
        <5>4. [r EXCEPT !.step = "count"].step = "count"
              /\ [r EXCEPT !.step = "count"].event = r.event
          BY <5>3
        <5>5. [r EXCEPT !.step = "count"] \in requests
          BY <5>1, <5>2, <5>4, MovedSame, <3>1
        <5> QED
          BY <4>1, <5>4, <5>5 DEF StaysRegistered
      <4> QED
        BY <4>1
    <3> QED
      BY <2>2, <3>1, <3>2, MovedSame DEF StaysRegistered
  <2>4. CASE r.event = "stopped"
    <3>1. RemovePeers({r.peer}) /\ requests' = requests \ {r}
      BY <1>2, <2>4 DEF StoreAnnounce
    <3>2. phase[r.peer] \in {"stopping", "gone"}
      BY <2>4 DEF StaysRegistered
    <3> QED
      BY <2>1, <2>8, <3>1, <3>2 DEF StaysRegistered, Announced, RemovePeers
  <2>5. CASE r.event # "stopped"
    <3>1. registered' = registered \cup {r.peer} /\ old' = old \ {r.peer}
      BY <1>2, <2>5 DEF StoreAnnounce, AddPeer
    <3>2. \A p \in Peer : Announced(p)' => p \in registered'
      <4> SUFFICES ASSUME NEW p \in Peer, Announced(p)', p # r.peer
                   PROVE  Announced(p)
        BY <3>1 DEF StaysRegistered
      <4> QED
        BY <2>1, <2>3 DEF Announced
    <3> QED
      BY <2>1, <2>3, <2>5, <2>8, <3>1, <3>2 DEF StaysRegistered
  <2> QED
    BY <2>4, <2>5
<1>3. ASSUME NEW r \in requests, CountCompleted(r) PROVE StaysRegistered'
  <2>1. UNCHANGED <<registered, old, phase>> /\ requests' = Moved(r, "list")
    BY <1>3 DEF CountCompleted, clientVars
  <2>2. r.event = "completed"
    BY <1>3 DEF CountCompleted, StaysRegistered
  <2>3. \A q \in requests' :
            q \in requests \/ (q.peer = r.peer /\ q.event = "completed" /\ q.step = "list")
    BY <2>1, <2>2, MovedSame DEF Step
  <2> QED
    BY <2>1, <2>3 DEF StaysRegistered, Announced
<1>4. ASSUME NEW r \in requests, ListPeers(r) PROVE StaysRegistered'
  <2>1. UNCHANGED <<registered, old>> /\ requests' = requests \ {r} /\ r.step = "list"
    BY <1>4 DEF ListPeers, storeVars
  <2>2. CASE r.event = "started" /\ phase[r.peer] = "starting"
    <3>1. phase' = [phase EXCEPT ![r.peer] = "running"]
      BY <1>4, <2>2 DEF ListPeers
    <3>2. Announced(r.peer) /\ r.peer \in Peer
      BY <2>1, <2>2 DEF Announced, TypeOK
    <3> QED
      BY <2>1, <2>2, <3>1, <3>2 DEF StaysRegistered, Announced, TypeOK
  <2>3. CASE ~(r.event = "started" /\ phase[r.peer] = "starting")
    <3>1. UNCHANGED phase
      BY <1>4, <2>3 DEF ListPeers
    <3> QED
      BY <2>1, <3>1 DEF StaysRegistered, Announced
  <2> QED
    BY <2>2, <2>3
<1>5. ASSUME NEW r \in requests, LoseRequest(r) PROVE StaysRegistered'
  BY <1>5 DEF LoseRequest, storeVars, clientVars, StaysRegistered, Announced
<1>6. ASSUME NEW p \in Peer, ClientStep(p) PROVE StaysRegistered'
  <2>1. UNCHANGED <<registered, old>>
    BY <1>6 DEF ClientStep, Start, ReceivePiece, SecondCopy, AnnounceTick, MakeAnnounce, Quit, Exit,
       storeVars
  <2>2. CASE Start(p)
    <3>1. /\ phase[p] = "off" /\ phase' = [phase EXCEPT ![p] = "starting"]
          /\ requests' = requests \cup {Request(p, "started", 0)}
      BY <2>2 DEF Start
    <3>2. \A r \in requests : r.peer # p
      BY <3>1 DEF StaysRegistered
    <3>3. /\ Request(p, "started", 0).peer = p
          /\ Request(p, "started", 0).event = "started"
          /\ Request(p, "started", 0).step = "sent"
      BY DEF Request
    <3>4. p \notin old
      BY <3>1 DEF StaysRegistered
    <3>5. \A q \in Peer : Announced(q)' => Announced(q)
      BY <3>1, <3>2, <3>3 DEF Announced, TypeOK
    <3>6. \A q \in Peer : phase'[q] = IF q = p THEN "starting" ELSE phase[q]
      BY <3>1 DEF TypeOK
    <3>7. (\A q \in old : q \in Peer) /\ \A r \in requests : r.peer \in Peer
      BY DEF TypeOK
    <3> QED
      BY <2>1, <3>1, <3>2, <3>3, <3>4, <3>5, <3>6, <3>7 DEF StaysRegistered
  <2>3. CASE ReceivePiece(p) \/ AnnounceTick(p)
    BY <2>1, <2>3 DEF ReceivePiece, SecondCopy, AnnounceTick, StaysRegistered, Announced
  <2>4. ASSUME NEW event \in {"", "completed"}, MakeAnnounce(p, event)
        PROVE  StaysRegistered'
    <3>1. /\ UNCHANGED phase /\ phase[p] # "off"
          /\ requests' = requests \cup {Request(p, event, missing[p])}
      BY <2>4 DEF MakeAnnounce
    <3>2. /\ Request(p, event, missing[p]).peer = p
          /\ Request(p, event, missing[p]).event = event
          /\ Request(p, event, missing[p]).step = "sent"
      BY DEF Request
    <3> QED
      BY <2>1, <3>1, <3>2 DEF StaysRegistered, Announced
  <2>5. CASE Quit(p)
    <3>1. /\ phase[p] = "running" /\ phase' = [phase EXCEPT ![p] = "stopping"]
          /\ requests' = requests \cup {Request(p, "stopped", missing[p])}
      BY <2>5 DEF Quit
    <3>2. /\ Request(p, "stopped", missing[p]).peer = p
          /\ Request(p, "stopped", missing[p]).event = "stopped"
          /\ Request(p, "stopped", missing[p]).step = "sent"
      BY DEF Request
    <3>3. \A q \in Peer : Announced(q)' => Announced(q)
      BY <3>1, <3>2 DEF Announced, TypeOK
    <3>4. \A r \in requests : r.peer \in Peer
      BY DEF TypeOK
    <3>5. \A q \in Peer : phase'[q] = IF q = p THEN "stopping" ELSE phase[q]
      BY <3>1 DEF TypeOK
    <3>6. p \notin old /\ \A q \in old : q \in Peer
      BY <3>1 DEF StaysRegistered, TypeOK
    <3> QED
      BY <2>1, <3>1, <3>2, <3>3, <3>4, <3>5, <3>6 DEF StaysRegistered
  <2>6. CASE Exit(p)
    <3>1. UNCHANGED requests /\ phase' = [phase EXCEPT ![p] = "gone"]
      BY <2>6 DEF Exit
    <3> QED
      BY <2>1, <3>1 DEF StaysRegistered, Announced, TypeOK
  <2> QED
    BY <1>6, <2>2, <2>3, <2>4, <2>5, <2>6 DEF ClientStep
<1>7. ASSUME NEW p \in Peer, GrowOld(p) PROVE StaysRegistered'
  BY <1>7 DEF GrowOld, clientVars, StaysRegistered, Announced
<1>8. CASE CleanupExpiredPeers
  BY <1>8 DEF CleanupExpiredPeers, RemovePeers, clientVars, StaysRegistered, Announced
<1> QED
  BY <1>1, <1>2, <1>3, <1>4, <1>5, <1>6, <1>7, <1>8 DEF Next, HandleAnnounce

(* A list that fits in numwant is the whole list.                          *)
LEMMA WholeList ==
    ASSUME TypeOK, NEW h \in Hash, NEW T \in GetPeers(h, NumWant), MapsAgree,
           Cardinality({ x \in Peer : InfoHash[x] = h }) <= NumWant
    PROVE  T = members[h] \cap registered
<1> DEFINE there == members[h] \cap registered
<1> DEFINE torrent == { x \in Peer : InfoHash[x] = h }
<1>1. torrent \subseteq Peer /\ IsFiniteSet(torrent)
  BY FS_Subset, TrackerConstants
<1>2. there \subseteq torrent
  BY DEF MapsAgree, TypeOK
<1>3. IsFiniteSet(there) /\ Cardinality(there) <= Cardinality(torrent)
  BY <1>1, <1>2, FS_Subset
<1>4. /\ Cardinality(there) \in Nat /\ Cardinality(torrent) \in Nat /\ NumWant \in Nat
      /\ Cardinality(torrent) <= NumWant
  BY <1>1, <1>3, FS_CardinalityType, TrackerConstants
<1>5. CASE Cardinality(T) = NumWant /\ T # there
  <2>1. T \subseteq there
    BY DEF GetPeers
  <2>2. Cardinality(T) <= Cardinality(there) /\ Cardinality(T) # Cardinality(there)
    BY <1>3, <1>5, <2>1, FS_Subset
  <2> QED
    BY <1>3, <1>4, <1>5, <2>2
<1> QED
  BY <1>5 DEF GetPeers

LEMMA DiscoveryStep ==
    TypeOK /\ MapsAgree /\ StaysRegistered /\ Discovery /\ [Next]_vars => Discovery'
<1> SUFFICES ASSUME TypeOK, MapsAgree, StaysRegistered, Discovery, [Next]_vars
             PROVE  Discovery'
  OBVIOUS
<1>1. ASSUME NEW r \in requests, ListPeers(r),
             r.event = "started" /\ phase[r.peer] = "starting"
      PROVE  Discovery'
  <2>1. PICK T \in GetPeers(InfoHash[r.peer], NumWant) :
            /\ knows' = [knows EXCEPT ![r.peer] = T \ {r.peer}]
            /\ phase' = [phase EXCEPT ![r.peer] = "running"]
    BY <1>1 DEF ListPeers
  <2>2. r.peer \in Peer /\ InfoHash[r.peer] \in Hash
    BY TrackerConstants DEF TypeOK
  <2>3. SUFFICES ASSUME NEW p \in Peer, NEW q \in Peer, p # q, InfoHash[p] = InfoHash[q],
                        phase'[p] = "running", phase'[q] = "running",
                        Cardinality({ x \in Peer : InfoHash[x] = InfoHash[p] }) <= NumWant
                 PROVE  p \in knows'[q] \/ q \in knows'[p]
    BY DEF Discovery
  <2>4. ASSUME NEW other \in Peer, other # r.peer, phase'[other] = "running",
               InfoHash[other] = InfoHash[r.peer],
               Cardinality({ x \in Peer : InfoHash[x] = InfoHash[r.peer] }) <= NumWant
        PROVE  other \in knows'[r.peer]
    <3>1. phase[other] = "running"
      BY <2>1, <2>2, <2>4 DEF TypeOK
    <3>2. other \in members[InfoHash[r.peer]] \cap registered
      BY <2>2, <2>4, <3>1 DEF StaysRegistered, Announced, MapsAgree
    <3>3. T = members[InfoHash[r.peer]] \cap registered
      BY <2>2, <2>4, WholeList
    <3> QED
      BY <2>1, <2>2, <2>4, <3>2, <3>3 DEF TypeOK
  <2>5. CASE p = r.peer
    BY <2>3, <2>4, <2>5
  <2>6. CASE q = r.peer
    BY <2>3, <2>4, <2>6
  <2>7. CASE p # r.peer /\ q # r.peer
    BY <2>1, <2>2, <2>3, <2>7 DEF Discovery, TypeOK
  <2> QED
    BY <2>5, <2>6, <2>7
<1>2. ASSUME \A p \in Peer : phase'[p] = "running" =>
                 phase[p] = "running" /\ knows'[p] = knows[p]
      PROVE  Discovery'
  BY <1>2 DEF Discovery
<1>3. ASSUME NEW p \in Peer, ClientStep(p)
      PROVE  \A q \in Peer : phase'[q] = "running" =>
                 phase[q] = "running" /\ knows'[q] = knows[q]
  BY <1>3 DEF ClientStep, Start, ReceivePiece, SecondCopy, AnnounceTick, MakeAnnounce, Quit, Exit, TypeOK
<1>4. ASSUME NEW r \in requests, StoreAnnounce(r) \/ CountCompleted(r) \/ LoseRequest(r)
      PROVE  UNCHANGED <<phase, knows>>
  BY <1>4 DEF StoreAnnounce, CountCompleted, LoseRequest, clientVars
<1>5. ASSUME NEW r \in requests, ListPeers(r),
             ~(r.event = "started" /\ phase[r.peer] = "starting")
      PROVE  UNCHANGED <<phase, knows>>
  BY <1>5 DEF ListPeers
<1>6. ASSUME NEW p \in Peer, GrowOld(p) PROVE UNCHANGED <<phase, knows>>
  BY <1>6 DEF GrowOld, clientVars
<1>7. ASSUME CleanupExpiredPeers \/ UNCHANGED vars PROVE UNCHANGED <<phase, knows>>
  BY <1>7 DEF CleanupExpiredPeers, vars, clientVars
<1> QED
  BY <1>1, <1>2, <1>3, <1>4, <1>5, <1>6, <1>7 DEF Next, HandleAnnounce

(* Of two processes of a torrent that have started, one was told about the *)
(* other: bootstrapNetwork leaves no pair without a dial.                  *)
THEOREM DiscoveryHolds == Spec => []Discovery
<1>1. Init => Discovery
  BY DEF Init, Discovery
<1>2. Spec => []StaysRegistered
  BY StaysInit, StaysStep, TypeCorrect, PTL DEF Spec
<1> QED
  BY <1>1, <1>2, DiscoveryStep, TypeCorrect, MapsAgreeHolds, PTL DEF Spec

-----------------------------------------------------------------------------
\* Only processes that have started are registered.
RegisteredStarted == \A p \in registered : phase[p] # "off"

LEMMA RegisteredStartedStep ==
    TypeOK /\ StaysRegistered /\ RegisteredStarted /\ [Next]_vars => RegisteredStarted'
<1> SUFFICES ASSUME TypeOK, StaysRegistered, RegisteredStarted, [Next]_vars
             PROVE  RegisteredStarted'
  OBVIOUS
<1>1. \A p \in Peer : phase[p] # "off" => phase'[p] # "off"
  <2>1. ASSUME NEW p \in Peer, ClientStep(p)
        PROVE  \A q \in Peer : phase[q] # "off" => phase'[q] # "off"
    BY <2>1 DEF ClientStep, Start, ReceivePiece, SecondCopy, AnnounceTick, MakeAnnounce, Quit, Exit, TypeOK
  <2>2. ASSUME NEW r \in requests, ListPeers(r)
        PROVE  \A q \in Peer : phase[q] # "off" => phase'[q] # "off"
    BY <2>2 DEF ListPeers, TypeOK
  <2>3. ASSUME NEW r \in requests, StoreAnnounce(r) \/ CountCompleted(r) \/ LoseRequest(r)
        PROVE  UNCHANGED phase
    BY <2>3 DEF StoreAnnounce, CountCompleted, LoseRequest, clientVars
  <2>4. ASSUME NEW p \in Peer, GrowOld(p) PROVE UNCHANGED phase
    BY <2>4 DEF GrowOld, clientVars
  <2>5. ASSUME CleanupExpiredPeers \/ UNCHANGED vars PROVE UNCHANGED phase
    BY <2>5 DEF CleanupExpiredPeers, vars, clientVars
  <2> QED
    BY <2>1, <2>2, <2>3, <2>4, <2>5 DEF Next, HandleAnnounce
<1>2. \A p \in registered' : p \in registered \/ \E r \in requests : r.peer = p
  <2>1. ASSUME NEW r \in requests, StoreAnnounce(r)
        PROVE  registered' \subseteq registered \cup {r.peer}
    BY <2>1 DEF StoreAnnounce, AddPeer, RemovePeers
  <2>2. ASSUME NEW r \in requests, CountCompleted(r) \/ ListPeers(r) \/ LoseRequest(r)
        PROVE  UNCHANGED registered
    BY <2>2 DEF CountCompleted, ListPeers, LoseRequest, storeVars
  <2>3. ASSUME NEW p \in Peer, ClientStep(p) \/ GrowOld(p) PROVE UNCHANGED registered
    BY <2>3 DEF ClientStep, GrowOld, Start, ReceivePiece, SecondCopy, AnnounceTick, MakeAnnounce,
       Quit, Exit, storeVars
  <2>4. CASE CleanupExpiredPeers
    BY <2>4 DEF CleanupExpiredPeers, RemovePeers
  <2>5. CASE UNCHANGED vars
    BY <2>5 DEF vars, storeVars
  <2> QED
    BY <2>1, <2>2, <2>3, <2>4, <2>5 DEF Next, HandleAnnounce
<1>3. \A r \in requests : r.peer \in Peer /\ phase[r.peer] # "off"
  BY DEF TypeOK, StaysRegistered
<1> QED
  BY <1>1, <1>2, <1>3 DEF RegisteredStarted, TypeOK

(* An answer to "started" is an admission.                                 *)
LEMMA ListAdmits ==
    ASSUME TypeOK, MapsAgree, StaysRegistered, RegisteredStarted,
           NEW r \in requests, ListPeers(r),
           r.event = "started", phase[r.peer] = "starting"
    PROVE  \E T \in SUBSET Peer : R!Admit(r.peer, T)
<1>1. PICK T \in GetPeers(InfoHash[r.peer], NumWant) :
          /\ knows' = [knows EXCEPT ![r.peer] = T \ {r.peer}]
          /\ phase' = [phase EXCEPT ![r.peer] = "running"]
  BY DEF ListPeers
<1>2. UNCHANGED registered /\ r.step = "list"
  BY DEF ListPeers, storeVars
<1>3. r.peer \in Peer /\ InfoHash[r.peer] \in Hash
  BY TrackerConstants DEF TypeOK
<1>4. r.peer \in registered
  BY <1>2, <1>3 DEF StaysRegistered, Announced
<1>5. T \subseteq members[InfoHash[r.peer]] \cap registered
  BY DEF GetPeers
<1>6. T \ {r.peer} \subseteq { q \in R!Mates(r.peer) : phase[q] # "off" }
  BY <1>3, <1>5 DEF MapsAgree, RegisteredStarted, TypeOK, R!Mates
<1> DEFINE torrent == { x \in Peer : InfoHash[x] = InfoHash[r.peer] }
<1>7. ASSUME Cardinality(torrent) <= NumWant, NEW q \in R!Mates(r.peer), phase[q] = "running"
      PROVE  q \in T \ {r.peer}
  <2>1. T = members[InfoHash[r.peer]] \cap registered
    BY <1>3, <1>7, WholeList
  <2>2. q \in registered /\ q # r.peer /\ InfoHash[q] = InfoHash[r.peer]
    BY <1>7 DEF StaysRegistered, Announced, R!Mates
  <2> QED
    BY <1>3, <2>1, <2>2 DEF MapsAgree
<1>8. T \ {r.peer} \in SUBSET Peer
  BY <1>5 DEF TypeOK
<1>9. R!Admit(r.peer, T \ {r.peer})
  BY <1>1, <1>2, <1>4, <1>6, <1>7 DEF R!Admit
<1> QED
  BY <1>8, <1>9

LEMMA IntroducesStep ==
    TypeOK /\ MapsAgree /\ StaysRegistered /\ RegisteredStarted /\ [Next]_vars
        => [R!Next]_(R!vars)
<1> SUFFICES ASSUME TypeOK, MapsAgree, StaysRegistered, RegisteredStarted, [Next]_vars
             PROVE  [R!Next]_(R!vars)
  OBVIOUS
<1>1. ASSUME UNCHANGED <<phase, registered, knows>> PROVE [R!Next]_(R!vars)
  BY <1>1 DEF R!vars
<1>2. ASSUME NEW r \in requests, StoreAnnounce(r) PROVE [R!Next]_(R!vars)
  <2>1. UNCHANGED <<phase, knows>> /\ r.peer \in Peer
    BY <1>2 DEF StoreAnnounce, clientVars, TypeOK
  <2>2. CASE r.event = "stopped"
    <3>1. registered' = registered \ {r.peer}
      BY <1>2, <2>2 DEF StoreAnnounce, RemovePeers
    <3>2. R!Forget({r.peer})
      BY <2>1, <2>2, <3>1 DEF R!Forget, StaysRegistered
    <3> QED
      BY <2>1, <3>2 DEF R!Next
  <2>3. CASE r.event # "stopped"
    <3>1. registered' = registered \cup {r.peer}
      BY <1>2, <2>3 DEF StoreAnnounce, AddPeer
    <3>2. R!Register(r.peer)
      BY <2>1, <3>1 DEF R!Register, StaysRegistered
    <3> QED
      BY <2>1, <3>2 DEF R!Next
  <2> QED
    BY <2>2, <2>3
<1>3. ASSUME NEW r \in requests, ListPeers(r) PROVE [R!Next]_(R!vars)
  <2>1. CASE r.event = "started" /\ phase[r.peer] = "starting"
    <3>1. r.peer \in Peer /\ \E T \in SUBSET Peer : R!Admit(r.peer, T)
      BY <1>3, <2>1, ListAdmits DEF TypeOK
    <3> QED
      BY <3>1 DEF R!Next
  <2>2. CASE ~(r.event = "started" /\ phase[r.peer] = "starting")
    BY <1>1, <1>3, <2>2 DEF ListPeers, storeVars
  <2> QED
    BY <2>1, <2>2
<1>4. ASSUME NEW r \in requests, CountCompleted(r) \/ LoseRequest(r) PROVE [R!Next]_(R!vars)
  BY <1>1, <1>4 DEF CountCompleted, LoseRequest, storeVars, clientVars
<1>5. ASSUME NEW p \in Peer, ClientStep(p) PROVE [R!Next]_(R!vars)
  <2>1. CASE Start(p)
    BY <2>1 DEF Start, storeVars, R!Start, R!Next
  <2>2. CASE Quit(p)
    BY <2>2 DEF Quit, storeVars, R!Quit, R!Next
  <2>3. CASE Exit(p)
    BY <2>3 DEF Exit, storeVars, R!Exit, R!Next
  <2>4. ASSUME ReceivePiece(p) \/ AnnounceTick(p)
               \/ \E event \in {"", "completed"} : MakeAnnounce(p, event)
        PROVE  [R!Next]_(R!vars)
    BY <1>1, <2>4 DEF ReceivePiece, SecondCopy, AnnounceTick, MakeAnnounce, storeVars
  <2> QED
    BY <1>5, <2>1, <2>2, <2>3, <2>4 DEF ClientStep
<1>6. ASSUME NEW p \in Peer, GrowOld(p) PROVE [R!Next]_(R!vars)
  BY <1>1, <1>6 DEF GrowOld, clientVars
<1>7. CASE CleanupExpiredPeers
  <2>1. registered' = registered \ old /\ UNCHANGED <<phase, knows>> /\ old \in SUBSET Peer
    BY <1>7 DEF CleanupExpiredPeers, RemovePeers, clientVars, TypeOK
  <2>2. R!Forget(old)
    BY <2>1 DEF R!Forget, StaysRegistered
  <2> QED
    BY <2>1, <2>2 DEF R!Next
<1>8. CASE UNCHANGED vars
  BY <1>1, <1>8 DEF vars, storeVars, clientVars
<1> QED
  BY <1>2, <1>3, <1>4, <1>5, <1>6, <1>7, <1>8 DEF Next, HandleAnnounce

(* The tracker with its memory storage implements Rendezvous: whatever the *)
(* handlers' storage calls come between, nobody that runs is forgotten, and*)
(* whoever is admitted is told of everyone who was not told of him.        *)
THEOREM Refinement == Spec => Introduces
<1>1. Init => R!Init
  BY DEF Init, R!Init
<1>2. Spec => []StaysRegistered
  BY StaysInit, StaysStep, TypeCorrect, PTL DEF Spec
<1>3. Init => RegisteredStarted
  BY DEF Init, RegisteredStarted
<1>4. Spec => []RegisteredStarted
  BY <1>2, <1>3, RegisteredStartedStep, TypeCorrect, PTL DEF Spec
<1> QED
  BY <1>1, <1>2, <1>4, IntroducesStep, TypeCorrect, MapsAgreeHolds, PTL
     DEF Spec, Introduces, R!Spec

=============================================================================
