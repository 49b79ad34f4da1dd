-------------------------------- MODULE Swarm --------------------------------
(***************************************************************************)
(* One node's Swarm (p2p/swarm.go) with the PeerState of each peer         *)
(* (p2p/peer_state.go): who is registered, who is choked, and the choking  *)
(* rounds.  Three kinds of goroutine work on it: the connection goroutines *)
(* (OnPeer, and the close of a connection), the server's single loop       *)
(* (SetPeerInterested, RecordDownload, the unchoke round) and, for a user  *)
(* of the package, RemovePeer and Close.  The round is two-phased, as in   *)
(* runUnchokeRound: RunUnchokeAlgorithm decides under the swarm's lock,    *)
(* the choke and unchoke messages go out one by one after it is released.  *)
(***************************************************************************)
EXTENDS ChokePolicy

CONSTANTS
    Peer,       \* peer IDs
    Slow,       \* those that may leave their outbox full
    MaxRate     \* bytes are counted in units, at most MaxRate a round

ASSUME SwarmConstants ==
    /\ IsFiniteSet(Peer)
    /\ NoPeer \notin Peer
    /\ Slow \subseteq Peer
    /\ MaxRate \in Nat

VARIABLES
    peers,          \* keys of Swarm.peers
    states,         \* keys of Swarm.peerStates
    live,           \* peers whose registered connection is not closed
    amChoking,      \* PeerState.AmChoking
    interested,     \* PeerState.PeerInterested
    recent,         \* PeerState: Downloaded - lastDownloaded, in units
    rate,           \* PeerState.downloadRate, in units per round
    fresh,          \* peers registered since the last round (lastStatTime)
    optimisticPeer,
    unchokeRound,   \* modulo OptimisticUnchokeInterval
    actions,        \* UnchokeActions of the running round not sent yet
    told,           \* what the peer was last told: TRUE when choked
    unheard         \* history: live peers whose last choke message was refused

vars == <<peers, states, live, amChoking, interested, recent, rate, fresh,
          optimisticPeer, unchokeRound, actions, told, unheard>>

Action == {"none", "choke", "unchoke"}

TypeOK ==
    /\ peers \subseteq Peer
    /\ states \subseteq Peer
    /\ live \subseteq peers
    /\ fresh \subseteq states
    /\ peers \subseteq states
    /\ amChoking \in [Peer -> BOOLEAN]
    /\ interested \in [Peer -> BOOLEAN]
    /\ recent \in [Peer -> 0..MaxRate]
    /\ rate \in [Peer -> 0..MaxRate]
    /\ optimisticPeer \in Peer \cup {NoPeer}
    /\ unchokeRound \in 0..(OptimisticUnchokeInterval - 1)
    /\ actions \in [Peer -> Action]
    /\ told \in [Peer -> BOOLEAN]
    /\ unheard \subseteq live \cap Slow

Init ==
    /\ peers = {}
    /\ states = {}
    /\ live = {}
    /\ amChoking = [p \in Peer |-> TRUE]
    /\ interested = [p \in Peer |-> FALSE]
    /\ recent = [p \in Peer |-> 0]
    /\ rate = [p \in Peer |-> 0]
    /\ fresh = {}
    /\ optimisticPeer = NoPeer
    /\ unchokeRound = 0
    /\ actions = [p \in Peer |-> "none"]
    /\ told = [p \in Peer |-> TRUE]
    /\ unheard = {}

\* The loop goroutine is not inside a round's sends.
LoopIdle == \A p \in Peer : actions[p] = "none"

-----------------------------------------------------------------------------
(* Connection goroutines. *)

\* A handshaken connection is registered with NewPeerState; both ends of a
\* new connection start choked.  A second connection of a registered peer is
\* closed and changes nothing.  The outbox is empty, so the Send of the
\* bitfield succeeds.  AddPeer, which nothing calls, makes the same change and
\* sends nothing.
OnPeer(p) ==
    /\ p \notin peers
    /\ peers' = peers \cup {p}
    /\ states' = states \cup {p}
    /\ live' = live \cup {p}
    /\ amChoking' = [amChoking EXCEPT ![p] = TRUE]
    /\ interested' = [interested EXCEPT ![p] = FALSE]
    /\ recent' = [recent EXCEPT ![p] = 0]
    /\ rate' = [rate EXCEPT ![p] = 0]
    /\ fresh' = fresh \cup {p}
    /\ told' = [told EXCEPT ![p] = TRUE]
    /\ unheard' = unheard \ {p}
    /\ UNCHANGED <<optimisticPeer, unchokeRound, actions>>

\* A connection breaks, or its read loop ends: handleConn closes the peer and
\* leaves the swarm alone.
ConnectionCloses(p) ==
    /\ p \in live
    /\ live' = live \ {p}
    /\ unheard' = unheard \ {p}
    /\ UNCHANGED <<peers, states, amChoking, interested, recent, rate, fresh,
                   optimisticPeer, unchokeRound, actions, told>>

-----------------------------------------------------------------------------
(* Handlers of the server's loop. *)

SetPeerInterested(p, b) ==
    /\ LoopIdle
    /\ p \in states
    /\ interested[p] # b
    /\ interested' = [interested EXCEPT ![p] = b]
    /\ UNCHANGED <<peers, states, live, amChoking, recent, rate, fresh,
                   optimisticPeer, unchokeRound, actions, told, unheard>>

RecordDownload(p) ==
    /\ LoopIdle
    /\ p \in states
    /\ recent[p] < MaxRate
    /\ recent' = [recent EXCEPT ![p] = @ + 1]
    /\ UNCHANGED <<peers, states, live, amChoking, interested, rate, fresh,
                   optimisticPeer, unchokeRound, actions, told, unheard>>

\* The rate a round measures for p.  Rounds are evenly spaced, so a peer
\* measured before has moved recent[p] units in one round.  A fresh peer has
\* been there for less: its rate is higher, or not measured at all when it
\* joined less than a second ago.
MeasuredRates(p) ==
    IF p \in fresh /\ recent[p] > 0 THEN recent[p]..MaxRate ELSE {recent[p]}

\* UpdateRates of every state, `young` being the fresh peers it skips.
UpdateRates(young) ==
    /\ rate' \in [Peer -> 0..MaxRate]
    /\ \A p \in Peer : IF p \in states \ young
                       THEN rate'[p] \in MeasuredRates(p)
                       ELSE rate'[p] = rate[p]
    /\ recent' = [p \in Peer |-> IF p \in states \ young THEN 0 ELSE recent[p]]
    /\ fresh' = {}

\* The whole decision is taken under s.mu; opt is the optimistic peer after it.
RunUnchokeAlgorithm(opt) ==
    /\ LoopIdle
    /\ unchokeRound' = (unchokeRound + 1) % OptimisticUnchokeInterval
    /\ \E young \in SUBSET fresh : UpdateRates(young)
    /\ LET wanting == { p \in states : interested[p] }
       IN  \E regular \in RegularUnchokes(wanting, rate') :
             LET toUnchoke == regular \cup ({opt} \cap states)
             IN  /\ opt \in OptimisticChoices(unchokeRound', optimisticPeer, wanting \ regular)
                 /\ optimisticPeer' = opt
                 /\ amChoking' = [p \in Peer |->
                        IF p \in states THEN p \notin toUnchoke ELSE amChoking[p]]
                 /\ actions' = [p \in Peer |->
                        IF amChoking'[p] = amChoking[p] THEN "none"
                        ELSE IF amChoking'[p] THEN "choke" ELSE "unchoke"]
    /\ UNCHANGED <<peers, states, live, interested, told, unheard>>

\* Send ends at once: the message is in the outbox, or the outbox is full and
\* runUnchokeRound logs the error and goes on.
Sends(p, choked) ==
    \/ told' = [told EXCEPT ![p] = choked] /\ unheard' = unheard \ {p}
    \/ p \in Slow /\ told' = told /\ unheard' = unheard \cup {p}

\* Only the unchokes are sent.
SendUnchokeActionForgetsChokes(p) ==
    /\ actions[p] # "none"
    /\ actions' = [actions EXCEPT ![p] = "none"]
    /\ IF p \in live /\ actions[p] = "unchoke"
       THEN Sends(p, FALSE)
       ELSE UNCHANGED <<told, unheard>>
    /\ UNCHANGED <<peers, states, live, amChoking, interested, recent, rate, fresh,
                   optimisticPeer, unchokeRound>>

\* One turn of runUnchokeRound's loop: the peer is looked up again, and a
\* peer that is gone or whose connection is closed hears nothing.
SendUnchokeAction(p) ==
    /\ actions[p] # "none"
    /\ actions' = [actions EXCEPT ![p] = "none"]
    /\ IF p \in live
       THEN Sends(p, actions[p] = "choke")
       ELSE UNCHANGED <<told, unheard>>
    /\ UNCHANGED <<peers, states, live, amChoking, interested, recent, rate, fresh,
                   optimisticPeer, unchokeRound>>

-----------------------------------------------------------------------------
(* Methods no caller in the repository uses. *)

\* The peer is closed and its PeerState deleted.
RemovePeer(p) ==
    /\ p \in peers
    /\ peers' = peers \ {p}
    /\ states' = states \ {p}
    /\ live' = live \ {p}
    /\ fresh' = fresh \ {p}
    /\ amChoking' = [amChoking EXCEPT ![p] = TRUE]
    /\ interested' = [interested EXCEPT ![p] = FALSE]
    /\ recent' = [recent EXCEPT ![p] = 0]
    /\ rate' = [rate EXCEPT ![p] = 0]
    /\ told' = [told EXCEPT ![p] = TRUE]
    /\ unheard' = unheard \ {p}
    /\ UNCHANGED <<optimisticPeer, unchokeRound, actions>>

\* The map is emptied and the connections are left open.
CloseLeavesConnections ==
    /\ peers # {}
    /\ peers' = {}
    /\ UNCHANGED <<states, live, amChoking, interested, recent, rate, fresh,
                   optimisticPeer, unchokeRound, actions, told, unheard>>

\* Close empties peers and keeps peerStates.
Close ==
    /\ peers # {}
    /\ peers' = {}
    /\ live' = {}
    /\ unheard' = {}
    /\ UNCHANGED <<states, amChoking, interested, recent, rate, fresh,
                   optimisticPeer, unchokeRound, actions, told>>

-----------------------------------------------------------------------------
ServerNext ==
    \/ \E p \in Peer : OnPeer(p)
    \/ \E p \in Peer : ConnectionCloses(p)
    \/ \E p \in Peer, b \in BOOLEAN : SetPeerInterested(p, b)
    \/ \E p \in Peer : RecordDownload(p)
    \/ \E opt \in Peer \cup {NoPeer} : RunUnchokeAlgorithm(opt)
    \/ \E p \in Peer : SendUnchokeAction(p)

Next ==
    \/ ServerNext
    \/ \E p \in Peer : RemovePeer(p)
    \/ Close

\* Every exported method, in any order.
Spec == Init /\ [][Next]_vars

\* The calls the server makes.  The ticker keeps firing, a started round is
\* finished, and the random draw of the optimistic peer picks every candidate
\* that is offered infinitely often.
ServerSpec ==
    /\ Init
    /\ [][ServerNext]_vars
    /\ WF_vars(\E opt \in Peer \cup {NoPeer} : RunUnchokeAlgorithm(opt))
    /\ \A p \in Peer : WF_vars(SendUnchokeAction(p))
    /\ \A p \in Peer : SF_vars(RunUnchokeAlgorithm(p) /\ optimisticPeer' # optimisticPeer)

-----------------------------------------------------------------------------
Unchoked == { p \in states : ~amChoking[p] }

(* The node never serves more than MaxUnchokedPeers peers: the regular     *)
(* slots and the optimistic one, over joins, removals, re-joins and a      *)
(* stale optimisticPeer.                                                   *)
UnchokeBound == Cardinality(Unchoked) <= MaxUnchokedPeers

(* Flow control: once the UnchokeAction for it is handled, a connected     *)
(* peer believes what AmChoking says, a peer that joins or drops between   *)
(* the decision and the sends included.  The one excuse is that the last   *)
(* message for it met a full outbox: nothing repeats that message, and the *)
(* next one that Send takes must put things right.                         *)
ChokeAgreement ==
    \A p \in live : actions[p] = "none" =>
        told[p] = amChoking[p] \/ p \in unheard

\* What a round has to have done when it leaves p choked.
Outdone(p) ==
    LET served == { q \in states : interested[q] /\ ~amChoking'[q] }
    IN  /\ Cardinality({ q \in served : rate'[q] >= rate'[p] }) >= RegularSlots
        /\ unchokeRound' = 0 => Cardinality(served) = MaxUnchokedPeers

(* No slot is wasted while somebody waits: when a round leaves an          *)
(* interested peer choked, the regular slots are all with interested peers *)
(* that are no slower, and if it is the turn of an optimistic draw, every  *)
(* slot there is serves an interested peer, whoever held the optimistic    *)
(* one before (a peer that is gone, not interested, or fast by now).       *)
NoSlotWasted ==
    [][ unchokeRound' # unchokeRound =>
          \A p \in states : interested[p] /\ amChoking'[p] => Outdone(p) ]_vars

(* Optimistic unchoking keeps a slow peer from starving: a peer that stays *)
(* interested gets a slot sooner or later (whether it hears of it is       *)
(* ChokeAgreement).                                                        *)
NoStarvation ==
    \A p \in Peer : [](p \in states /\ interested[p]
                       => <>(~amChoking[p] \/ ~interested[p]))

=============================================================================
