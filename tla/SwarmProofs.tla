----------------------------- MODULE SwarmProofs -----------------------------
(***************************************************************************)
(* What Swarm guarantees for every set of peers, number of slots and       *)
(* interval.  UnchokeBound needs only the types; ChokeAgreement needs an   *)
(* invariant that says what the actions waiting to be sent will repair.    *)
(***************************************************************************)
EXTENDS Swarm, FiniteSetTheorems, TLAPS

(* What the loop over a ranking leaves, with sort.Slice's order taken as   *)
(* the comparator gives it: interested peers, no more than the slots there *)
(* are and fewer only when all are served, none slower than one left out.  *)
LEMMA RegularUnchokesBound ==
    ASSUME NEW wanting, IsFiniteSet(wanting), NEW r,
           NEW T \in RegularUnchokes(wanting, r)
    PROVE  /\ T \subseteq wanting
           /\ IsFiniteSet(T)
           /\ Cardinality(T) <= RegularSlots
           /\ T # wanting => Cardinality(T) = RegularSlots
           /\ (\A p \in wanting : r[p] \in Int)
                => \A x \in T, y \in wanting \ T : r[x] >= r[y]
<1> DEFINE N == Cardinality(wanting)
           D == (1..RegularSlots) \cap (1..N)
<1>1. RegularSlots \in Nat /\ N \in Nat
  BY ChokeConstants, FS_CardinalityType DEF RegularSlots
<1>2. PICK order \in Rankings(wanting, r) : T = { order[i] : i \in D }
  <2>1. PICK order \in Rankings(wanting, r) :
            T = { order[i] : i \in (1..RegularSlots) \cap DOMAIN order }
    BY DEF RegularUnchokes
  <2>2. DOMAIN order = 1..N
    BY DEF Rankings
  <2> QED
    BY <2>1, <2>2
<1>3. /\ order \in [1..N -> wanting]
      /\ \A p \in wanting : \E i \in 1..N : order[i] = p
      /\ \A i, j \in 1..N : i < j => ~(r[order[j]] > r[order[i]])
  BY DEF Rankings
<1>4. T \subseteq wanting
  BY <1>2, <1>3
<1>5. \A i, j \in 1..N : order[i] = order[j] => i = j
  <2>1. order \in Surjection(1..N, wanting)
    BY <1>3 DEF Surjection
  <2>2. IsFiniteSet(1..N) /\ Cardinality(1..N) = N
    BY <1>1, FS_Interval
  <2>3. order \in Injection(1..N, wanting)
    BY <2>1, <2>2, FS_SurjSameCardinalityImpliesInj
  <2> QED
    BY <2>3, <1>3 DEF Injection, IsInjective
<1>6. IsFiniteSet(D)
  <2>1. IsFiniteSet(1..N)
    BY <1>1, FS_Interval
  <2>2. D \in SUBSET (1..N)
    OBVIOUS
  <2> QED
    BY <2>1, <2>2, FS_Subset
<1>7. IsFiniteSet(T) /\ Cardinality(T) = Cardinality(D)
  <2> DEFINE f == [i \in D |-> order[i]]
  <2>1. f \in Bijection(D, T)
    BY <1>2, <1>3, <1>5 DEF Bijection, Injection, Surjection, IsInjective
  <2>2. ExistsBijection(D, T)
    BY <2>1 DEF ExistsBijection
  <2> QED
    BY <1>6, <2>2, FS_Bijection
<1>8. CASE N <= RegularSlots
  <2>1. D = 1..N
    BY <1>1, <1>8
  <2>2. T = wanting
    BY <1>2, <1>3, <2>1
  <2>3. Cardinality(T) <= RegularSlots
    BY <1>8, <2>2
  <2> QED
    BY <1>4, <1>7, <2>2, <2>3
<1>9. CASE ~(N <= RegularSlots)
  <2>1. D = 1..RegularSlots
    BY <1>1, <1>9
  <2>2. Cardinality(T) = RegularSlots
    <3>1. Cardinality(1..RegularSlots) = IF 1 > RegularSlots THEN 0 ELSE RegularSlots - 1 + 1
      BY <1>1, FS_Interval
    <3>2. Cardinality(1..RegularSlots) = RegularSlots
      BY <1>1, <3>1
    <3> QED
      BY <1>7, <2>1, <3>2
  <2>3. ASSUME \A p \in wanting : r[p] \in Int,
               NEW x \in T, NEW y \in wanting \ T
        PROVE  r[x] >= r[y]
    <3>1. PICK i \in D : x = order[i]
      BY <1>2
    <3>2. PICK j \in 1..N : y = order[j]
      BY <1>3
    <3>3. j \notin D
      BY <1>2, <3>2
    <3>4. i < j
      BY <1>1, <2>1, <3>1, <3>2, <3>3
    <3>5. i \in 1..N
      BY <3>1
    <3>6. ~(r[y] > r[x])
      BY <1>3, <3>1, <3>2, <3>4, <3>5
    <3>7. r[x] \in Int /\ r[y] \in Int
      BY <2>3, <1>4
    <3> QED
      BY <3>6, <3>7
  <2>4. Cardinality(T) <= RegularSlots
    BY <2>2, <1>1
  <2> QED
    BY <1>4, <1>7, <2>2, <2>3, <2>4
<1> QED
  BY <1>8, <1>9

(* An optimistic peer is a peer or none.                                   *)
LEMMA OptimisticChoicesType ==
    ASSUME NEW round, NEW current \in Peer \cup {NoPeer},
           NEW C \in SUBSET Peer, NEW opt \in OptimisticChoices(round, current, C)
    PROVE  opt \in Peer \cup {NoPeer}
  BY DEF OptimisticChoices

(* A round decides for at most MaxUnchokedPeers peers.                     *)
LEMMA RoundBound ==
    ASSUME TypeOK, NEW opt \in Peer \cup {NoPeer}, RunUnchokeAlgorithm(opt)
    PROVE  UnchokeBound'
<1> DEFINE wanting == { p \in states : interested[p] }
<1>1. IsFiniteSet(wanting)
  <2>1. wanting \in SUBSET Peer
    BY DEF TypeOK
  <2> QED
    BY <2>1, FS_Subset, SwarmConstants
<1>2. PICK regular \in RegularUnchokes(wanting, rate') :
          amChoking' = [p \in Peer |->
              IF p \in states THEN p \notin regular \cup ({opt} \cap states)
              ELSE amChoking[p]]
  BY DEF RunUnchokeAlgorithm
<1>3. regular \subseteq wanting /\ IsFiniteSet(regular)
      /\ Cardinality(regular) <= MaxUnchokedPeers - 1
  BY <1>1, <1>2, RegularUnchokesBound DEF RegularSlots
<1>4. Unchoked' \in SUBSET (regular \cup {opt})
  BY <1>2 DEF Unchoked, TypeOK, RunUnchokeAlgorithm
<1>5. /\ IsFiniteSet(regular \cup {opt})
      /\ Cardinality(regular \cup {opt}) <= MaxUnchokedPeers
  <2>1. Cardinality(regular) \in Nat
    BY <1>3, FS_CardinalityType
  <2>2. /\ IsFiniteSet(regular \cup {opt})
        /\ Cardinality(regular \cup {opt}) =
             IF opt \in regular THEN Cardinality(regular) ELSE Cardinality(regular) + 1
    BY <1>3, FS_AddElement
  <2> QED
    BY <2>1, <2>2, <1>3, ChokeConstants
<1>6. Cardinality(Unchoked') <= Cardinality(regular \cup {opt})
  BY <1>4, <1>5, FS_Subset
<1>7. Cardinality(Unchoked') \in Nat /\ Cardinality(regular \cup {opt}) \in Nat
  BY <1>4, <1>5, FS_Subset, FS_CardinalityType
<1> QED
  BY <1>5, <1>6, <1>7, ChokeConstants DEF UnchokeBound

-----------------------------------------------------------------------------
LEMMA TypeInit == Init => TypeOK
<1> SUFFICES ASSUME Init PROVE TypeOK
  OBVIOUS
<1>1. 0 \in 0..MaxRate /\ 0 \in 0..(OptimisticUnchokeInterval - 1)
  BY SwarmConstants, ChokeConstants
<1> QED
  BY <1>1 DEF Init, TypeOK, Action

LEMMA RoundType ==
    ASSUME TypeOK, NEW opt \in Peer \cup {NoPeer}, RunUnchokeAlgorithm(opt)
    PROVE  TypeOK'
<1>1. unchokeRound' \in 0..(OptimisticUnchokeInterval - 1)
  BY ChokeConstants DEF TypeOK, RunUnchokeAlgorithm
<1>2. rate' \in [Peer -> 0..MaxRate] /\ fresh' = {}
  BY DEF RunUnchokeAlgorithm, UpdateRates
<1>3. recent' \in [Peer -> 0..MaxRate]
  <2>1. PICK young \in SUBSET fresh :
          recent' = [p \in Peer |-> IF p \in states \ young THEN 0 ELSE recent[p]]
    BY DEF RunUnchokeAlgorithm, UpdateRates
  <2> QED
    BY <2>1, SwarmConstants DEF TypeOK
<1>4. optimisticPeer' = opt /\ amChoking' \in [Peer -> BOOLEAN]
  BY DEF TypeOK, RunUnchokeAlgorithm
<1>5. actions' \in [Peer -> Action]
  BY DEF TypeOK, RunUnchokeAlgorithm, Action
<1>6. UNCHANGED <<peers, states, live, interested, told, unheard>>
  BY DEF RunUnchokeAlgorithm
<1> QED
  BY <1>1, <1>2, <1>3, <1>4, <1>5, <1>6 DEF TypeOK

LEMMA SendType ==
    ASSUME TypeOK, NEW p \in Peer, SendUnchokeAction(p)
    PROVE  TypeOK'
<1>1. actions' \in [Peer -> Action]
  BY DEF SendUnchokeAction, TypeOK, Action
<1>2. told' \in [Peer -> BOOLEAN] /\ unheard' \subseteq live \cap Slow
  <2>1. CASE p \in live
    <3>1. Sends(p, actions[p] = "choke")
      BY <2>1 DEF SendUnchokeAction
    <3> QED
      BY <2>1, <3>1 DEF Sends, TypeOK
  <2>2. CASE p \notin live
    BY <2>2 DEF SendUnchokeAction, TypeOK
  <2> QED
    BY <2>1, <2>2
<1> QED
  BY <1>1, <1>2 DEF SendUnchokeAction, TypeOK

LEMMA TypeStep == TypeOK /\ [Next]_vars => TypeOK'
<1> SUFFICES ASSUME TypeOK, [Next]_vars PROVE TypeOK'
  OBVIOUS
<1>1. ASSUME NEW p \in Peer, OnPeer(p) PROVE TypeOK'
  BY <1>1, SwarmConstants DEF TypeOK, OnPeer
<1>2. ASSUME NEW p \in Peer, ConnectionCloses(p) PROVE TypeOK'
  BY <1>2 DEF TypeOK, ConnectionCloses
<1>3. ASSUME NEW p \in Peer, NEW b \in BOOLEAN, SetPeerInterested(p, b) PROVE TypeOK'
  BY <1>3 DEF TypeOK, SetPeerInterested
<1>4. ASSUME NEW p \in Peer, RecordDownload(p) PROVE TypeOK'
  BY <1>4, SwarmConstants DEF TypeOK, RecordDownload
<1>5. ASSUME NEW opt \in Peer \cup {NoPeer}, RunUnchokeAlgorithm(opt) PROVE TypeOK'
  BY <1>5, RoundType
<1>6. ASSUME NEW p \in Peer, SendUnchokeAction(p) PROVE TypeOK'
  BY <1>6, SendType
<1>7. ASSUME NEW p \in Peer, RemovePeer(p) PROVE TypeOK'
  BY <1>7, SwarmConstants DEF TypeOK, RemovePeer
<1>8. ASSUME Close PROVE TypeOK'
  BY <1>8 DEF TypeOK, Close
<1>9. ASSUME UNCHANGED vars PROVE TypeOK'
  BY <1>9 DEF TypeOK, vars
<1> QED
  BY <1>1, <1>2, <1>3, <1>4, <1>5, <1>6, <1>7, <1>8, <1>9 DEF Next, ServerNext

(* Every exported method of the swarm keeps its maps consistent: an open   *)
(* connection is registered, and a registered peer has a PeerState.        *)
THEOREM TypeCorrect == Spec => []TypeOK
  BY TypeInit, TypeStep, PTL DEF Spec

-----------------------------------------------------------------------------
LEMMA BoundInit == Init => UnchokeBound
<1> SUFFICES ASSUME Init PROVE UnchokeBound
  OBVIOUS
<1>1. Unchoked = {}
  BY DEF Init, Unchoked
<1> QED
  BY <1>1, FS_EmptySet, ChokeConstants DEF UnchokeBound

(* A step that unchokes nobody keeps the bound.                            *)
LEMMA BoundShrinks ==
    ASSUME TypeOK, UnchokeBound, Unchoked' \subseteq Unchoked
    PROVE  UnchokeBound'
<1>1. IsFiniteSet(Unchoked)
  <2>1. Unchoked \in SUBSET Peer
    BY DEF Unchoked, TypeOK
  <2> QED
    BY <2>1, FS_Subset, SwarmConstants
<1>2. IsFiniteSet(Unchoked') /\ Cardinality(Unchoked') <= Cardinality(Unchoked)
  BY <1>1, FS_Subset
<1>3. Cardinality(Unchoked) \in Nat /\ Cardinality(Unchoked') \in Nat
  BY <1>1, <1>2, FS_CardinalityType
<1> QED
  BY <1>2, <1>3, ChokeConstants DEF UnchokeBound

LEMMA BoundStep == TypeOK /\ UnchokeBound /\ [Next]_vars => UnchokeBound'
<1> SUFFICES ASSUME TypeOK, UnchokeBound, [Next]_vars PROVE UnchokeBound'
  OBVIOUS
<1>1. ASSUME NEW opt \in Peer \cup {NoPeer}, RunUnchokeAlgorithm(opt) PROVE UnchokeBound'
  BY <1>1, RoundBound
<1>2. ASSUME NEW p \in Peer, OnPeer(p) PROVE Unchoked' \subseteq Unchoked
  BY <1>2 DEF OnPeer, Unchoked, TypeOK
<1>3. ASSUME NEW p \in Peer, RemovePeer(p) PROVE Unchoked' \subseteq Unchoked
  BY <1>3 DEF RemovePeer, Unchoked
<1>4. ASSUME UNCHANGED <<states, amChoking>> PROVE Unchoked' \subseteq Unchoked
  BY <1>4 DEF Unchoked
<1>5. \/ \E opt \in Peer \cup {NoPeer} : RunUnchokeAlgorithm(opt)
      \/ \E p \in Peer : OnPeer(p) \/ RemovePeer(p)
      \/ UNCHANGED <<states, amChoking>>
  BY DEF Next, ServerNext, ConnectionCloses, SetPeerInterested, RecordDownload,
         SendUnchokeAction, Close, vars
<1> QED
  BY <1>1, <1>2, <1>3, <1>4, <1>5, BoundShrinks

(* However peers join, leave, close and are counted, the number of peers   *)
(* served never exceeds MaxUnchokedPeers.                                  *)
THEOREM UnchokeBoundHolds == Spec => []UnchokeBound
<1>1. TypeOK /\ TypeOK' /\ UnchokeBound /\ [Next]_vars => UnchokeBound'
  BY BoundStep
<1> QED
  BY BoundInit, <1>1, TypeCorrect, PTL DEF Spec

-----------------------------------------------------------------------------
\* What a round leaves to a peer that is interested and stays choked.
LEMMA RoundServes ==
    ASSUME TypeOK, NEW opt \in Peer \cup {NoPeer}, RunUnchokeAlgorithm(opt),
           NEW p \in states, interested[p], amChoking'[p]
    PROVE  Outdone(p)
<1> DEFINE wanting == { x \in states : interested[x] }
           served == { q \in states : interested[q] /\ ~amChoking'[q] }
           faster == { q \in served : rate'[q] >= rate'[p] }
<1>1. PICK regular \in RegularUnchokes(wanting, rate') :
        /\ opt \in OptimisticChoices(unchokeRound', optimisticPeer, wanting \ regular)
        /\ amChoking' = [x \in Peer |->
              IF x \in states THEN x \notin regular \cup ({opt} \cap states)
              ELSE amChoking[x]]
  BY DEF RunUnchokeAlgorithm
<1>2. states \subseteq Peer /\ IsFiniteSet(wanting) /\ Cardinality(wanting) \in Nat
  <2>1. states \subseteq Peer /\ wanting \subseteq Peer
    BY DEF TypeOK
  <2> QED
    BY <2>1, FS_Subset, FS_CardinalityType, SwarmConstants
<1>3. regular \subseteq wanting /\ \A x \in states : amChoking'[x] <=> x \notin regular \cup {opt}
  BY <1>1, <1>2, RegularUnchokesBound
<1>4. p \in wanting \ regular
  BY <1>3
<1>5. Cardinality(regular) = RegularSlots /\ IsFiniteSet(regular)
  <2>1. regular # wanting
    BY <1>4
  <2> QED
    BY <1>2, <2>1, RegularUnchokesBound
<1>6. Cardinality(faster) >= RegularSlots
  <2>1. regular \subseteq faster
    <3>1. \A x \in wanting : rate'[x] \in Int
      BY <1>2, SwarmConstants DEF RunUnchokeAlgorithm, UpdateRates
    <3>2. \A x \in regular : rate'[x] >= rate'[p]
      BY <1>2, <1>4, <3>1, RegularUnchokesBound
    <3> QED
      BY <1>3, <3>2
  <2>2. IsFiniteSet(faster)
    <3>1. faster \subseteq wanting
      OBVIOUS
    <3> QED
      BY <1>2, <3>1, FS_Subset
  <2>3. Cardinality(regular) <= Cardinality(faster)
    BY <2>1, <2>2, FS_Subset
  <2>4. Cardinality(faster) \in Nat /\ RegularSlots \in Int
    BY <2>2, FS_CardinalityType, ChokeConstants DEF RegularSlots
  <2> QED
    BY <1>5, <2>3, <2>4
<1>7. ASSUME unchokeRound' = 0 PROVE Cardinality(served) = MaxUnchokedPeers
  <2>1. opt \in wanting \ regular
    BY <1>1, <1>4, <1>7 DEF OptimisticChoices
  <2>2. served = regular \cup {opt}
    BY <1>3, <2>1
  <2>3. Cardinality(served) = RegularSlots + 1
    BY <1>5, <2>1, <2>2, FS_AddElement
  <2> QED
    BY <2>3, ChokeConstants DEF RegularSlots
<1> QED
  BY <1>6, <1>7 DEF Outdone

(* A slot is empty, or with somebody who does not want it, only when       *)
(* nobody waits (the loop over the ranking and the random draw).           *)
THEOREM NoSlotWastedHolds == Spec => NoSlotWasted
<1> DEFINE Used == unchokeRound' # unchokeRound =>
          \A p \in states : interested[p] /\ amChoking'[p] => Outdone(p)
<1>1. ASSUME TypeOK, [Next]_vars PROVE Used
  <2>1. CASE \E opt \in Peer \cup {NoPeer} : RunUnchokeAlgorithm(opt)
    BY <1>1, <2>1, RoundServes
  <2>2. CASE UNCHANGED unchokeRound
    BY <2>2
  <2>3. \/ \E opt \in Peer \cup {NoPeer} : RunUnchokeAlgorithm(opt)
        \/ UNCHANGED unchokeRound
    BY <1>1 DEF Next, ServerNext, OnPeer, ConnectionCloses, SetPeerInterested,
       RecordDownload, SendUnchokeAction, RemovePeer, Close, vars
  <2> QED
    BY <2>1, <2>2, <2>3
<1> HIDE DEF Used
<1>2. Spec => [][Used]_vars
  BY <1>1, TypeCorrect, PTL DEF Spec
<1> QED
  BY <1>2 DEF NoSlotWasted, Used

-----------------------------------------------------------------------------
(* Flow control in the server.  Between the decision of a round and its    *)
(* sends a peer's view may lag; the action waiting for it says the truth,  *)
(* and a peer that is not registered has none waiting, which is what       *)
(* RemovePeer would break.                                                 *)
ActionsRepair ==
    /\ \A p \in peers :
          actions[p] # "none" => actions[p] = IF amChoking[p] THEN "choke" ELSE "unchoke"
    /\ \A p \in Peer \ peers : actions[p] = "none"
    /\ states = peers

ChokeInv == TypeOK /\ ChokeAgreement /\ ActionsRepair

LEMMA ChokeInvStep == ChokeInv /\ [ServerNext]_vars => ChokeInv'
<1> SUFFICES ASSUME ChokeInv, [ServerNext]_vars PROVE ChokeInv'
  OBVIOUS
<1> USE DEF ChokeInv
<1>1. TypeOK'
  BY TypeStep DEF Next
<1>2. ASSUME NEW p \in Peer, OnPeer(p) PROVE ChokeAgreement' /\ ActionsRepair'
  BY <1>2 DEF OnPeer, TypeOK, ChokeAgreement, ActionsRepair
<1>3. ASSUME NEW p \in Peer, ConnectionCloses(p) PROVE ChokeAgreement' /\ ActionsRepair'
  BY <1>3 DEF ConnectionCloses, TypeOK, ChokeAgreement, ActionsRepair
<1>4. ASSUME NEW p \in Peer, SendUnchokeAction(p) PROVE ChokeAgreement' /\ ActionsRepair'
  <2>1. ActionsRepair'
    BY <1>4 DEF SendUnchokeAction, TypeOK, ActionsRepair
  <2>2. ASSUME NEW q \in live', actions'[q] = "none"
        PROVE  told'[q] = amChoking'[q] \/ q \in unheard'
    <3>1. q \in Peer /\ q \in peers /\ q \in live
      BY <1>4 DEF SendUnchokeAction, TypeOK
    <3>2. CASE q # p
      <4>1. actions[q] = "none" /\ amChoking'[q] = amChoking[q]
        BY <1>4, <2>2, <3>1, <3>2 DEF SendUnchokeAction, TypeOK
      <4>2. told'[q] = told[q] /\ (q \in unheard => q \in unheard')
        BY <1>4, <3>1, <3>2 DEF SendUnchokeAction, Sends, TypeOK
      <4> QED
        BY <3>1, <4>1, <4>2 DEF ChokeAgreement
    <3>3. CASE q = p
      <4>1. Sends(q, actions[q] = "choke") /\ amChoking'[q] = amChoking[q]
        BY <1>4, <3>1, <3>3 DEF SendUnchokeAction
      <4>2. actions[q] = IF amChoking[q] THEN "choke" ELSE "unchoke"
        BY <1>4, <3>1, <3>3 DEF SendUnchokeAction, ActionsRepair
      <4>3. amChoking[q] \in BOOLEAN
        BY <3>1 DEF TypeOK
      <4>4. (actions[q] = "choke") = amChoking[q]
        BY <4>2, <4>3
      <4>5. told'[q] = amChoking[q] \/ q \in unheard'
        BY <3>1, <4>1, <4>4 DEF Sends, TypeOK
      <4> QED
        BY <4>1, <4>5
    <3> QED
      BY <3>2, <3>3
  <2> QED
    BY <2>1, <2>2 DEF ChokeAgreement
<1>5. ASSUME NEW opt \in Peer \cup {NoPeer}, RunUnchokeAlgorithm(opt)
      PROVE  ChokeAgreement' /\ ActionsRepair'
  <2>1. /\ \A p \in Peer : p \notin states => amChoking'[p] = amChoking[p]
        /\ actions' = [p \in Peer |->
                        IF amChoking'[p] = amChoking[p] THEN "none"
                        ELSE IF amChoking'[p] THEN "choke" ELSE "unchoke"]
        /\ UNCHANGED <<peers, states, live, told, unheard>>
        /\ LoopIdle
    BY <1>5 DEF RunUnchokeAlgorithm
  <2>2. ActionsRepair'
    <3>1. ASSUME NEW p \in peers, actions'[p] # "none"
          PROVE  actions'[p] = IF amChoking'[p] THEN "choke" ELSE "unchoke"
      BY <2>1, <3>1 DEF TypeOK
    <3>2. ASSUME NEW p \in Peer \ peers PROVE actions'[p] = "none"
      BY <2>1, <3>2 DEF ActionsRepair
    <3> QED
      BY <2>1, <3>1, <3>2 DEF ActionsRepair
  <2>3. ASSUME NEW p \in live, actions'[p] = "none"
        PROVE  told[p] = amChoking'[p] \/ p \in unheard
    <3>1. p \in Peer
      BY DEF TypeOK
    <3>2. amChoking'[p] = amChoking[p]
      BY <2>1, <2>3, <3>1
    <3>3. told[p] = amChoking[p] \/ p \in unheard
      BY <2>1, <3>1 DEF LoopIdle, ChokeAgreement
    <3> QED
      BY <3>2, <3>3
  <2> QED
    BY <2>1, <2>2, <2>3 DEF ChokeAgreement
<1>6. ASSUME UNCHANGED <<peers, states, live, amChoking, actions, told, unheard>>
      PROVE  ChokeAgreement' /\ ActionsRepair'
  BY <1>6 DEF ChokeAgreement, ActionsRepair
<1>7. \/ \E p \in Peer : OnPeer(p) \/ ConnectionCloses(p) \/ SendUnchokeAction(p)
      \/ \E opt \in Peer \cup {NoPeer} : RunUnchokeAlgorithm(opt)
      \/ UNCHANGED <<peers, states, live, amChoking, actions, told, unheard>>
  BY DEF ServerNext, SetPeerInterested, RecordDownload, vars
<1> QED
  BY <1>1, <1>2, <1>3, <1>4, <1>5, <1>6, <1>7

(* In the server no peer is left with a wrong idea of being choked once    *)
(* the round's messages are out, whichever peers join or drop meanwhile,   *)
(* except a peer whose last message Send refused: nothing but the next     *)
(* change of its AmChoking can put that right.                             *)
THEOREM ChokeAgreementHolds == ServerSpec => []ChokeAgreement
<1>1. Init => ChokeInv
  <2> SUFFICES ASSUME Init PROVE ChokeInv
    OBVIOUS
  <2>1. TypeOK
    BY TypeInit
  <2>2. ChokeAgreement /\ ActionsRepair
    BY DEF Init, ChokeAgreement, ActionsRepair
  <2> QED
    BY <2>1, <2>2 DEF ChokeInv
<1>2. ChokeInv => ChokeAgreement
  BY DEF ChokeInv
<1> QED
  BY <1>1, <1>2, ChokeInvStep, PTL DEF ServerSpec

=============================================================================
