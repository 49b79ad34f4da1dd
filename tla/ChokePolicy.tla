----------------------------- MODULE ChokePolicy -----------------------------
(***************************************************************************)
(* The choice made by one run of Swarm.RunUnchokeAlgorithm: which peers a  *)
(* node serves until the next round.  MaxUnchokedPeers-1 slots go to the   *)
(* interested peers it downloads from fastest (tit for tat), one more slot *)
(* is optimistic: a random interested peer without a regular slot.  Both   *)
(* Go's map iteration order and sort.Slice leave ties open, so the choice  *)
(* is a set of possible outcomes.                                          *)
(***************************************************************************)
EXTENDS Integers, FiniteSets

CONSTANTS
    MaxUnchokedPeers,           \* slots, 4 in the code
    OptimisticUnchokeInterval,  \* rounds between optimistic choices, 3 in the code
    NoPeer                      \* the zero peer ID

ASSUME ChokeConstants ==
    /\ MaxUnchokedPeers \in Nat \ {0}
    /\ OptimisticUnchokeInterval \in Nat \ {0}

\* The optimistic slot is forgotten when the regular slots are counted.
RegularSlotsAllMax == MaxUnchokedPeers

RegularSlots == MaxUnchokedPeers - 1

\* The results of sort.Slice with the comparator rate[i] > rate[j]: every order
\* of the interested peers in which no one comes before a faster one.
Rankings(interested, rate) ==
    { order \in [1..Cardinality(interested) -> interested] :
        /\ \A p \in interested : \E i \in DOMAIN order : order[i] = p
        /\ \A i, j \in DOMAIN order : i < j => ~(rate[order[j]] > rate[order[i]]) }

\* The loop over the ranking, which breaks when the regular slots are full.
RegularUnchokes(interested, rate) ==
    { { order[i] : i \in (1..RegularSlots) \cap DOMAIN order } :
          order \in Rankings(interested, rate) }

\* The optimistic peer is drawn only when there is none yet.
OptimisticChoicesOnce(round, current, chokedInterested) ==
    IF current = NoPeer /\ chokedInterested # {}
    THEN chokedInterested
    ELSE {current}

\* The possible optimistic peers of round `round` (counted modulo the
\* interval): a new draw every OptimisticUnchokeInterval rounds, or in every
\* round while there is none, if anyone is there to draw.
OptimisticChoices(round, current, chokedInterested) ==
    IF (round = 0 \/ current = NoPeer) /\ chokedInterested # {}
    THEN chokedInterested
    ELSE {current}

=============================================================================
