------------------------------ MODULE Streams ------------------------------
(***************************************************************************)
(* What the handlers of a node may take for granted of the transport, with *)
(* no handshake, buffer, socket or goroutine in sight: a node speaks with  *)
(* another node of its torrent over one connection and never another, and  *)
(* takes what was sent to it over that one, in order, each message once.   *)
(* That a stream may end at any point is that Receive need not happen.     *)
(***************************************************************************)
EXTENDS Naturals

CONSTANTS
    Node,
    Torrent,        \* [Node -> anything]
    Stream,         \* the two directions of each connection
    From(_), To(_), \* the nodes at its ends
    Back(_),        \* the stream in the other direction
    None

VARIABLES
    partner,        \* partner[n][m]: the stream n sends to m on
    sent,           \* how many messages have been sent on each stream
    got             \* how many of those were received

vars == <<partner, sent, got>>

Init ==
    /\ partner = [n \in Node |-> [m \in Node |-> None]]
    /\ sent = [s \in Stream |-> 0]
    /\ got = [s \in Stream |-> 0]

\* The first message goes out with it.
Join(s) ==
    /\ From(s) # To(s) /\ Torrent[From(s)] = Torrent[To(s)]
    /\ partner[From(s)][To(s)] = None
    /\ partner' = [partner EXCEPT ![From(s)][To(s)] = s]
    /\ sent' = [sent EXCEPT ![s] = 1]
    /\ UNCHANGED got

Send(s) ==
    /\ partner[From(s)][To(s)] = s
    /\ sent' = [sent EXCEPT ![s] = @ + 1]
    /\ UNCHANGED <<partner, got>>

\* The receiver answers on the same connection.
Receive(s) ==
    /\ partner[To(s)][From(s)] = Back(s)
    /\ got[s] < sent[s]
    /\ got' = [got EXCEPT ![s] = @ + 1]
    /\ UNCHANGED <<partner, sent>>

Next == \E s \in Stream : Join(s) \/ Send(s) \/ Receive(s)

Spec == Init /\ [][Next]_vars

=============================================================================
