----------------------------- MODULE Rendezvous -----------------------------
(***************************************************************************)
(* What a tracker is for, with no request, handler, map or expiry in       *)
(* sight: processes that start are registered, are told about others of    *)
(* their torrent when they are admitted, and of two that run one was told  *)
(* about the other.  Tracker (memory storage) and RedisTracker (Redis)     *)
(* implement this.                                                         *)
(***************************************************************************)
CONSTANTS
    Process,
    Torrent,        \* [Process -> anything], the torrent of each process
    Whole,          \* processes whose torrent, the dead included, fits in one answer
    Lossy           \* processes that may be in trouble at first

VARIABLES
    phase,          \* "off", "starting", "running", "stopping" or "gone"
    registered,     \* the processes an answer may name
    knows,          \* what each process was told when it was admitted
    trouble,        \* processes whose requests may fail
    lapsed,         \* processes that lost their registration while they were
                    \* starting, until they are registered again or gone
    missed          \* pairs of which one was starting while the other was in
                    \* lapsed, until one of them is gone

vars == <<phase, registered, knows, trouble, lapsed, missed>>

Mates(p) == { q \in Process \ {p} : Torrent[q] = Torrent[p] }

Init ==
    /\ phase = [p \in Process |-> "off"]
    /\ registered = {}
    /\ knows = [p \in Process |-> {}]
    /\ trouble = Lossy
    /\ lapsed = {}
    /\ missed = {}

Start(p) ==
    /\ phase[p] = "off"
    /\ phase' = [phase EXCEPT ![p] = "starting"]
    /\ missed' = missed \cup { {p, q} : q \in lapsed }
    /\ UNCHANGED <<registered, knows, trouble, lapsed>>

\* A late announce may register a process that is gone.
Register(p) ==
    /\ phase[p] # "off"
    /\ registered' = registered \cup {p}
    /\ lapsed' = lapsed \ {p}
    /\ UNCHANGED <<phase, knows, trouble, missed>>

\* p is told of T: processes that have started, and among them, if its own
\* requests get through, every reliable one that runs and was not told of p,
\* unless they missed each other by a lapse.
Admit(p, T) ==
    /\ phase[p] = "starting"
    /\ p \in registered \cup lapsed
    /\ T \subseteq { q \in Mates(p) : phase[q] # "off" }
    /\ p \in Whole \ trouble =>
         \A q \in Mates(p) \ Lossy : phase[q] = "running" =>
             q \in T \/ p \in knows[q] \/ {p, q} \in missed
    /\ phase' = [phase EXCEPT ![p] = "running"]
    /\ knows' = [knows EXCEPT ![p] = T]
    /\ UNCHANGED <<registered, trouble, lapsed, missed>>

Quit(p) ==
    /\ phase[p] = "running"
    /\ phase' = [phase EXCEPT ![p] = "stopping"]
    /\ UNCHANGED <<registered, knows, trouble, lapsed, missed>>

Exit(p) ==
    /\ phase[p] # "gone"
    /\ phase' = [phase EXCEPT ![p] = "gone"]
    /\ knows' = [knows EXCEPT ![p] = {}]
    /\ lapsed' = lapsed \ {p}
    /\ missed' = { pair \in missed : p \notin pair }
    /\ UNCHANGED <<registered, trouble>>

\* A reliable process is forgotten only when it is leaving or gone.
Forget(S) ==
    /\ \A p \in S \ Lossy : phase[p] \in {"stopping", "gone"}
    /\ registered' = registered \ S
    /\ UNCHANGED <<phase, knows, trouble, lapsed, missed>>

\* Registrations lapse, those of starting processes too, but only while no
\* reliable process runs to renew them.
Lapse(S) ==
    /\ \A p \in Process \ Lossy : phase[p] # "running"
    /\ registered' = registered \ S
    /\ LET starting == { p \in Process : phase[p] = "starting" }
           lost == S \cap registered \cap starting
       IN  /\ lapsed' = lapsed \cup lost
           /\ missed' = missed \cup { {p, q} : p \in lost, q \in starting }
    /\ UNCHANGED <<phase, knows, trouble>>

Recover(p) ==
    /\ trouble' = trouble \ {p}
    /\ UNCHANGED <<phase, registered, knows, lapsed, missed>>

Next ==
    \/ \E p \in Process :
        Start(p) \/ Register(p) \/ Quit(p) \/ Exit(p) \/ Recover(p)
    \/ \E p \in Process, T \in SUBSET Process : Admit(p, T)
    \/ \E S \in SUBSET Process : Forget(S) \/ Lapse(S)

Spec == Init /\ [][Next]_vars

=============================================================================
