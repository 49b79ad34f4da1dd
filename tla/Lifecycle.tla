------------------------------ MODULE Lifecycle ------------------------------
(***************************************************************************)
(* A process of the seed, download or connect command: the main goroutine, *)
(* which runs TorrentServer.Start and the loop, and the goroutine of the   *)
(* signal handler, which runs Stop and os.Exit.  RedisTracker adds the     *)
(* requests that some of the steps send or wait for.                       *)
(***************************************************************************)
EXTENDS Naturals, FiniteSets

CONSTANTS
    Process,
    Lossy,          \* processes that may be in trouble at first
    Signalled       \* bound: processes that may get SIGINT or SIGTERM

ASSUME LifecycleConstants ==
    /\ IsFiniteSet(Process)
    /\ Lossy \subseteq Process
    /\ Signalled \subseteq Process

VARIABLES
    main,           \* where the main goroutine of each process is
    signal,         \* what its signal handler has done
    knows,          \* bootstrapNodes
    trouble         \* processes that may crash, and whose requests may fail

lifeVars == <<main, signal, knows, trouble>>

Main == {"off", "listening", "starting", "running", "stopping", "panicked", "exited"}
Handler == {"waiting", "quit", "closed"}

LifeInit ==
    /\ main = [p \in Process |-> "off"]
    /\ signal = [p \in Process |-> "waiting"]
    /\ knows = [p \in Process |-> {}]
    /\ trouble = Lossy

Over(p) == main[p] \in {"panicked", "exited"}

Moves(p, from, to) ==
    /\ main[p] = from
    /\ main' = [main EXCEPT ![p] = to]

\* The process ends, and its memory with it.
Dies(p, how) ==
    /\ main' = [main EXCEPT ![p] = how]
    /\ signal' = [signal EXCEPT ![p] = "waiting"]
    /\ knows' = [knows EXCEPT ![p] = {}]
    /\ UNCHANGED trouble

-----------------------------------------------------------------------------
(* The main goroutine. *)

\* ListenAndAccept, and the tracker client that knows the real port.
Listen(p) ==
    /\ Moves(p, "off", "listening")
    /\ UNCHANGED <<signal, knows, trouble>>

\* populateBootstrapNodes: "started" goes out and its answer is waited for.
AnnounceStarted(p) ==
    /\ Moves(p, "listening", "starting")
    /\ UNCHANGED <<signal, knows, trouble>>

\* The answer has come: the nodes in it are dialled, and the loop begins.
Enter(p, nodes) ==
    /\ Moves(p, "starting", "running")
    /\ knows' = [knows EXCEPT ![p] = nodes]
    /\ UNCHANGED <<signal, trouble>>

\* Start returns an error, listening having failed or the announce, and the
\* command ends.
StartFails(p) ==
    /\ main[p] \in {"off", "starting"}
    /\ Dies(p, "exited")

\* The loop finds quitch closed and announces "stopped".
LeaveLoop(p) ==
    /\ signal[p] # "waiting"
    /\ Moves(p, "running", "stopping")
    /\ UNCHANGED <<signal, knows, trouble>>

\* The loop returns, with "stopped" answered or failed.  Its deferred Stop
\* closes quitch, which is closed.
DeferredStop(p) ==
    /\ main[p] = "stopping"
    /\ Dies(p, "panicked")

-----------------------------------------------------------------------------
(* The signal handler: Stop closes quitch and the listener, then os.Exit. *)

Signal(p) ==
    /\ ~Over(p) /\ signal[p] = "waiting" /\ p \in Signalled
    /\ signal' = [signal EXCEPT ![p] = "quit"]
    /\ UNCHANGED <<main, knows, trouble>>

\* Transport.Close: before ListenAndAccept there is no listener to close.
CloseListener(p) ==
    /\ ~Over(p) /\ signal[p] = "quit"
    /\ \/ main[p] = "off" /\ Dies(p, "panicked")
       \/ /\ main[p] # "off"
          /\ signal' = [signal EXCEPT ![p] = "closed"]
          /\ UNCHANGED <<main, knows, trouble>>

OsExit(p) ==
    /\ ~Over(p) /\ signal[p] = "closed"
    /\ Dies(p, "exited")

\* The process is killed, or its machine goes.
Crash(p) ==
    /\ p \in trouble /\ ~Over(p) /\ main[p] # "off"
    /\ Dies(p, "exited")

\* From now on p stays up and its requests get through.
Recover(p) ==
    /\ p \in trouble /\ main[p] # "starting" /\ ~Over(p)
    /\ trouble' = trouble \ {p}
    /\ UNCHANGED <<main, signal, knows>>

\* What happens with no announce being sent or answered.
LifeAlone(p) ==
    \/ Listen(p)
    \/ Signal(p)
    \/ CloseListener(p)
    \/ OsExit(p)
    \/ Crash(p)
    \/ Recover(p)

LifeTypeOK ==
    /\ main \in [Process -> Main]
    /\ signal \in [Process -> Handler]
    /\ knows \in [Process -> SUBSET Process]
    /\ trouble \subseteq Lossy

=============================================================================
