------------------------------ MODULE Daemon ------------------------------
(***************************************************************************)
(* The life of a beads_watch process and of the unix socket it listens on: *)
(* run() of src/main.go with ListenSocket of src/internal/server/listen.go.*)
(* Any number of processes configured with the same path start, serve,     *)
(* stop and crash; the path is the only state they share.                  *)
(*                                                                         *)
(* The path holds at most one socket, named here by the process that bound *)
(* it; a process that died leaves its socket behind.  Closing a Go unix    *)
(* listener unlinks the path it was bound to, whatever is there by then.   *)
(***************************************************************************)
EXTENDS FiniteSets

CONSTANTS
    Procs,     \* the processes
    NoSocket,  \* the path when nothing is there
    Overlaps,  \* what may overlap a start: "start" another start, "stop" a stop
    DialFails, \* whether the dial of a live daemon may fail: its backlog is full
    Stuck      \* processes with a stream open that no client ever closes

ASSUME NoSocketAssumption == NoSocket \notin Procs
ASSUME OverlapsAssumption == Overlaps \subseteq {"start", "stop"} /\ Stuck \subseteq Procs
ASSUME DialAssumption == DialFails \in BOOLEAN

VARIABLES
    pc,         \* where each process is
    path,       \* whose socket the path names
    accepting,  \* the processes whose listener takes connections
    streams     \* the processes with a request or an event stream open

vars == <<pc, path, accepting, streams>>

Starting == {"stat", "dial", "remove", "bind", "listen", "chmod", "bound"}
Stopping == {"drain", "unlink"}
\* "down" never ran, exited or crashed; "refused", "failed": exits of a start.
Gone     == {"down", "refused", "failed"}

Init ==
    /\ pc = [p \in Procs |-> "down"]
    /\ path = NoSocket
    /\ accepting = {}
    /\ streams = {}

Goto(p, l) == pc' = [pc EXCEPT ![p] = l]
Others(p, L) == \E q \in Procs \ {p} : pc[q] \in L

-----------------------------------------------------------------------------
(* ListenSocket.                                                           *)

\* The process is started; who starts it decides what it may overlap.
Start(p) ==
    /\ pc[p] \in Gone
    /\ "start" \in Overlaps \/ ~Others(p, Starting)
    /\ "stop" \in Overlaps \/ ~Others(p, Stopping)
    /\ Goto(p, "stat")
    /\ UNCHANGED <<path, accepting, streams>>

\* os.Stat(path).
Stat(p) ==
    /\ pc[p] = "stat"
    /\ Goto(p, IF path = NoSocket THEN "bind" ELSE "dial")
    /\ UNCHANGED <<path, accepting, streams>>

\* Bug: whatever is at the path is taken for stale.
DialMutant(p) ==
    /\ pc[p] = "dial"
    /\ Goto(p, "remove")
    /\ UNCHANGED <<path, accepting, streams>>

\* net.DialTimeout: an answer means a live daemon; any error, of a live one too,
\* is taken for a stale socket.
Dial(p) ==
    /\ pc[p] = "dial"
    /\ \/ path \in accepting /\ Goto(p, "refused")
       \/ (path \notin accepting \/ DialFails) /\ Goto(p, "remove")
    /\ UNCHANGED <<path, accepting, streams>>

\* Bug: a stale socket is left for bind to trip over.
RemoveMutant(p) ==
    /\ pc[p] = "remove"
    /\ Goto(p, "bind")
    /\ UNCHANGED <<path, accepting, streams>>

\* os.Remove(path) fails when another process removed it first.
Remove(p) ==
    /\ pc[p] = "remove"
    /\ path' = NoSocket
    /\ Goto(p, IF path = NoSocket THEN "refused" ELSE "bind")
    /\ UNCHANGED <<accepting, streams>>

\* The first half of net.Listen: bind(2) creates the path or finds it in use.
Bind(p) ==
    /\ pc[p] = "bind"
    /\ IF path = NoSocket
         THEN path' = p /\ Goto(p, "listen")
         ELSE Goto(p, "refused") /\ UNCHANGED path
    /\ UNCHANGED <<accepting, streams>>

\* The second half: only now does a dial get an answer.
Listen(p) ==
    /\ pc[p] = "listen"
    /\ accepting' = accepting \cup {p}
    /\ Goto(p, "chmod")
    /\ UNCHANGED <<path, streams>>

\* os.Chmod(path): with nothing there the listener is closed and the start fails.
Chmod(p) ==
    /\ pc[p] = "chmod"
    /\ IF path = NoSocket
         THEN accepting' = accepting \ {p} /\ Goto(p, "refused")
         ELSE Goto(p, "bound") /\ UNCHANGED accepting
    /\ UNCHANGED <<path, streams>>

-----------------------------------------------------------------------------
(* run(), from the deferred os.Remove on.                                  *)

\* Everything else came up: the doorbell, the notifier, srv.Serve.
Serve(p) ==
    /\ pc[p] = "bound"
    /\ Goto(p, "serving")
    /\ UNCHANGED <<path, accepting, streams>>

\* ListenTCP or events.Start failed: run() returns through os.Remove(path).
StartFails(p) ==
    /\ pc[p] = "bound"
    /\ path' = NoSocket
    /\ accepting' = accepting \ {p}
    /\ Goto(p, "failed")
    /\ UNCHANGED streams

\* A client opens, or closes, a stream.
Open(p) ==
    /\ pc[p] = "serving" /\ path = p
    /\ streams' = streams \cup {p}
    /\ UNCHANGED <<pc, path, accepting>>
Close(p) ==
    /\ p \in streams /\ p \notin Stuck
    /\ streams' = streams \ {p}
    /\ UNCHANGED <<pc, path, accepting>>

\* Bug: the signal stops nothing until the streams have drained.
TermMutant(p) ==
    /\ pc[p] = "serving"
    /\ "stop" \in Overlaps \/ ~Others(p, Starting)
    /\ Goto(p, "drain")
    /\ UNCHANGED <<path, accepting, streams>>

\* SIGTERM: srv.Shutdown closes the listener, and with it unlinks the path, and
\* goes on to wait.
Term(p) ==
    /\ pc[p] = "serving"
    /\ "stop" \in Overlaps \/ ~Others(p, Starting)
    /\ path' = NoSocket
    /\ accepting' = accepting \ {p}
    /\ Goto(p, "drain")
    /\ UNCHANGED streams

\* srv.Serve failed, which closed its own listener, this one or the TCP one:
\* run() returns the error at once.
ServeFails(p) ==
    /\ pc[p] = "serving"
    /\ "stop" \in Overlaps \/ ~Others(p, Starting)
    /\ \/ path' = NoSocket /\ accepting' = accepting \ {p}
       \/ UNCHANGED <<path, accepting>>
    /\ Goto(p, "unlink")
    /\ UNCHANGED streams

\* Bug: Shutdown is called without a deadline.
DrainMutant(p) ==
    /\ pc[p] = "drain" /\ p \notin streams
    /\ Goto(p, "unlink")
    /\ UNCHANGED <<path, accepting, streams>>

\* Shutdown returns: nothing is open any more, or ten seconds have passed.
Drain(p) ==
    /\ pc[p] = "drain"
    /\ Goto(p, "unlink")
    /\ UNCHANGED <<path, accepting, streams>>

\* The deferred os.Remove(cfg.Socket), and the process exits.
Unlink(p) ==
    /\ pc[p] = "unlink"
    /\ path' = NoSocket
    /\ accepting' = accepting \ {p}
    /\ streams' = streams \ {p}
    /\ Goto(p, "down")

\* The process is killed; its socket stays at the path.
Crash(p) ==
    /\ pc[p] \notin Gone
    /\ accepting' = accepting \ {p}
    /\ streams' = streams \ {p}
    /\ Goto(p, "down")
    /\ UNCHANGED path

-----------------------------------------------------------------------------
ListenSocket(p) ==
    Stat(p) \/ Dial(p) \/ Remove(p) \/ Bind(p) \/ Listen(p) \/ Chmod(p)
Run(p) == Serve(p) \/ StartFails(p) \/ Drain(p) \/ Unlink(p)
Outside(p) == Start(p) \/ Open(p) \/ Close(p) \/ Term(p) \/ ServeFails(p) \/ Crash(p)

Next == \E p \in Procs : ListenSocket(p) \/ Run(p) \/ Outside(p)

\* A process that runs takes its steps; a Shutdown ends by its deadline.
Fairness == \A p \in Procs : WF_vars(ListenSocket(p) \/ Run(p))

Spec == Init /\ [][Next]_vars /\ Fairness

-----------------------------------------------------------------------------
TypeOK ==
    /\ pc \in [Procs -> Gone \cup Starting \cup Stopping \cup {"serving"}]
    /\ path \in Procs \cup {NoSocket}
    /\ streams \subseteq {p \in Procs : pc[p] \in Stopping \cup {"serving"}}
    /\ \A p \in Procs :
         /\ pc[p] \in {"chmod", "bound", "serving"} => p \in accepting
         /\ p \in accepting => pc[p] \in {"chmod", "bound", "serving", "unlink"}

\* ListenSocket "refus[es] to steal it from a live daemon": the path of a daemon
\* that serves stays its own, whatever the others' starts, failed starts and
\* stops remove.  Two daemons then never serve one path, nor tail the same repos
\* into one state file.
Reachable == \A p \in Procs : pc[p] = "serving" => path = p

\* "So this means something is really listening": a start is refused over the
\* path only while another daemon listens, never by a socket left behind.
RefusedByLiveOnly ==
    [][\A p \in Procs :
          pc[p] # "refused" /\ pc'[p] = "refused" => accepting \ {p} # {}]_vars

\* A daemon told to stop is gone in the end, however long its streams are.
StopsInTheEnd == \A p \in Procs : pc[p] \in Stopping ~> pc[p] \in Gone
=============================================================================
