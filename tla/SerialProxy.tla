----------------------------- MODULE SerialProxy -----------------------------
(***************************************************************************)
(* SerialProxy.kt: a TCP server in front of a session.  Every start that   *)
(* finds no active job launches a coroutine that binds, accepts and        *)
(* launches two coroutines per client: one reads the client's bytes and    *)
(* sends them to the session, the other forwards what the device sends.    *)
(* accept, read and write block their threads, so a cancellation does not  *)
(* reach them; a coroutine that fails cancels its parent and so all of its *)
(* generation.  Commands given to the session are left out: they leave     *)
(* nothing behind in the proxy.                                            *)
(***************************************************************************)
EXTENDS Integers

CONSTANTS
    Callers,        \* threads that call start and close
    Clients,        \* each connects at most once
    Ports,          \* ProxyConfig.port
    MaxStarts,      \* bound: coroutines launched by start
    MaxEvents,      \* bound: DataReceived events of the session
    MaxFaults       \* bound: failures of a bind to a free port and of accept

ASSUME ProxyAssumption ==
    /\ {MaxStarts, MaxEvents, MaxFaults} \subseteq Nat
    /\ Ports \cap {"Stopped", "Failed", "ready", "stop"} = {}

VARIABLES
    state,          \* _state: Running(p) is p
    job,            \* which coroutine the field job holds, 0 is null
    caller,         \* where a caller is: the port is that it is about to launch
    server, on,     \* generation -> where its coroutine is, its port
    stopped,        \* generations cancelled by close
    broken,         \* generations cancelled because a client's I/O failed
    client, of,     \* client -> where its coroutine is, its generation
    forward,        \* client -> where its forward coroutine is
    writing,        \* clients whose forward has an event to write
    open,           \* client sockets that the proxy has not closed
    peer,           \* what the other end of the socket has done
    starts, events, faults

control == <<state, job, caller, starts>>
servers == <<server, on>>
halted == <<stopped, broken>>
clients == <<client, of, forward, writing, open>>
vars == <<control, servers, halted, clients, peer, events, faults>>

Gens == 1..MaxStarts

TypeOK ==
    /\ state \in {"Stopped", "Failed"} \cup Ports
    /\ job \in 0..MaxStarts /\ starts \in 0..MaxStarts
    /\ caller \in [Callers -> {"ready", "stop"} \cup Ports]
    /\ server \in [Gens -> {"none", "launched", "binding", "bound", "accepting",
                            "failing", "ended"}]
    /\ on \in [Gens -> Ports \cup {"Stopped"}] /\ stopped \subseteq Gens /\ broken \subseteq Gens
    /\ client \in [Clients -> {"away", "backlog", "launched", "reading", "ended",
                               "stranded"}]
    /\ of \in [Clients -> 0..MaxStarts]
    /\ forward \in [Clients -> {"off", "launched", "collecting", "ended"}]
    /\ writing \subseteq Clients /\ open \subseteq Clients
    /\ peer \in [Clients -> {"here", "left", "reset"}]
    /\ events \in 0..MaxEvents /\ faults \in 0..MaxFaults

Init ==
    /\ state = "Stopped" /\ job = 0 /\ starts = 0
    /\ caller = [k \in Callers |-> "ready"]
    /\ server = [g \in Gens |-> "none"] /\ on = [g \in Gens |-> "Stopped"]
    /\ stopped = {} /\ broken = {}
    /\ client = [c \in Clients |-> "away"] /\ of = [c \in Clients |-> 0]
    /\ forward = [c \in Clients |-> "off"]
    /\ writing = {} /\ open = {} /\ peer = [c \in Clients |-> "here"]
    /\ events = 0 /\ faults = 0

-----------------------------------------------------------------------------
(* start and close                                                         *)

Cancelled(g) == g \in stopped \cup broken
Working(c) == client[c] \in {"launched", "reading"} \/ forward[c] \in {"launched", "collecting"}

IsActiveBug == job # 0 /\ state = on[job]               \* asks the state instead

\* job?.isActive: a coroutine that waits for its children is active too.
IsActive ==
    /\ job # 0 /\ ~Cancelled(job)
    /\ server[job] # "ended" \/ \E c \in Clients : of[c] = job /\ Working(c)

Goto(k, from, to) == caller[k] = from /\ caller' = [caller EXCEPT ![k] = to]

\* start:22: an active job makes the call end here.
Start(k) ==
    /\ starts < MaxStarts /\ ~IsActive
    /\ \E p \in Ports : Goto(k, "ready", p)
    /\ UNCHANGED <<state, job, starts, servers, halted>>

\* start:23
StartLaunch(k) ==
    /\ starts < MaxStarts
    /\ caller[k] \in Ports /\ Goto(k, caller[k], "ready")
    /\ starts' = starts + 1 /\ job' = starts + 1
    /\ server' = [server EXCEPT ![starts + 1] = "launched"]
    /\ on' = [on EXCEPT ![starts + 1] = caller[k]]
    /\ UNCHANGED <<state, halted>>

CloseBug(k) ==                          \* job.cancel() of a proxy never started
    /\ Goto(k, "ready", "stop") /\ stopped' = stopped \cup {job}
    /\ UNCHANGED <<state, job, starts, servers, broken>>

\* close:54, job?.cancel()
Close(k) ==
    /\ Goto(k, "ready", "stop")
    /\ stopped' = IF job = 0 THEN stopped ELSE stopped \cup {job}
    /\ UNCHANGED <<state, job, starts, servers, broken>>

\* close:54
CloseStopped(k) ==
    /\ Goto(k, "stop", "ready")
    /\ state' = "Stopped"
    /\ UNCHANGED <<job, starts, servers, halted>>

Caller(k) ==
    /\ Start(k) \/ StartLaunch(k) \/ Close(k) \/ CloseStopped(k)
    /\ UNCHANGED <<clients, peer, events, faults>>

-----------------------------------------------------------------------------
(* the coroutine of generation g                                           *)

Step(g, from, to) == server[g] = from /\ server' = [server EXCEPT ![g] = to]
Fault == faults < MaxFaults /\ faults' = faults + 1
Bound(g) == server[g] \in {"bound", "accepting"}

\* start:23: cancelled before it is dispatched it never runs.
Dispatch(g) ==
    /\ Step(g, "launched", IF Cancelled(g) THEN "ended" ELSE "binding")
    /\ UNCHANGED <<state, clients, faults>>

\* start:25: the port may be bound by an earlier generation.
Bind(g) ==
    /\ \/ /\ ~\E h \in Gens : Bound(h) /\ on[h] = on[g]
          /\ Step(g, "binding", "bound") /\ UNCHANGED faults
       \/ /\ Step(g, "binding", "failing")
          /\ Fault \/ ((\E h \in Gens : Bound(h) /\ on[h] = on[g]) /\ UNCHANGED faults)
    /\ UNCHANGED <<state, clients>>

\* start:26: cancelled or not.
SayRunning(g) ==
    /\ Step(g, "bound", "accepting")
    /\ state' = on[g]
    /\ UNCHANGED <<clients, faults>>

\* start:28-29: nothing in the loop looks at a cancellation; what a cancelled
\* coroutine launches never runs, and the accepted socket stays open.
Accept(g) ==
    /\ server[g] = "accepting"
    /\ \E c \in Clients :
          /\ client[c] = "backlog" /\ of[c] = g
          /\ client' = [client EXCEPT ![c] = IF Cancelled(g) THEN "stranded" ELSE "launched"]
          /\ open' = open \cup {c}
    /\ UNCHANGED <<state, server, of, forward, writing, faults>>

\* start:28 throws, and use closes the server socket.
AcceptFails(g) ==
    /\ Step(g, "accepting", "failing") /\ Fault
    /\ client' = [c \in Clients |-> IF client[c] = "backlog" /\ of[c] = g
                                      THEN "ended" ELSE client[c]]
    /\ UNCHANGED <<state, of, forward, writing, open>>

\* start:51
SayFailed(g) ==
    /\ Step(g, "failing", "ended")
    /\ state' = "Failed"
    /\ UNCHANGED <<clients, faults>>

ServerFrame == UNCHANGED <<job, caller, starts, on, halted, peer, events>>

ServerStep(g) ==
    /\ Dispatch(g) \/ Bind(g) \/ SayRunning(g) \/ Accept(g) \/ SayFailed(g)
    /\ ServerFrame
ServerFails(g) == AcceptFails(g) /\ ServerFrame

-----------------------------------------------------------------------------
(* the two coroutines of client c                                          *)

\* start:29-33
ClientStart(c) ==
    /\ client[c] = "launched"
    /\ IF Cancelled(of[c])
         THEN client' = [client EXCEPT ![c] = "stranded"] /\ UNCHANGED forward
         ELSE /\ client' = [client EXCEPT ![c] = "reading"]
              /\ forward' = [forward EXCEPT ![c] = "launched"]
    /\ UNCHANGED <<writing, open, broken>>

\* use closes the socket, and the forward coroutine is cancelled with its parent.
Release(c) ==
    /\ client[c] = "reading"
    /\ client' = [client EXCEPT ![c] = "ended"]
    /\ open' = open \ {c}
    /\ UNCHANGED <<forward, writing>>

ClientEofBug(c) ==                      \* copyOf(-1): the end of the stream throws
    peer[c] = "left" /\ Release(c) /\ broken' = broken \cup {of[c]}

\* start:42 and 46: read returns -1.
ClientEof(c) == peer[c] = "left" /\ Release(c) /\ UNCHANGED broken

\* start:42 throws: the generation is cancelled.
ClientThrows(c) ==
    peer[c] = "reset" /\ Release(c) /\ broken' = broken \cup {of[c]}

OverBug(c) == Cancelled(of[c])          \* no forward.cancel()
\* forward.cancel() of start:46, or the generation is cancelled.
Over(c) == Cancelled(of[c]) \/ client[c] = "ended"

\* start:33-34: the coroutine subscribes to the session's events.
ForwardStart(c) ==
    /\ forward[c] = "launched"
    /\ forward' = [forward EXCEPT ![c] = IF Over(c) THEN "ended" ELSE "collecting"]
    /\ UNCHANGED <<client, writing, open, broken>>

\* start:36: the event is written; the first write after a FIN still succeeds.
ForwardWritten(c) ==
    /\ c \in writing /\ c \in open /\ peer[c] # "reset"
    /\ writing' = writing \ {c}
    /\ UNCHANGED <<client, forward, open, broken>>

\* start:36 throws, even in a coroutine that is cancelled already.
ForwardThrows(c) ==
    /\ c \in writing
    /\ c \notin open \/ peer[c] # "here"
    /\ writing' = writing \ {c}
    /\ forward' = [forward EXCEPT ![c] = "ended"]
    /\ broken' = broken \cup {of[c]}
    /\ UNCHANGED <<client, open>>

\* start:34: collectLatest is cancelled.
ForwardEnds(c) ==
    /\ forward[c] = "collecting" /\ c \notin writing /\ Over(c)
    /\ forward' = [forward EXCEPT ![c] = "ended"]
    /\ UNCHANGED <<client, writing, open, broken>>

ClientStep(c) ==
    /\ \/ ClientStart(c) \/ ClientEof(c) \/ ClientThrows(c) \/ ForwardStart(c)
       \/ ForwardWritten(c) \/ ForwardThrows(c) \/ ForwardEnds(c)
    /\ UNCHANGED <<control, servers, stopped, of, peer, events, faults>>

-----------------------------------------------------------------------------
(* the other ends: the session and the clients                             *)

\* Every subscriber gets the event.
DataReceived ==
    /\ events < MaxEvents /\ events' = events + 1
    /\ writing' = writing \cup {c \in Clients : forward[c] = "collecting" /\ ~Over(c)}
    /\ UNCHANGED <<control, servers, halted, client, of, forward, open, peer, faults>>

\* The kernel completes the connection while the server socket is there.
Connect(c) ==
    /\ client[c] = "away" /\ of[c] = 0
    /\ client' = [client EXCEPT ![c] = "backlog"]
    /\ \E g \in Gens : Bound(g) /\ of' = [of EXCEPT ![c] = g]
    /\ UNCHANGED <<control, servers, halted, forward, writing, open, peer, events, faults>>

Leave(c) ==
    /\ of[c] # 0 /\ peer[c] = "here"
    /\ \E how \in {"left", "reset"} : peer' = [peer EXCEPT ![c] = how]
    /\ UNCHANGED <<control, servers, halted, clients, events, faults>>

Next ==
    \/ \E k \in Callers : Caller(k)
    \/ \E g \in Gens : ServerStep(g) \/ ServerFails(g)
    \/ \E c \in Clients : ClientStep(c) \/ Connect(c) \/ Leave(c)
    \/ DataReceived

Spec == Init /\ [][Next]_vars

\* The dispatcher runs every coroutine, and read and write return once the other
\* end has gone.  Nothing is assumed of the callers, the clients and the device.
FairSpec ==
    /\ Spec
    /\ \A g \in Gens : WF_vars(ServerStep(g))
    /\ \A c \in Clients : WF_vars(ClientStep(c))

-----------------------------------------------------------------------------
(* Properties                                                              *)

\* A client that is being read is also sent what the device says, and stays so
\* whatever the others do, until close is called or somebody's I/O fails: another
\* client that leaves in good order disturbs nobody (start:33-46).
InGoodOrder(c) == peer[c] = "here" \/ (peer[c] = "left" /\ events = 0)
ServedBothWays ==
    \A c \in Clients :
        /\ client[c] = "reading" /\ of[c] \notin stopped
        /\ \A d \in Clients : of[d] = of[c] => InGoodOrder(d)
        => forward[c] \in {"launched", "collecting"}

\* close reaches every coroutine that still listens and is not cancelled, as
\* long as start is not called by two threads at once: there is no server that
\* the field job has lost (start:22-23, close:54).
NoOrphan ==
    \A g \in Gens :
        server[g] \in {"binding", "bound", "accepting"} /\ ~Cancelled(g) => g = job

\* A client that goes while it is read is let go: its socket is closed and both
\* its coroutines end, also after close and after the failure of another
\* (start:30, 41-46).
LeaverIsReleased ==
    \A c \in Clients :
        (client[c] = "reading" /\ peer[c] # "here") ~>
            (c \notin open /\ forward[c] = "ended")
=============================================================================
