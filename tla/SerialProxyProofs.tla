-------------------------- MODULE SerialProxyProofs --------------------------
(***************************************************************************)
(* Proofs about the proxy, for any numbers of clients, ports, starts,      *)
(* events and faults: the type invariant, that a server which is not       *)
(* cancelled is the one that close will cancel, and that a client is       *)
(* served both ways until close or a failure of its generation.            *)
(***************************************************************************)
EXTENDS SerialProxy, TLAPS

-----------------------------------------------------------------------------
(* Types                                                                   *)

\* The job is one that was launched; a coroutine of a client belongs to a
\* generation, and the client started the other one.
TypeInv ==
    /\ TypeOK /\ job <= starts
    /\ \A c \in Clients : client[c] # "away" => of[c] \in Gens
    /\ \A c \in Clients : forward[c] # "off" => client[c] \in {"reading", "ended"}
    /\ \A c \in writing : forward[c] # "off"

\* Callers keep the types.
LEMMA CallerKeepsType ==
  ASSUME TypeInv, NEW k \in Callers, Caller(k) PROVE TypeInv'
<1> USE ProxyAssumption DEF TypeInv, TypeOK, Gens, Goto, clients, servers, halted
<1>1. CASE Start(k)
  BY <1>1 DEF Start, Caller
<1>2. CASE StartLaunch(k)
  BY <1>2 DEF StartLaunch, Caller
<1>3. CASE Close(k)
  BY <1>3 DEF Close, Caller
<1>4. CASE CloseStopped(k)
  BY <1>4 DEF CloseStopped, Caller
<1> QED
  BY <1>1, <1>2, <1>3, <1>4 DEF Caller

\* The accepting coroutines keep the types.
LEMMA ServerKeepsType ==
  ASSUME TypeInv, NEW g \in Gens, ServerStep(g) \/ ServerFails(g) PROVE TypeInv'
<1> USE ProxyAssumption
    DEF TypeInv, TypeOK, ServerFrame, Step, Fault, clients, servers, halted
<1>1. CASE Dispatch(g) /\ ServerFrame
  BY <1>1 DEF Dispatch
<1>2. CASE Bind(g) /\ ServerFrame
  BY <1>2 DEF Bind
<1>3. CASE SayRunning(g) /\ ServerFrame
  BY <1>3 DEF SayRunning
<1>4. CASE Accept(g) /\ ServerFrame
  BY <1>4 DEF Accept
<1>5. CASE SayFailed(g) /\ ServerFrame
  BY <1>5 DEF SayFailed
<1>6. CASE AcceptFails(g) /\ ServerFrame
  BY <1>6 DEF AcceptFails
<1> QED
  BY ONLY <1>1, <1>2, <1>3, <1>4, <1>5, <1>6, ServerStep(g) \/ ServerFails(g)
     DEF ServerStep, ServerFails

\* The coroutines of the clients keep the types.
LEMMA ClientKeepsType ==
  ASSUME TypeInv, NEW c \in Clients, ClientStep(c) PROVE TypeInv'
<1> USE DEF TypeInv, TypeOK, control, servers
<1>1. CASE ClientStart(c)
  BY <1>1 DEF ClientStart, ClientStep
<1>2. CASE ClientEof(c)
  BY <1>2 DEF ClientEof, Release, ClientStep
<1>3. CASE ClientThrows(c)
  BY <1>3 DEF ClientThrows, Release, ClientStep
<1>4. CASE ForwardStart(c)
  BY <1>4 DEF ForwardStart, ClientStep
<1>5. CASE ForwardWritten(c)
  BY <1>5 DEF ForwardWritten, ClientStep
<1>6. CASE ForwardThrows(c)
  BY <1>6 DEF ForwardThrows, ClientStep
<1>7. CASE ForwardEnds(c)
  BY <1>7 DEF ForwardEnds, ClientStep
<1> QED
  BY ONLY <1>1, <1>2, <1>3, <1>4, <1>5, <1>6, <1>7, ClientStep(c) DEF ClientStep

\* Every step keeps the types.
LEMMA StepKeepsType == TypeInv /\ [Next]_vars => TypeInv'
<1> SUFFICES ASSUME TypeInv, [Next]_vars PROVE TypeInv'
  OBVIOUS
<1>1. CASE DataReceived
  BY <1>1, ProxyAssumption
     DEF DataReceived, TypeInv, TypeOK, control, servers, halted
<1>2. ASSUME NEW c \in Clients, Connect(c) \/ Leave(c) PROVE TypeInv'
  <2>1. CASE Connect(c)
    BY <2>1, <1>2 DEF Connect, TypeInv, TypeOK, Gens, control, servers, halted
  <2>2. CASE Leave(c)
    BY <2>2, <1>2 DEF Leave, TypeInv, TypeOK, control, servers, halted, clients
  <2> QED
    BY <1>2, <2>1, <2>2
<1>3. CASE UNCHANGED vars
  BY <1>3 DEF vars, TypeInv, TypeOK, control, servers, halted, clients
<1> QED
  BY <1>1, <1>2, <1>3, CallerKeepsType, ServerKeepsType, ClientKeepsType DEF Next

\* The types are right from the start.
LEMMA InitType == Init => TypeInv
BY ProxyAssumption DEF Init, TypeInv, TypeOK, Gens

\* Every state of the proxy and of its coroutines is one of those of the code
\* (SerialProxy.kt:17-54).
THEOREM ProxyTypeCorrect == Spec => []TypeOK
<1>1. Spec => []TypeInv
  BY InitType, StepKeepsType, PTL DEF Spec
<1>2. TypeInv => TypeOK
  BY DEF TypeInv
<1> QED
  BY <1>1, <1>2, PTL

-----------------------------------------------------------------------------
(* No server escapes close                                                 *)

\* A coroutine that may come to listen is the job, unless it is cancelled; and
\* the job is over as long as somebody is about to replace it.
JobInv ==
    /\ \A g \in Gens :
          server[g] \in {"launched", "binding", "bound", "accepting"} /\ ~Cancelled(g)
              => g = job
    /\ \A k \in Callers : caller[k] \in Ports => ~IsActive

\* Without callers, a job that is over stays over.
LEMMA OverStaysOver ==
  ASSUME TypeInv, ~IsActive, UNCHANGED job,
         stopped \subseteq stopped', broken \subseteq broken',
         \A g \in Gens : server[g] = "ended" => server'[g] = "ended",
         \A c \in Clients : /\ of'[c] = of[c] \/ ~Working(c)'
                            /\ Working(c)' => Working(c) \/ server[of[c]] # "ended"
  PROVE  ~IsActive'
<1>1. SUFFICES ASSUME job # 0, ~Cancelled(job),
                     \/ server'[job] # "ended"
                     \/ \E c \in Clients : of'[c] = job /\ Working(c)'
               PROVE  FALSE
  BY DEF IsActive, Cancelled
<1>2. job \in Gens
  BY <1>1, ProxyAssumption DEF TypeInv, TypeOK, Gens
<1>3. server[job] = "ended" /\ \A c \in Clients : of[c] = job => ~Working(c)
  BY <1>1 DEF IsActive
<1> QED
  BY <1>1, <1>2, <1>3

\* A step of a caller keeps the invariant, if there is no other.
LEMMA CallerKeepsJob ==
  ASSUME TypeInv, JobInv, NEW k \in Callers, Caller(k), \A l \in Callers : l = k
  PROVE  JobInv'
<1> USE ProxyAssumption DEF TypeInv, TypeOK, JobInv, Cancelled, Goto, clients, halted
<1>1. CASE Start(k)
  BY <1>1 DEF Start, Caller, IsActive, Working, servers
<1>2. CASE StartLaunch(k)
  <2>1. ~IsActive /\ caller'[k] = "ready"
    BY <1>2 DEF StartLaunch
  <2>2. ASSUME NEW g \in Gens, ~Cancelled(g)',
               server'[g] \in {"launched", "binding", "bound", "accepting"}
        PROVE  g = job'
    BY <1>2, <2>1, <2>2 DEF StartLaunch, IsActive, Gens, Caller
  <2> QED
    BY <2>1, <2>2
<1>3. CASE Close(k)
  BY <1>3 DEF Close, Caller, servers
<1>4. CASE CloseStopped(k)
  BY <1>4 DEF CloseStopped, Caller, servers
<1> QED
  BY <1>1, <1>2, <1>3, <1>4 DEF Caller

\* Every step keeps the invariant.
LEMMA StepKeepsJob ==
  ASSUME \A k, l \in Callers : k = l, TypeInv, JobInv, [Next]_vars PROVE JobInv'
<1>1. ASSUME NEW g \in Gens, ServerStep(g) \/ ServerFails(g) PROVE JobInv'
  <2> USE DEF TypeInv, TypeOK
  <2>1. /\ UNCHANGED <<job, caller, stopped, broken, of>>
        /\ \A h \in Gens : h # g => server'[h] = server[h]
        /\ server[g] # "ended"
        /\ server'[g] \in {"launched", "binding", "bound", "accepting"} =>
               server[g] \in {"launched", "binding", "bound", "accepting"}
    BY <1>1 DEF ServerStep, ServerFails, ServerFrame, Dispatch, Bind, SayRunning, Accept,
       SayFailed, AcceptFails, Step, clients, halted
  <2>2. \A c \in Clients : Working(c)' => Working(c) \/ server[of[c]] # "ended"
    BY <1>1 DEF ServerStep, ServerFails, ServerFrame, Dispatch, Bind, SayRunning, Accept,
       SayFailed, AcceptFails, Step, clients, Working
  <2>3. ~IsActive => ~IsActive'
    BY ONLY <2>1, <2>2, TypeInv, OverStaysOver, g \in Gens
  <2> QED
    BY ONLY <2>1, <2>3, JobInv DEF JobInv, Cancelled
<1>2. ASSUME NEW c \in Clients, ClientStep(c) PROVE JobInv'
  <2>1. /\ UNCHANGED <<job, caller, stopped, server, of>> /\ broken \subseteq broken'
        /\ \A d \in Clients : Working(d)' => Working(d)
    BY <1>2 DEF ClientStep, ClientStart, ClientEof, ClientThrows, Release, ForwardStart,
       ForwardWritten, ForwardThrows, ForwardEnds, Working, TypeInv, TypeOK, control,
       servers
  <2>2. ~IsActive => ~IsActive'
    BY ONLY <2>1, TypeInv, OverStaysOver
  <2> QED
    BY ONLY <2>1, <2>2, JobInv DEF JobInv, Cancelled
<1>3. ASSUME NEW c \in Clients, Connect(c) \/ Leave(c) PROVE JobInv'
  <2>1. /\ UNCHANGED <<job, caller, stopped, broken, server>>
        /\ \A d \in Clients : /\ of'[d] = of[d] \/ ~Working(d)'
                              /\ Working(d)' => Working(d)
    BY <1>3 DEF Connect, Leave, Working, TypeInv, TypeOK, control, servers, halted,
       clients
  <2>2. ~IsActive => ~IsActive'
    BY ONLY <2>1, TypeInv, OverStaysOver
  <2> QED
    BY ONLY <2>1, <2>2, JobInv DEF JobInv, Cancelled
<1>4. CASE DataReceived \/ UNCHANGED vars
  BY <1>4 DEF DataReceived, vars, JobInv, IsActive, Cancelled, Working, control, servers,
     halted, clients
<1> QED
  BY <1>1, <1>2, <1>3, <1>4, CallerKeepsJob DEF Next

\* If start and close are called by one thread, every coroutine that listens and
\* is not cancelled is the job, which the next close will cancel
\* (SerialProxy.kt:22-23 and 54).
THEOREM ProxyNoOrphan ==
  ASSUME \A k, l \in Callers : k = l
  PROVE  Spec => []NoOrphan
<1>1. Init => JobInv
  BY ProxyAssumption DEF Init, JobInv
<1>2. TypeInv /\ JobInv /\ [Next]_vars => TypeInv' /\ JobInv'
  BY StepKeepsType, StepKeepsJob
<1>3. JobInv => NoOrphan
  BY DEF JobInv, NoOrphan
<1> QED
  BY <1>1, <1>2, <1>3, InitType, PTL DEF Spec

-----------------------------------------------------------------------------
(* A client is served both ways                                            *)

\* Only a client that was not in good order can have broken a generation, and
\* the forward of a client that is read ends only in a generation that is
\* cancelled.  The socket of a client is open until the client has gone.
ServeInv ==
    /\ events = 0 => writing = {}
    /\ \A c \in Clients : client[c] \in {"launched", "reading"} => c \in open
    /\ \A c \in Clients :
          client[c] = "ended" /\ forward[c] # "off" => peer[c] # "here"
    /\ \A g \in broken : \E d \in Clients : of[d] = g /\ ~InGoodOrder(d)
    /\ \A c \in Clients : client[c] = "reading" =>
          forward[c] \in {"launched", "collecting"} \/ Cancelled(of[c])

\* A forward that has to write for a client that is gone finds the client gone
\* after an event, which is not good order.
LEMMA ThrowsInDisorder ==
  ASSUME TypeInv, ServeInv, NEW c \in Clients, ForwardThrows(c)
  PROVE  ~InGoodOrder(c)
<1>1. c \in writing /\ events # 0 /\ forward[c] # "off"
  BY DEF ForwardThrows, ServeInv, TypeInv
<1>2. peer[c] # "here"
  BY <1>1 DEF ForwardThrows, ServeInv, TypeInv
<1> QED
  BY <1>1, <1>2 DEF InGoodOrder

\* The coroutines of a client keep the invariant.
LEMMA ClientKeepsServe ==
  ASSUME TypeInv, ServeInv, NEW c \in Clients, ClientStep(c) PROVE ServeInv'
<1> USE DEF TypeInv, TypeOK, ClientStep, ServeInv, control, servers, InGoodOrder, Cancelled
<1>1. CASE ClientStart(c)
  BY <1>1 DEF ClientStart
<1>2. CASE ClientEof(c)
  BY <1>2 DEF ClientEof, Release
<1>3. CASE ClientThrows(c)
  BY <1>3 DEF ClientThrows, Release
<1>4. CASE ForwardStart(c)
  BY <1>4 DEF ForwardStart, Over
<1>5. CASE ForwardWritten(c)
  BY <1>5 DEF ForwardWritten
<1>6. CASE ForwardThrows(c)
  BY <1>6, ThrowsInDisorder DEF ForwardThrows
<1>7. CASE ForwardEnds(c)
  BY <1>7 DEF ForwardEnds, Over
<1> QED
  BY ONLY <1>1, <1>2, <1>3, <1>4, <1>5, <1>6, <1>7, ClientStep(c) DEF ClientStep

\* Every step keeps the invariant.
LEMMA StepKeepsServe == TypeInv /\ ServeInv /\ [Next]_vars => ServeInv'
<1> SUFFICES ASSUME TypeInv, ServeInv, [Next]_vars PROVE ServeInv'
  OBVIOUS
<1> USE DEF ServeInv, InGoodOrder, Cancelled
<1>1. ASSUME NEW k \in Callers, Caller(k) PROVE ServeInv'
  <2>1. /\ UNCHANGED <<clients, broken, peer, events>> /\ stopped \subseteq stopped'
    BY <1>1 DEF Caller, Start, StartLaunch, Close, CloseStopped, halted
  <2> QED
    BY <2>1 DEF clients
<1>2. ASSUME NEW g \in Gens, ServerStep(g) \/ ServerFails(g) PROVE ServeInv'
  <2>1. /\ UNCHANGED <<of, forward, writing, broken, stopped, peer, events>>
        /\ open \subseteq open'
        /\ \A c \in Clients :
              \/ client'[c] = client[c]
              \/ client[c] = "backlog" /\ client'[c] = "launched" /\ c \in open'
              \/ client[c] = "backlog" /\ client'[c] \in {"ended", "stranded"}
    BY <1>2 DEF ServerStep, ServerFails, ServerFrame, Dispatch, Bind, SayRunning, Accept,
       SayFailed, AcceptFails, Step, clients, halted, TypeInv, TypeOK
  <2>2. \A c \in Clients : client[c] = "backlog" => forward[c] = "off"
    BY DEF TypeInv
  <2> QED
    BY <2>1, <2>2
<1>3. ASSUME NEW c \in Clients, Connect(c) PROVE ServeInv'
  BY <1>3 DEF Connect, TypeInv, TypeOK, control, servers, halted, Gens
<1>4. ASSUME NEW c \in Clients, Leave(c) PROVE ServeInv'
  BY <1>4 DEF Leave, TypeInv, TypeOK, control, servers, halted, clients
<1>5. CASE DataReceived
  BY <1>5 DEF DataReceived, TypeInv, TypeOK, control, servers, halted
<1>6. CASE UNCHANGED vars
  BY <1>6 DEF vars, control, servers, halted, clients
<1> QED
  BY <1>1, <1>2, <1>3, <1>4, <1>5, <1>6, ClientKeepsServe DEF Next

\* With any number of clients and callers: as long as nobody has called close
\* and no I/O of the generation failed, a client that is read is also sent what
\* the device says (SerialProxy.kt:29-48).
THEOREM ProxyServesBothWays == Spec => []ServedBothWays
<1>1. Init => ServeInv
  BY DEF Init, ServeInv
<1>2. TypeInv /\ ServeInv /\ [Next]_vars => TypeInv' /\ ServeInv'
  BY StepKeepsType, StepKeepsServe
<1>3. ServeInv => ServedBothWays
  BY DEF ServeInv, ServedBothWays, Cancelled
<1> QED
  BY <1>1, <1>2, <1>3, InitType, PTL DEF Spec
=============================================================================
