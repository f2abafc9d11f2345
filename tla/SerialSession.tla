--------------------------- MODULE SerialSession ---------------------------
(***************************************************************************)
(* SerialSession.kt: the coroutines of one serial session.                 *)
(*                                                                         *)
(* Callers run connect, disconnect, close and send; every connect and every*)
(* reconnection attempt installs a new generation of channel, reader and   *)
(* writer; a failure may launch the reconnect coroutine; every matched     *)
(* command arms a timer; close launches the closer.  All of them run on a  *)
(* multi-threaded dispatcher and share the fields of the session without a *)
(* lock, so a step below holds one write of a shared field, with the reads *)
(* and the launches next to it; the checks at the head of connect, send and*)
(* disconnect, which read terminal and the state, are one step.            *)
(*                                                                         *)
(* Events and logging are left out.  A generation number names the channel,*)
(* the reader and the writer created together; a port number names the     *)
(* descriptor of one successful transport.open.                            *)
(***************************************************************************)
EXTENDS Integers, Sequences, FiniteSets

CONSTANTS
    Callers,        \* threads that call connect, disconnect and close
    Calls,          \* bound: which of the three they call
    Commands,       \* the commands, each given to send at most once
    Matched,        \* the commands that carry a responseMatcher
    Capacity,       \* config.queue.capacity
    DropOldest,     \* config.queue.overflow == DropOldest
    MaxRetries,     \* command.maxRetries
    Reconnect,      \* config.reconnect.enabled
    MaxAttempts,    \* config.reconnect.maxAttempts
    Blocking,       \* TRUE: AndroidSerialTransport, whose calls block their
                    \* thread; FALSE: a suspending, cancellable transport
    MaxGen,         \* bound: ports opened; later opens are refused
    MaxCalls,       \* bound: calls of connect and disconnect
    MaxFaults,      \* bound: I/O errors of a healthy port
    MaxRx,          \* bound: reads that return data
    NoCommand       \* the null of pendingResponse

ASSUME SessionAssumption ==
    /\ Matched \subseteq Commands
    /\ NoCommand \notin Commands
    /\ Capacity \in Nat \ {0}           \* QueueConfig.init
    /\ MaxRetries \in Nat               \* SerialCommand.init
    /\ MaxAttempts \in Nat              \* ReconnectPolicy.init
    /\ {DropOldest, Reconnect, Blocking} \subseteq BOOLEAN
    /\ Calls \subseteq {"connect", "disconnect", "close"}
    /\ MaxGen \in Nat /\ MaxCalls \in Nat /\ MaxFaults \in Nat /\ MaxRx \in Nat

Gens == 1..MaxGen
Ports == 0..MaxGen          \* 0: the transport holds no descriptor

VARIABLES
    state,          \* _state
    terminal,       \* terminal
    configured,     \* config != null
    commands,       \* the generation of the channel the field commands holds
    channel,        \* generation -> what that channel buffers, is it closed
    readerJob,      \* the generation of the job the field reader holds
    writerJob,      \* the generation of the job the field writer holds
    pending,        \* pendingResponse
    reconnecting,   \* reconnecting
    scopeActive,    \* the SupervisorJob of scope is not cancelled
    port,           \* the descriptor the transport uses
    openPorts,      \* every descriptor opened and not closed
    reader,         \* generation -> coroutine startWorkers:107
    writer,         \* generation -> coroutine startWorkers:128
    timer,          \* command -> coroutine startWorkers:156
    reconnector,    \* coroutine of reconnect
    closer,         \* coroutine of close
    caller,         \* caller -> where it is in connect or disconnect
    sender,         \* command -> where its send is
    result,         \* command -> its CompletableDeferred
    attempts,       \* command -> calls of transport.write made for it
    accepted,       \* commands in the order a channel took them
    wire,           \* commands in the order the device got their bytes
    gen,            \* generations created
    own,            \* caller -> the generation its connect is creating
    opens,          \* ports opened
    calls, faults, rx

fields == <<terminal, configured, commands, readerJob, writerJob, reconnecting>>
shared == <<state, fields, pending, scopeActive>>
ports == <<port, openPorts, opens>>
queue == <<channel, accepted>>
workers == <<reader, writer>>
jobs == <<workers, reconnector, closer>>
coroutines == <<jobs, timer>>
handles == <<sender, result, attempts, wire>>
bounds == <<gen, own, calls, faults, rx>>
vars == <<shared, ports, queue, coroutines, caller, handles, bounds>>

States == {"Idle", "Connecting", "Connected", "Closing", "Failed", "Closed"}
Results == {"none", "Sent", "Response", "TimedOut", "WriteFailed",
            "AlreadyClosed", "NotConnected", "QueueFull"}
ReaderPcs == {"none", "start", "call", "blocked", "match", "clear", "fail",
              "failCas", "end"}
WriterPcs == {"none", "start", "receive", "attempt", "writing", "report",
              "failCas", "settle", "end"}
CallerPcs == {"ready", "connect", "open", "channel", "reader", "writer",
              "connected", "fail", "failCas", "closing", "cancel",
              "cancelWriter", "forget", "closePort", "idle"}
ReconnectPcs == {"off", "cancel", "cancelWriter", "closePort", "loop", "delay",
                 "open", "channel", "reader", "writer", "connected", "finally"}
CloserPcs == {"off", "cancel", "cancelWriter", "closePort", "closeChannel",
              "closed", "cancelScope", "end"}
TimerPcs == {"off", "armed", "clear", "complete", "end"}
SenderPcs == {"new", "offer", "dropOldest", "offerAgain", "done"}

Reader0 == [pc |-> "none", cancelled |-> FALSE, on |-> 0, waiting |-> NoCommand]
Writer0 == [pc |-> "none", cancelled |-> FALSE, on |-> 0, channel |-> 0,
            cmd |-> NoCommand, attempt |-> 0, outcome |-> "none"]

ReaderRecords == [pc : ReaderPcs, cancelled : BOOLEAN, on : Ports,
                  waiting : Commands \cup {NoCommand}]
WriterRecords == [pc : WriterPcs, cancelled : BOOLEAN, on : Ports,
                  channel : 0..MaxGen, cmd : Commands \cup {NoCommand},
                  attempt : Nat, outcome : Results]

SharedType ==
    /\ state \in States
    /\ terminal \in BOOLEAN /\ configured \in BOOLEAN
    /\ reconnecting \in BOOLEAN /\ scopeActive \in BOOLEAN
    /\ commands \in 0..MaxGen
    /\ readerJob \in 0..MaxGen /\ writerJob \in 0..MaxGen
    /\ pending \in Commands \cup {NoCommand}
    /\ port \in Ports /\ openPorts \subseteq Gens /\ opens \in Ports
ChannelType ==
    /\ channel \in [0..MaxGen -> [buf : Seq(Commands), closed : BOOLEAN]]
    /\ \A g \in Gens : Len(channel[g].buf) <= Capacity
    /\ accepted \in Seq(Commands)
WorkerType ==
    /\ reader \in [Gens -> ReaderRecords]
    /\ writer \in [Gens -> WriterRecords]
CoroutineType ==
    /\ timer \in [Commands -> TimerPcs]
    /\ reconnector \in [pc : ReconnectPcs, attempt : Nat, own : 0..MaxGen]
    /\ closer \in CloserPcs
    /\ caller \in [Callers -> CallerPcs]
HandleType ==
    /\ sender \in [Commands -> SenderPcs]
    /\ result \in [Commands -> Results]
    /\ attempts \in [Commands -> Nat]
    /\ wire \in Seq(Commands)
BoundType ==
    /\ gen \in 0..MaxGen /\ own \in [Callers -> 0..MaxGen]
    /\ calls \in 0..MaxCalls /\ faults \in 0..MaxFaults /\ rx \in 0..MaxRx

\* Every variable holds a value its field can hold, and no bounded channel ever
\* holds more than config.queue.capacity commands.
TypeOK ==
    /\ SharedType /\ ChannelType /\ WorkerType /\ CoroutineType /\ HandleType
    /\ BoundType

Init ==
    /\ state = "Idle" /\ terminal = FALSE /\ configured = FALSE
    /\ commands = 0 /\ readerJob = 0 /\ writerJob = 0 /\ pending = NoCommand
    /\ reconnecting = FALSE /\ scopeActive = TRUE
    /\ channel = [g \in 0..MaxGen |-> [buf |-> << >>, closed |-> FALSE]]
    /\ port = 0 /\ openPorts = {} /\ opens = 0
    /\ reader = [g \in Gens |-> Reader0]
    /\ writer = [g \in Gens |-> Writer0]
    /\ timer = [c \in Commands |-> "off"]
    /\ reconnector = [pc |-> "off", attempt |-> 0, own |-> 0]
    /\ closer = "off"
    /\ caller = [k \in Callers |-> "ready"]
    /\ sender = [c \in Commands |-> "new"]
    /\ result = [c \in Commands |-> "none"]
    /\ attempts = [c \in Commands |-> 0]
    /\ accepted = << >> /\ wire = << >>
    /\ gen = 0 /\ own = [k \in Callers |-> 0] /\ calls = 0 /\ faults = 0 /\ rx = 0

-----------------------------------------------------------------------------
(* Operations shared by the coroutines                                     *)

(* A definition whose name ends in Bug is its neighbour with a plausible   *)
(* mistake; a run with the mistake put in must fail.                       *)

CompleteBug(c, r) == result' = [result EXCEPT ![c] = r]     \* last one wins

\* CompletableDeferred.complete: the first result stays.
Complete(c, r) ==
    result' = [result EXCEPT ![c] = IF @ = "none" THEN r ELSE @]

\* reader?.cancel(): the job that the field holds at this moment.
CancelReader ==
    reader' = [g \in Gens |-> [reader[g] EXCEPT !.cancelled = @ \/ g = readerJob]]

CancelWriterBug == UNCHANGED writer                     \* the reader only

\* writer?.cancel(), after it.
CancelWriter ==
    writer' = [g \in Gens |-> [writer[g] EXCEPT !.cancelled = @ \/ g = writerJob]]

\* transport.open: the new descriptor takes the place of the one held.
OpenPort ==
    /\ opens < MaxGen
    /\ opens' = opens + 1
    /\ port' = opens + 1
    /\ openPorts' = openPorts \cup {opens + 1}

\* transport.close: closes the descriptor held, if any.
ClosePort ==
    /\ openPorts' = openPorts \ {port}
    /\ port' = 0
    /\ UNCHANGED opens

Fault == faults < MaxFaults /\ faults' = faults + 1

\* transport.open throws.
OpenRefused ==
    /\ Fault \/ (opens = MaxGen /\ UNCHANGED faults)
    /\ UNCHANGED ports

\* A transport call on descriptor p throws; a suspending transport reports the
\* cancellation of its coroutine instead.
IOThrows(p, cancelled) ==
    /\ Blocking \/ ~cancelled
    /\ (p \notin openPorts /\ UNCHANGED faults) \/ Fault

(* A new generation takes three writes of fields, and the coroutines that  *)
(* are launched between them run at once.  A launch is in the step of the  *)
(* write before it: nothing sees it until the new coroutine takes a step.  *)

\* commands = Channel(capacity); scope.launch of the reader.  The guard always
\* holds: a generation follows a port.
NewChannel ==
    /\ gen < MaxGen
    /\ gen' = gen + 1
    /\ commands' = gen + 1
    /\ reader' = [reader EXCEPT ![gen + 1].pc = "start",
                                ![gen + 1].cancelled = ~scopeActive]

\* reader = the job of g; scope.launch of the writer.
StoreReader(g) ==
    /\ readerJob' = g
    /\ writer' = [writer EXCEPT ![g].pc = "start", ![g].cancelled = ~scopeActive]

\* writer = the job of g.
StoreWriter(g) == writerJob' = g

\* fail:172-175, after the state and the events are out.
FailReconnect ==
    IF configured /\ Reconnect /\ ~reconnecting
      THEN /\ reconnecting' = TRUE
           /\ reconnector' = IF ~terminal /\ scopeActive
                               THEN [pc |-> "cancel", attempt |-> 0, own |-> 0]
                               ELSE reconnector
      ELSE UNCHANGED <<reconnecting, reconnector>>

-----------------------------------------------------------------------------
(* connect, disconnect, close: the callers                                 *)

Goto(k, from, to) == caller[k] = from /\ caller' = [caller EXCEPT ![k] = to]

ConnectBug(k) ==                                        \* no check of the state
    /\ "connect" \in Calls /\ calls < MaxCalls
    /\ calls' = calls + 1
    /\ Goto(k, "ready", IF terminal THEN "ready" ELSE "connect")
    /\ UNCHANGED <<state, fields, ports, channel, jobs, gen, own, faults>>

\* connect:45-46
Connect(k) ==
    /\ "connect" \in Calls /\ calls < MaxCalls
    /\ calls' = calls + 1
    /\ Goto(k, "ready", IF terminal \/ state = "Connected" THEN "ready"
                                                           ELSE "connect")
    /\ UNCHANGED <<state, fields, ports, channel, jobs, gen, own, faults>>

\* connect:47-48
ConnectBegin(k) ==
    /\ Goto(k, "connect", "open")
    /\ state' = "Connecting"
    /\ UNCHANGED <<fields, ports, channel, jobs, gen, own, calls, faults>>

\* connect:50-51; a step between the two writes commutes with one of them.
ConnectOpen(k) ==
    \/ /\ Goto(k, "open", "channel")
       /\ OpenPort
       /\ configured' = TRUE
       /\ UNCHANGED <<state, terminal, commands, readerJob, writerJob, reconnecting,
                      channel, jobs, gen, own, calls, faults>>
    \/ /\ Goto(k, "open", "fail")
       /\ OpenRefused
       /\ UNCHANGED <<state, fields, channel, jobs, gen, own, calls>>

\* connect:52-53, startWorkers:107: the channel, and the reader's launch.
ConnectChannel(k) ==
    /\ Goto(k, "channel", "reader")
    /\ NewChannel
    /\ own' = [own EXCEPT ![k] = gen + 1]
    /\ UNCHANGED <<state, terminal, configured, readerJob, writerJob, reconnecting,
                   ports, channel, writer, reconnector, closer, calls, faults>>

\* startWorkers:107 and 128: the field reader, and the writer's launch.
ConnectReader(k) ==
    /\ Goto(k, "reader", "writer")
    /\ StoreReader(own[k])
    /\ UNCHANGED <<state, terminal, configured, commands, writerJob, reconnecting,
                   ports, channel, reader, reconnector, closer, gen, own, calls,
                   faults>>

\* startWorkers:128: the field writer.
ConnectWriter(k) ==
    /\ Goto(k, "writer", "connected")
    /\ StoreWriter(own[k])
    /\ own' = [own EXCEPT ![k] = 0]
    /\ UNCHANGED <<state, terminal, configured, commands, readerJob, reconnecting,
                   ports, channel, jobs, gen, calls, faults>>

\* connect:54-56
ConnectDone(k) ==
    /\ Goto(k, "connected", "ready")
    /\ state' = "Connected"
    /\ UNCHANGED <<fields, ports, channel, jobs, gen, own, calls, faults>>

\* connect:57, fail:169-171
ConnectFail(k) ==
    /\ Goto(k, "fail", "failCas")
    /\ state' = "Failed"
    /\ UNCHANGED <<fields, ports, channel, jobs, gen, own, calls, faults>>

\* connect:57, fail:172-175
ConnectFailCas(k) ==
    /\ Goto(k, "failCas", "ready")
    /\ FailReconnect
    /\ UNCHANGED <<state, terminal, configured, commands, readerJob, writerJob,
                   ports, channel, workers, closer, gen, own, calls, faults>>

\* disconnect:83
Disconnect(k) ==
    /\ "disconnect" \in Calls /\ calls < MaxCalls
    /\ calls' = calls + 1
    /\ Goto(k, "ready", IF terminal \/ state # "Connected" THEN "ready"
                                                           ELSE "closing")
    /\ UNCHANGED <<state, fields, ports, channel, jobs, gen, own, faults>>

DisconnectBeginBug(k) ==                                \* Closing is not announced
    /\ Goto(k, "closing", "cancel")
    /\ UNCHANGED <<state, fields, ports, channel, jobs, gen, own, calls, faults>>

\* disconnect:84-85
DisconnectBegin(k) ==
    /\ Goto(k, "closing", "cancel")
    /\ state' = "Closing"
    /\ UNCHANGED <<fields, ports, channel, jobs, gen, own, calls, faults>>

\* tryReceive().getOrNull() on the current channel: its oldest command, if any,
\* is taken and forgotten.
Forget ==
    channel' = [channel EXCEPT ![commands].buf =
                                    IF @ = << >> THEN @ ELSE Tail(@)]

\* disconnect:86
DisconnectCancel(k) ==
    /\ \/ Goto(k, "cancel", "cancelWriter") /\ CancelReader /\ UNCHANGED writer
       \/ Goto(k, "cancelWriter", "forget") /\ CancelWriter /\ UNCHANGED reader
    /\ UNCHANGED <<state, fields, ports, channel, reconnector, closer, gen, own,
                   calls, faults>>

\* disconnect:87
DisconnectForget(k) ==
    /\ Goto(k, "forget", "closePort")
    /\ Forget
    /\ UNCHANGED <<state, fields, ports, jobs, gen, own, calls, faults>>

\* disconnect:88
DisconnectClosePort(k) ==
    /\ Goto(k, "closePort", "idle")
    /\ ClosePort
    /\ UNCHANGED <<state, fields, channel, jobs, gen, own, calls, faults>>

\* disconnect:89-90
DisconnectDone(k) ==
    /\ Goto(k, "idle", "ready")
    /\ state' = "Idle"
    /\ UNCHANGED <<fields, ports, channel, jobs, gen, own, calls, faults>>

\* close:94-95
Close(k) ==
    /\ "close" \in Calls
    /\ caller[k] = "ready"
    /\ ~terminal
    /\ terminal' = TRUE
    /\ closer' = "cancel"
    /\ UNCHANGED <<state, configured, commands, readerJob, writerJob,
                   reconnecting, ports, channel, workers, reconnector, caller,
                   gen, own, calls, faults>>

\* close:96
CloserCancel ==
    /\ \/ /\ closer = "cancel" /\ closer' = "cancelWriter"
          /\ CancelReader /\ UNCHANGED writer
       \/ /\ closer = "cancelWriter" /\ closer' = "closePort"
          /\ CancelWriter /\ UNCHANGED reader
    /\ UNCHANGED <<state, scopeActive, ports, channel>>

CloserClosePortBug ==                                   \* the descriptor stays open
    /\ closer = "closePort" /\ closer' = "closeChannel"
    /\ UNCHANGED <<state, scopeActive, ports, channel, workers>>

\* close:97
CloserClosePort ==
    /\ closer = "closePort" /\ closer' = "closeChannel"
    /\ ClosePort
    /\ UNCHANGED <<state, scopeActive, channel, workers>>

\* close:98
CloserCloseChannel ==
    /\ closer = "closeChannel" /\ closer' = "closed"
    /\ channel' = [channel EXCEPT ![commands].closed = TRUE]
    /\ UNCHANGED <<state, scopeActive, ports, workers>>

\* close:99-100
CloserClosed ==
    /\ closer = "closed" /\ closer' = "cancelScope"
    /\ state' = "Closed"
    /\ UNCHANGED <<scopeActive, ports, channel, workers>>

\* close:101: every coroutine of the scope is cancelled.
CloserCancelScope ==
    /\ closer = "cancelScope" /\ closer' = "end"
    /\ scopeActive' = FALSE
    /\ reader' = [g \in Gens |-> [reader[g] EXCEPT !.cancelled = TRUE]]
    /\ writer' = [g \in Gens |-> [writer[g] EXCEPT !.cancelled = TRUE]]
    /\ UNCHANGED <<state, ports, channel>>

\* No step of a caller changes these; likewise below.
CallerFrame == UNCHANGED <<pending, scopeActive, accepted, timer, handles, rx>>

Call(k) == (Connect(k) \/ Disconnect(k) \/ Close(k)) /\ CallerFrame

CallerStep(k) ==
    /\ \/ ConnectBegin(k) \/ ConnectOpen(k) \/ ConnectChannel(k)
       \/ ConnectReader(k) \/ ConnectWriter(k) \/ ConnectDone(k)
       \/ ConnectFail(k) \/ ConnectFailCas(k)
       \/ DisconnectBegin(k) \/ DisconnectCancel(k) \/ DisconnectForget(k)
       \/ DisconnectClosePort(k) \/ DisconnectDone(k)
    /\ CallerFrame

CloserStep ==
    /\ \/ CloserCancel \/ CloserClosePort \/ CloserCloseChannel \/ CloserClosed
       \/ CloserCancelScope
    /\ UNCHANGED <<fields, pending, accepted, timer, reconnector, caller,
                   handles, bounds>>

-----------------------------------------------------------------------------
(* send: not a coroutine, it runs on the thread that calls it              *)

HasRoomBug(g) == ~channel[g].closed                     \* the capacity is ignored

\* trySend succeeds.  The first channel (generation 0) is UNLIMITED.
HasRoom(g) ==
    /\ ~channel[g].closed
    /\ g = 0 \/ Len(channel[g].buf) < Capacity

AcceptBug(c) ==                                         \* last in, first out
    /\ HasRoom(commands)
    /\ channel' = [channel EXCEPT ![commands].buf = <<c>> \o @]
    /\ accepted' = Append(accepted, c)
    /\ UNCHANGED result

Accept(c) ==
    /\ HasRoom(commands)
    /\ channel' = [channel EXCEPT ![commands].buf = Append(@, c)]
    /\ accepted' = Append(accepted, c)
    /\ UNCHANGED result

Turn(c, from, to) == sender[c] = from /\ sender' = [sender EXCEPT ![c] = to]

\* send:61-69
Send(c) ==
    /\ LET refusal == IF terminal THEN "AlreadyClosed"
                      ELSE IF state # "Connected" THEN "NotConnected" ELSE "none"
       IN  IF refusal = "none"
             THEN Turn(c, "new", "offer") /\ UNCHANGED result
             ELSE Turn(c, "new", "done") /\ Complete(c, refusal)
    /\ UNCHANGED queue

SendOfferBug(c) ==                                      \* offers again after success
    /\ \/ Turn(c, "offer", "offerAgain") /\ Accept(c)
       \/ /\ ~HasRoom(commands)
          /\ Turn(c, "offer", "done") /\ Complete(c, "QueueFull")
          /\ UNCHANGED queue

\* send:71-72 and 75-77
SendOffer(c) ==
    /\ \/ Turn(c, "offer", "done") /\ Accept(c)
       \/ /\ ~HasRoom(commands)
          /\ IF configured /\ DropOldest
               THEN Turn(c, "offer", "dropOldest") /\ UNCHANGED result
               ELSE Turn(c, "offer", "done") /\ Complete(c, "QueueFull")
          /\ UNCHANGED queue

\* send:73
SendDropOldest(c) ==
    /\ Turn(c, "dropOldest", "offerAgain")
    /\ Forget
    /\ UNCHANGED <<accepted, result>>

\* send:74
SendOfferAgain(c) ==
    /\ Turn(c, "offerAgain", "done")
    /\ \/ Accept(c)
       \/ ~HasRoom(commands) /\ Complete(c, "QueueFull") /\ UNCHANGED queue

SenderFrame == UNCHANGED <<shared, ports, coroutines, caller, attempts, wire,
                           bounds>>

Submit(c) == Send(c) /\ SenderFrame

SenderStep(c) ==
    (SendOffer(c) \/ SendDropOldest(c) \/ SendOfferAgain(c)) /\ SenderFrame

-----------------------------------------------------------------------------
(* the reader of generation g                                              *)

ReadGoto(g, from, to) ==
    reader[g].pc = from /\ reader' = [reader EXCEPT ![g].pc = to]

\* A coroutine cancelled before it is dispatched never runs; one suspended in
\* a suspending transport ends there.
ReaderCancelled(g) ==
    /\ reader[g].cancelled
    /\ \/ ReadGoto(g, "start", "end")
       \/ ~Blocking /\ (ReadGoto(g, "call", "end") \/ ReadGoto(g, "blocked", "end"))
    /\ UNCHANGED <<state, pending, reconnecting, reconnector, result, faults,
                   rx>>

ReaderStart(g) ==
    /\ ~reader[g].cancelled
    /\ ReadGoto(g, "start", "call")
    /\ UNCHANGED <<state, pending, reconnecting, reconnector, result, faults,
                   rx>>

\* startWorkers:110: the call reads the transport's descriptor.
ReaderCall(g) ==
    /\ reader[g].pc = "call"
    /\ Blocking \/ ~reader[g].cancelled
    /\ reader' = [reader EXCEPT ![g].pc = IF port = 0 THEN "fail" ELSE "blocked",
                                ![g].on = port]
    /\ UNCHANGED <<state, pending, reconnecting, reconnector, result, faults,
                   rx>>

\* startWorkers:110-116: data comes in on the descriptor the call took; the
\* command waiting at that moment is kept in a local.
ReaderData(g) ==
    /\ reader[g].on \in openPorts
    /\ Blocking \/ ~reader[g].cancelled
    /\ rx < MaxRx /\ rx' = rx + 1
    /\ \/ ReadGoto(g, "blocked", "call")      \* no match, or length <= 0
       \/ /\ pending # NoCommand
          /\ reader[g].pc = "blocked"
          /\ reader' = [reader EXCEPT ![g].pc = "match", ![g].waiting = pending]
    /\ UNCHANGED <<state, pending, reconnecting, reconnector, result, faults>>

\* startWorkers:116
ReaderRespond(g) ==
    /\ ReadGoto(g, "match", "clear")
    /\ Complete(reader[g].waiting, "Response")
    /\ UNCHANGED <<state, pending, reconnecting, reconnector, faults, rx>>

\* startWorkers:117-119
ReaderClear(g) ==
    /\ reader[g].pc = "clear"
    /\ reader' = [reader EXCEPT ![g].pc = "call", ![g].waiting = NoCommand]
    /\ pending' = NoCommand
    /\ UNCHANGED <<state, reconnecting, reconnector, result, faults, rx>>

\* startWorkers:110 throws
ReaderThrows(g) ==
    /\ ReadGoto(g, "blocked", "fail")
    /\ IOThrows(reader[g].on, reader[g].cancelled)
    /\ UNCHANGED <<state, pending, reconnecting, reconnector, result, rx>>

\* startWorkers:125, fail:169-171
ReaderFail(g) ==
    /\ ReadGoto(g, "fail", "failCas")
    /\ state' = "Failed"
    /\ UNCHANGED <<pending, reconnecting, reconnector, result, faults, rx>>

\* startWorkers:125, fail:172-175
ReaderFailCas(g) ==
    /\ ReadGoto(g, "failCas", "end")
    /\ FailReconnect
    /\ UNCHANGED <<state, pending, result, faults, rx>>

ReaderFrame == UNCHANGED <<terminal, configured, commands, readerJob,
                           writerJob, scopeActive, ports, queue, writer, timer,
                           closer, caller, sender, attempts, wire, gen, own,
                           calls>>

\* What the device makes happen, and what the reader does by itself.
ReaderInput(g) == (ReaderData(g) \/ ReaderThrows(g)) /\ ReaderFrame

ReaderStep(g) ==
    /\ \/ ReaderCancelled(g) \/ ReaderStart(g) \/ ReaderCall(g)
       \/ ReaderRespond(g) \/ ReaderClear(g) \/ ReaderFail(g) \/ ReaderFailCas(g)
    /\ ReaderFrame

-----------------------------------------------------------------------------
(* the writer of generation g                                              *)

WriteGoto(g, from, to) ==
    writer[g].pc = from /\ writer' = [writer EXCEPT ![g].pc = to]

\* Cancelled before it is dispatched, while it waits for a command, in one of
\* the delays, or in a suspending write.  A delay of zero and a receive that
\* finds a command do not look at the cancellation, so the writer may go on.
WriterCancelled(g) ==
    /\ writer[g].cancelled
    /\ \/ \E pc \in {"start", "receive", "attempt"} : WriteGoto(g, pc, "end")
       \/ ~Blocking /\ WriteGoto(g, "writing", "end")
    /\ UNCHANGED <<state, pending, reconnecting, channel, timer, reconnector,
                   result, attempts, wire, faults>>

\* startWorkers:129: the loop takes the channel from the field when it starts.
WriterStart(g) ==
    /\ writer[g].pc = "start"
    /\ ~writer[g].cancelled
    /\ writer' = [writer EXCEPT ![g].pc = "receive", ![g].channel = commands]
    /\ UNCHANGED <<state, pending, reconnecting, channel, timer, reconnector,
                   result, attempts, wire, faults>>

\* startWorkers:129-134; the loop ends when the channel is closed and empty.
WriterReceive(g) ==
    LET from == writer[g].channel
    IN  /\ writer[g].pc = "receive"
        /\ IF channel[from].buf = << >>
             THEN /\ channel[from].closed
                  /\ writer' = [writer EXCEPT ![g].pc = "end"]
                  /\ UNCHANGED channel
             ELSE /\ writer' = [writer EXCEPT
                                  ![g].pc = "attempt",
                                  ![g].cmd = Head(channel[from].buf),
                                  ![g].attempt = 0,
                                  ![g].outcome = "WriteFailed"]
                  /\ channel' = [channel EXCEPT ![from].buf = Tail(@)]
        /\ UNCHANGED <<state, pending, reconnecting, timer, reconnector,
                       result, attempts, wire, faults>>

AfterAttemptBug(g, outcome) ==                          \* one attempt too many
    [writer[g] EXCEPT
        !.pc = IF outcome # "Sent" /\ writer[g].attempt <= MaxRetries + 1
                 THEN "attempt" ELSE "report",
        !.outcome = outcome,
        !.on = 0]

\* repeat(maxRetries + 1): another attempt follows unless this one was the last.
AfterAttempt(g, outcome) ==
    [writer[g] EXCEPT
        !.pc = IF outcome # "Sent" /\ writer[g].attempt <= MaxRetries
                 THEN "attempt" ELSE "report",
        !.outcome = outcome,
        !.on = 0]

WriterAttemptBug(g) ==                  \* waits for the response before the write
    /\ writer[g].pc = "attempt"
    /\ attempts' = [attempts EXCEPT ![writer[g].cmd] = @ + 1]
    /\ writer' = [writer EXCEPT ![g].pc = "writing",
                                ![g].attempt = @ + 1,
                                ![g].on = port]
    /\ pending' = IF writer[g].cmd \in Matched THEN writer[g].cmd ELSE pending
    /\ UNCHANGED <<state, reconnecting, channel, timer, reconnector, result,
                   wire, faults>>

\* startWorkers:135-139: the attempt calls transport.write.
WriterAttempt(g) ==
    /\ writer[g].pc = "attempt"
    /\ attempts' = [attempts EXCEPT ![writer[g].cmd] = @ + 1]
    /\ writer' = [writer EXCEPT ![g].pc = "writing",
                                ![g].attempt = @ + 1,
                                ![g].on = port]
    /\ UNCHANGED <<state, pending, reconnecting, channel, timer, reconnector,
                   result, wire, faults>>

Deliver(g) == wire' = Append(wire, writer[g].cmd)

\* startWorkers:139-141: the write returns.  withTimeoutOrNull throws the
\* cancellation of a writer that was cancelled meanwhile.
WriterWritten(g) ==
    /\ writer[g].pc = "writing"
    /\ writer[g].on \in openPorts
    /\ Deliver(g)
    /\ writer' = [writer EXCEPT ![g] = IF writer[g].cancelled
                                         THEN [writer[g] EXCEPT !.pc = "end"]
                                         ELSE AfterAttempt(g, "Sent")]
    /\ UNCHANGED <<state, pending, reconnecting, channel, timer, reconnector,
                   result, attempts, faults>>

\* startWorkers:142: only a suspending write can be timed out, and its bytes
\* may be out already; withTimeoutOrNull cannot stop a thread that blocks.
WriterTimedOut(g) ==
    /\ ~Blocking
    /\ writer[g].pc = "writing"
    /\ ~writer[g].cancelled
    /\ UNCHANGED wire \/ Deliver(g)
    /\ writer' = [writer EXCEPT ![g] = AfterAttempt(g, "TimedOut")]
    /\ UNCHANGED <<state, pending, reconnecting, channel, timer, reconnector,
                   result, attempts, faults>>

\* startWorkers:145-147: the write throws, on no descriptor or on one that is
\* closed or faulty.
WriterThrows(g) ==
    /\ writer[g].pc = "writing"
    /\ IOThrows(writer[g].on, writer[g].cancelled)
    /\ writer' = [writer EXCEPT ![g] = AfterAttempt(g, "WriteFailed")]
    /\ UNCHANGED <<state, pending, reconnecting, channel, timer, reconnector,
                   result, attempts, wire>>

\* startWorkers:149-151, fail:169-171
WriterReport(g) ==
    /\ IF writer[g].outcome = "WriteFailed"
         THEN WriteGoto(g, "report", "failCas") /\ state' = "Failed"
         ELSE WriteGoto(g, "report", "settle") /\ UNCHANGED state
    /\ UNCHANGED <<pending, reconnecting, channel, timer, reconnector, result,
                   attempts, wire, faults>>

\* startWorkers:151, fail:172-175
WriterFailCas(g) ==
    /\ WriteGoto(g, "failCas", "settle")
    /\ FailReconnect
    /\ UNCHANGED <<state, pending, channel, timer, result, attempts, wire,
                   faults>>

WriterSettleBug(g) ==                                   \* requeues what failed
    LET c == writer[g].cmd
    IN  /\ writer[g].pc = "settle"
        /\ writer' = [writer EXCEPT ![g].pc = "receive", ![g].cmd = NoCommand]
        /\ IF writer[g].outcome = "Sent"
             THEN UNCHANGED channel
             ELSE channel' = [channel EXCEPT ![commands].buf = Append(@, c)]
        /\ Complete(c, writer[g].outcome)
        /\ UNCHANGED <<state, pending, reconnecting, timer, reconnector,
                       attempts, wire, faults>>

WriterSettleNoTimer(g) ==                               \* arms no timer
    LET c == writer[g].cmd
    IN  /\ writer[g].pc = "settle"
        /\ writer' = [writer EXCEPT ![g].pc = "receive", ![g].cmd = NoCommand]
        /\ IF writer[g].outcome = "Sent" /\ c \in Matched
             THEN pending' = c /\ UNCHANGED result
             ELSE Complete(c, writer[g].outcome) /\ UNCHANGED pending
        /\ UNCHANGED <<state, reconnecting, channel, timer, reconnector,
                       attempts, wire, faults>>

\* startWorkers:152-157: the command is done, or waits for its response.
WriterSettle(g) ==
    LET c == writer[g].cmd
    IN  /\ writer[g].pc = "settle"
        /\ writer' = [writer EXCEPT ![g].pc = "receive", ![g].cmd = NoCommand]
        /\ IF writer[g].outcome = "Sent" /\ c \in Matched
             THEN /\ pending' = c
                  /\ timer' = [timer EXCEPT ![c] = IF scopeActive THEN "armed"
                                                                  ELSE "end"]
                  /\ UNCHANGED result
             ELSE /\ Complete(c, writer[g].outcome)
                  /\ UNCHANGED <<pending, timer>>
        /\ UNCHANGED <<state, reconnecting, channel, reconnector, attempts,
                       wire, faults>>

WriterFrame == UNCHANGED <<terminal, configured, commands, readerJob,
                           writerJob, scopeActive, ports, accepted, reader,
                           closer, caller, sender, gen, own, calls, rx>>

WriterOutput(g) == (WriterWritten(g) \/ WriterThrows(g)) /\ WriterFrame

WriterTimeout(g) == WriterTimedOut(g) /\ WriterFrame

WriterStep(g) ==
    /\ \/ WriterCancelled(g) \/ WriterStart(g) \/ WriterReceive(g)
       \/ WriterAttempt(g) \/ WriterReport(g) \/ WriterFailCas(g)
       \/ WriterSettle(g)
    /\ WriterFrame

-----------------------------------------------------------------------------
(* the response timer of command c                                         *)

Tick(c, from, to) == timer[c] = from /\ timer' = [timer EXCEPT ![c] = to]

TimerCancelled(c) ==
    /\ ~scopeActive
    /\ Tick(c, "armed", "end")
    /\ UNCHANGED <<pending, result>>

TimerExpiresBug(c) ==                                   \* leaves pendingResponse
    /\ Tick(c, "armed", IF pending = c THEN "complete" ELSE "end")
    /\ UNCHANGED <<pending, result>>

\* startWorkers:157-158
TimerExpires(c) ==
    /\ Tick(c, "armed", IF pending = c THEN "clear" ELSE "end")
    /\ UNCHANGED <<pending, result>>

\* startWorkers:159
TimerClear(c) ==
    /\ Tick(c, "clear", "complete")
    /\ pending' = NoCommand
    /\ UNCHANGED result

\* startWorkers:160
TimerComplete(c) ==
    /\ Tick(c, "complete", "end")
    /\ Complete(c, "TimedOut")
    /\ UNCHANGED pending

TimerStep(c) ==
    /\ TimerCancelled(c) \/ TimerExpires(c) \/ TimerClear(c) \/ TimerComplete(c)
    /\ UNCHANGED <<state, fields, scopeActive, ports, queue, jobs, caller,
                   sender, attempts, wire, bounds>>

-----------------------------------------------------------------------------
(* the reconnect coroutine                                                 *)

Pass(from, to) ==
    reconnector.pc = from /\ reconnector' = [reconnector EXCEPT !.pc = to]

\* Cancelled before it is dispatched: the body and its finally never run.
\* Cancelled in the delay: finally runs.
ReconnectCancelled ==
    /\ ~scopeActive
    /\ Pass("cancel", "off") \/ Pass("delay", "finally")
    /\ UNCHANGED <<state, commands, readerJob, writerJob, reconnecting, ports,
                   workers, gen, own, faults>>

\* reconnect:180
ReconnectCancel ==
    /\ \/ Pass("cancel", "cancelWriter") /\ CancelReader /\ UNCHANGED writer
       \/ Pass("cancelWriter", "closePort") /\ CancelWriter /\ UNCHANGED reader
    /\ UNCHANGED <<state, commands, readerJob, writerJob, reconnecting, ports,
                   gen, own, faults>>

\* reconnect:181
ReconnectClosePort ==
    /\ Pass("closePort", "loop")
    /\ ClosePort
    /\ UNCHANGED <<state, commands, readerJob, writerJob, reconnecting,
                   workers, gen, own, faults>>

\* reconnect:182-186 and 204
ReconnectLoop ==
    /\ Pass("loop", IF reconnector.attempt = MaxAttempts \/ terminal
                      THEN "finally" ELSE "delay")
    /\ UNCHANGED <<state, commands, readerJob, writerJob, reconnecting, ports,
                   workers, gen, own, faults>>

\* reconnect:187-188
ReconnectBegin ==
    /\ Pass("delay", "open")
    /\ state' = "Connecting"
    /\ UNCHANGED <<commands, readerJob, writerJob, reconnecting, ports,
                   workers, gen, own, faults>>

\* reconnect:190 and 199-202
ReconnectOpen ==
    \/ /\ Pass("open", "channel")
       /\ OpenPort
       /\ UNCHANGED <<state, commands, readerJob, writerJob, reconnecting,
                      workers, gen, own, faults>>
    \/ /\ reconnector.pc = "open"
       /\ reconnector' = [reconnector EXCEPT !.pc = "loop", !.attempt = @ + 1]
       /\ OpenRefused
       /\ UNCHANGED <<state, commands, readerJob, writerJob, reconnecting,
                      workers, gen, own>>

\* reconnect:191-192, startWorkers:107
ReconnectChannel ==
    /\ reconnector.pc = "channel"
    /\ reconnector' = [reconnector EXCEPT !.pc = "reader", !.own = gen + 1]
    /\ NewChannel
    /\ UNCHANGED <<state, readerJob, writerJob, reconnecting, ports, writer, own,
                   faults>>

\* startWorkers:107 and 128
ReconnectReader ==
    /\ Pass("reader", "writer")
    /\ StoreReader(reconnector.own)
    /\ UNCHANGED <<state, commands, writerJob, reconnecting, ports, reader,
                   gen, own, faults>>

\* startWorkers:128
ReconnectWriter ==
    /\ reconnector.pc = "writer"
    /\ reconnector' = [reconnector EXCEPT !.pc = "connected", !.own = 0]
    /\ StoreWriter(reconnector.own)
    /\ UNCHANGED <<state, commands, readerJob, reconnecting, ports, workers,
                   gen, own, faults>>

\* reconnect:193-198
ReconnectDone ==
    /\ Pass("connected", "finally")
    /\ state' = "Connected"
    /\ UNCHANGED <<commands, readerJob, writerJob, reconnecting, ports,
                   workers, gen, own, faults>>

ReconnectFinallyBug ==                                  \* keeps the flag
    /\ Pass("finally", "off")
    /\ UNCHANGED <<state, commands, readerJob, writerJob, reconnecting, ports,
                   workers, gen, own, faults>>

\* reconnect:205-207
ReconnectFinally ==
    /\ Pass("finally", "off")
    /\ reconnecting' = FALSE
    /\ UNCHANGED <<state, commands, readerJob, writerJob, ports, workers, gen,
                   own, faults>>

ReconnectStep ==
    /\ \/ ReconnectCancelled \/ ReconnectCancel \/ ReconnectClosePort
       \/ ReconnectLoop \/ ReconnectBegin \/ ReconnectOpen
       \/ ReconnectChannel \/ ReconnectReader \/ ReconnectWriter
       \/ ReconnectDone \/ ReconnectFinally
    /\ UNCHANGED <<terminal, configured, pending, scopeActive, queue, timer,
                   closer, caller, handles, calls, rx>>

-----------------------------------------------------------------------------

Next ==
    \/ \E k \in Callers : Call(k) \/ CallerStep(k)
    \/ \E c \in Commands : Submit(c) \/ SenderStep(c) \/ TimerStep(c)
    \/ \E g \in Gens :
          \/ ReaderStep(g) \/ ReaderInput(g)
          \/ WriterStep(g) \/ WriterOutput(g) \/ WriterTimeout(g)
    \/ CloserStep \/ ReconnectStep

Spec == Init /\ [][Next]_vars

\* The dispatcher runs every coroutine that can run, delays and timeouts end,
\* and a write is answered or, on a suspending transport, timed out.  Nothing
\* is assumed of the callers (they may never call), of the device (it may never
\* send) and of a write that blocks its thread.
Fairness ==
    /\ \A k \in Callers : WF_vars(CallerStep(k))
    /\ \A c \in Commands : WF_vars(SenderStep(c)) /\ WF_vars(TimerStep(c))
    /\ \A g \in Gens :
          /\ WF_vars(ReaderStep(g)) /\ WF_vars(WriterStep(g))
          /\ WF_vars(WriterTimeout(g))
    /\ WF_vars(CloserStep) /\ WF_vars(ReconnectStep)

FairSpec == Spec /\ Fairness

-----------------------------------------------------------------------------
(* Properties                                                              *)

RangeOf(s) == {s[i] : i \in 1..Len(s)}
Refusals == {"AlreadyClosed", "NotConnected", "QueueFull"}
Busy == {"attempt", "writing", "report", "failCas", "settle"}
Holds(g, c) == writer[g].pc \in Busy /\ writer[g].cmd = c
Queued(g, c) == \E i \in 1..Len(channel[g].buf) : channel[g].buf[i] = c
Placed(c) == (\E g \in 0..MaxGen : Queued(g, c)) \/ (\E g \in Gens : Holds(g, c))
Live(worker) == worker.pc \notin {"none", "end"} /\ ~worker.cancelled

\* Whatever connects, reconnections, drops and cancellations do, a command is
\* in at most one place, one slot of one channel or the hands of one writer,
\* and only after its send was accepted and before its handle is complete.
OneSlot ==
    \A g, h \in 0..MaxGen :
        \A i \in 1..Len(channel[g].buf), j \in 1..Len(channel[h].buf) :
            channel[g].buf[i] = channel[h].buf[j] => g = h /\ i = j
OneHolder ==
    \A c \in Commands : \A g, h \in Gens : Holds(g, c) /\ Holds(h, c) => g = h
NotQueuedAndHeld ==
    \A c \in Commands : \A g \in 0..MaxGen, h \in Gens :
        ~(Queued(g, c) /\ Holds(h, c))
PlacedIsAccepted ==
    \A c \in Commands : Placed(c) => sender[c] = "done" /\ result[c] = "none"
OnePlace == OneSlot /\ OneHolder /\ NotQueuedAndHeld /\ PlacedIsAccepted

\* No command is written more than maxRetries + 1 times over the whole life of
\* the session (SerialSessionTest.kt:47 counts the attempts of one writer).
AttemptsBounded == \A c \in Commands : attempts[c] <= MaxRetries + 1

\* What a handle reports is what the device saw: a command reported Sent or
\* answered was delivered, one that send refused never was, and only a command
\* with a responseMatcher reports a response.
ResultIsHonest ==
    \A c \in Commands :
        /\ result[c] \in {"Sent", "Response"} => c \in RangeOf(wire)
        /\ result[c] \in Refusals => attempts[c] = 0
        /\ result[c] = "Response" => c \in Matched

\* Once its handle is complete a command is never written again.
NoWriteAfterCompletion ==
    [][\A c \in Commands : attempts'[c] # attempts[c] => result'[c] = "none"]_vars

\* The device gets the commands in the order the queue took them; a dropped
\* command leaves a gap and a retried one may repeat.
WriteOrder ==
    \A i, j \in 1..Len(wire) : i < j =>
        \E m, n \in 1..Len(accepted) :
            m <= n /\ accepted[m] = wire[i] /\ accepted[n] = wire[j]

\* A command that waits for its response has a running timer, so the wait ends
\* (startWorkers:154-162).
PendingHasTimer ==
    pending # NoCommand => timer[pending] \in {"armed", "clear"} \/ ~scopeActive

\* A single writer and one reader task work for the session: of all the
\* generations at most one writer and one reader are running and not cancelled.
SingleWriter ==
    \A g, h \in Gens :
        /\ Live(writer[g]) /\ Live(writer[h]) => g = h
        /\ Live(reader[g]) /\ Live(reader[h]) => g = h

\* Of the workers that one connect and any number of reconnections launched, at
\* most one writer and one reader run on although no field holds their job.  A
\* field is stored after the launch (startWorkers:107 and 128), so reconnections
\* that overtake the connect miss a worker at :180, but never two.
Stray(worker, job, g) == Live(worker[g]) /\ g # job /\ g # reconnector.own
OneStray ==
    calls <= 1 =>
        \A g, h \in Gens :
            /\ Stray(writer, writerJob, g) /\ Stray(writer, writerJob, h) => g = h
            /\ Stray(reader, readerJob, g) /\ Stray(reader, readerJob, h) => g = h

\* The default policy (ReconnectPolicy.enabled = false), one thread calling.
SoleCaller == ~Reconnect /\ \A j, k \in Callers : j = k

\* Transports and devices that can fail a session after it was left: a call
\* that blocks its thread throws once the descriptor is closed.
Disturbed == Blocking \/ faults > 0

\* A session that says Connected can be used, on any transport and through I/O
\* errors, disconnects and connects from Failed: the transport holds an open
\* descriptor, the current writer runs and so does the current reader, unless an
\* I/O error ended it before connect:55 said Connected over its Failed.
ConnectedIsUsable ==
    SoleCaller /\ state = "Connected" /\ ~terminal =>
        /\ port \in openPorts
        /\ Live(writer[writerJob])
        /\ ~reader[readerJob].cancelled
        /\ reader[readerJob].pc = "end" => faults > 0

\* Close is terminal and releases the device: once the closer is done the
\* transport holds no descriptor, none is open but those that a connect from
\* Failed left behind, and the session is Closed, or Failed by a late throw.
CloseIsTerminal ==
    SoleCaller /\ closer = "end" =>
        /\ port = 0
        /\ state = "Closed" \/ (Disturbed /\ state = "Failed")
        /\ openPorts = {} \/ (Disturbed /\ opens > 1)

\* The session has two descriptors open only after a failure: an I/O error, or
\* the late throw of a blocking call on a descriptor that a disconnect closed.
OnePort ==
    SoleCaller =>
        \/ Cardinality(openPorts) <= 1
        \/ faults > 0 /\ opens > 1
        \/ Blocking /\ opens > 2

\* Where a command is, for the caller of send.
Phase(c) ==
    IF result[c] # "none" THEN "done"
    ELSE IF sender[c] # "done" THEN "new"
    ELSE IF \E g \in 0..MaxGen : Queued(g, c) THEN "queued"
    ELSE IF \E g \in Gens : Holds(g, c) THEN "taken"
    ELSE IF timer[c] # "off" THEN "awaiting"
    ELSE "lost"

Handle == INSTANCE CommandHandle WITH
    phase <- [c \in Commands |-> Phase(c)],
    tries <- attempts,
    outcome <- result

\* The session implements the abstract handles: through every interleaving a
\* command goes through the phases of CommandHandle, one step at a time, and
\* its result is one that its phase allows and is final.
ImplementsHandle == Handle!HandleSpec

\* Every command a queue accepted completes its handle, unless a disconnect, a
\* close or a reconnection has cancelled a writer (startWorkers:129-163), or the
\* command is in a channel that the field commands no longer holds: a
\* reconnection overtook the connect, and its writer took the next one (:129).
AcceptedCompletes ==
    \A c \in Commands :
        (sender[c] = "done") ~>
            \/ result[c] # "none"
            \/ \E g \in Gens : writer[g].cancelled
            \/ \E g \in Gens \ {commands} : Queued(g, c)

\* A reconnection ends, connected or exhausted, unless close stops it.
ReconnectEnds == reconnecting ~> (~reconnecting \/ terminal)
=============================================================================
