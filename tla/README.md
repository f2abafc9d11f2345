# A verification development for the Android serial library

TLA+ modules, TLC configurations and machine-checked proofs about the code in
`src/`: the Kotlin session over one serial port, its frame parser, and the native
daemon `sercd` that serves a serial port over TCP by telnet and RFC 2217, and the
Kotlin proxy that serves a session over TCP.  Line
numbers are those of the files under
`library/src/main/kotlin/io/android/serial/api/` and `library/src/main/jni/`.

## 1. The system

| Component | State | Operations | Modelled by |
|---|---|---|---|
| Session (`SerialSession.kt`, `SerialCommand.kt`, `SerialConfig.kt`, `ReconnectPolicy.kt`, `SerialState.kt`) | state, terminal, config, the fields for channel, reader and writer, `pendingResponse`, `reconnecting` | connect, send, disconnect, close; reader, writer, response timer and reconnect coroutines | `SerialSession`, `CommandHandle`, `MCSerialSession`, `SerialSessionProofs`, `SerialSessionHandleProofs`, `SerialSessionLifecycleProofs` |
| Transport (`Transport.kt`, `AndroidSerialTransport.kt`) | the descriptor and its two streams | open, read, write, close | inside `SerialSession` |
| Frame parser (`SerialFrameParser.kt`) | pending bytes, last errors | offer, offerDetailed, reset | `SerialFrameParser`, `MCSerialFrameParser`, `SerialFrameParserProofs` |
| Main loop of the daemon (`sercd.c`, `unix.c`) | device, client and listener descriptors, two ring buffers, state told to Java | one handler per event of select; start, exit | `SercdLoop`, `SercdBuffer`, `MCSercdLoop`, `SercdLoopProofs` |
| Telnet options (`sercd.c`) | `tnstate` | initial options; WILL, DO, WONT, DONT, SB | `SercdTelnet`, `MCSercdTelnet`, `SercdTelnetProofs` |
| Parser and COM port commands (`sercd.c`) | `IACEscape`, `IACSigEscape`, `IACCommand`, the two `Last`, masks, `ModemState`, `InputFlow`, `BreakSignaled` | `EscRedirectChar`, `EscWriteChar`, `HandleIACCommand`, `HandleCPCCommand`, the poll of the modem lines | `SercdParser`, `MCSercdParser`, `SercdParserProofs` |
| Port settings (`unix.c`) | termios | `SetPort*`, `GetPort*`, `GetModemState`, `OpenPort`, `ClosePort` | `SercdPort` |
| JNI glue (`android.c`, `serial.c`) | - | `changeState`, `SerialPort.open` | outcomes only |
| TCP proxy (`SerialProxy.kt`) | job, state, server socket, sockets of the clients | start, close, an accepting coroutine per start, two coroutines per client | `SerialProxy`, `MCSerialProxy`, `SerialProxyProofs` |
| Checksums, byte utilities | none | - | the sum and the unsigned integer inside `SerialFrameParser`, the rest not |
| Device scanner, logging, API facade | none | - | not modelled |

How they interact.  The session calls the transport; its coroutines run on
`Dispatchers.IO` and share plain fields without a lock.  An application feeds
received bytes to the frame parser.  In the daemon the main loop moves bytes from
the client through `EscRedirectChar` into the device's buffer, and commands among
them through `HandleIACCommand` into the telnet state and the port settings, the
replies going into the client's buffer; it moves the device's bytes through
`EscWriteChar` into the client's buffer.  `SercdService_exit` comes from another
thread.  The loop relies on what the parser costs (`*_bytes` constants).  The proxy sends
what its clients write to the session and subscribes to the session's events for each
of them; every start of it binds a server socket of its own.

What is hard.  Interleavings of callers, workers, timers, a reconnection and a
closer between any two accesses to a field; calls that block and cannot be
cancelled; results and timeouts that race; full queues.  In the daemon: room that
is tested before select and used after other handlers ran, partial reads and
writes, descriptors that fail in any handler, one client after another on static
state, negotiations that cross.  In the parsers: any cut of a stream.

What makes each correct.

* Session: a command is in one place; it is written a bounded number of times, in
  queue order, and never after its result; its result is what the device saw and
  comes; the workers that a connect replaces are cancelled; close is final; Connected means
  usable.
* Main loop: no byte is lost or doubled; no buffer overflows; state, descriptors and
  what Java was told agree; a client is only dropped for a reason and is served;
  exit ends the loop.
* Telnet: both sides agree when nothing is in flight, and the negotiation ends.
* Commands: the parser stays in step with the client; a byte costs no more room than
  reckoned; what the client was told is in force.
* Frame parser: the frames do not depend on how reads cut the stream.
* Proxy: close reaches every server; a client is served both ways whatever the others do,
  and is let go when it leaves.

## 2. Modules and the code

**`SerialSession`.** One step is the code between two accesses to shared fields (suspension points
included), so each coroutine has a program counter named after what it does next.  A launch shares
the step of the write before it, since nothing sees a new coroutine before its first step.
`Connect`, `ConnectBegin`, `ConnectOpen`, `ConnectDone` and `ConnectFail*` are connect (44-58), and
between them startWorkers: `ConnectChannel` writes the field `commands` and launches the reader
(52-53, 107), `ConnectReader` writes `reader` and launches the writer (107, 128), `ConnectWriter`
writes `writer` (128); the new coroutines run between these steps, and so may a reconnection that
the reader's failure starts.  `own` is the generation that a connect is installing, a local of its
control.  Likewise `ReconnectChannel`, `ReconnectReader` and `ReconnectWriter`.  The two cancels of
a line are two steps (`CancelReader`, `CancelWriter`).  `Disconnect*` are 82-91, `Close` and
`Closer*` 93-103, `Send*` 60-80, `Reader*` and `Writer*` startWorkers (107-165), `Timer*` 156-162,
`Reconnect*` 178-208 and `FailReconnect` the compare-and-set of fail (172-175).  A generation number
names the channel, reader and writer created together; generation 0 is the channel of the field
initialiser.  `Blocking = TRUE` is `AndroidSerialTransport`, whose read and write block their
thread, so that neither a timeout nor a cancellation ends them and closing the descriptor need not
wake them; `FALSE` is a suspending transport such as the ones of the tests.  Fields are sequentially
consistent in the model.  Events (`emit`) and logging are left out, as are the lengths of delays: a
timer may fire at any time after it is armed.

**`CommandHandle`** is the abstract specification: the life of one handle, from new to
queued, taken, awaiting and done, or lost.  `SerialSession!Phase` is the refinement
mapping and `ImplementsHandle` the property that the session implements it.

**`SercdBuffer`** holds the ring buffer (306-383) as operators on a record.
**`SercdLoop`** is `SercdService_start` (1416-1652): `Select` computes the wanted events
(1436-1452) and returns some that are ready, then one action per handler, in the order
of the code, forced by `Turn`.  A handler that fails drops the connection and
abandons the rest of the pass (`continue`).  What the client's bytes mean is
abstracted to what they may cost: one byte for the device, or up to
`HandleIACCommand_bytes` for the client.  Bytes are numbered modulo the buffer size,
which is enough to tell any two in a buffer apart.  A failed assertion ends the process (`aborted`);
in a build with NDEBUG the ring would be overwritten instead.  A call that would block returns -1, which
`IOResultError` lets pass: a write then pops -1 bytes (`Blocks`, `PopNet(-1)`), and a read does nothing or,
where ssize_t has 32 bits, runs past `readbuf` (`ReadBlocks`, `overrun`; armeabi-v7a and x86 of
`Application.mk`).  `SsizeBits` are the widths of the ABIs that are built; `netRewound` and
`devRewound` record that a write of the stream as it was set up last would block.

**`SercdTelnet`** has the daemon and a client that follows RFC 854, with FIFO streams
between them, so that requests cross; what the daemon offers first is the parameter
`InitialOffers`.  **`SercdParser`** reads the client's stream byte by byte with the
real codes of the protocol; a client sends items (data, options, COM port commands), the device
sends bytes in between and changes its modem lines, which the main loop polls
(`ReadModem`, 1634-1650).  A client may leave anywhere in an item, and the next one
finds the statics as they are (`NextClient`); the ghost `aligned` says whether the parser was
then between two items, `told` what this client was told last of each setting.
**`SercdPort`** is termios reduced to the flags sercd changes;
`InitialPorts` leaves free what `cfmakeraw` does not set, and closing the port restores them.

**`SerialFrameParser`** has one action per call of offer; `Loop` is the `while` loop of
`offerDetailed` as a recursive function over buffers, `Reading` the reference that reads the whole
stream by place and without a buffer; the integers of the header (`Unsigned`) and the sum
(`Sum8`) are recursive functions over places.  No module declares a RECURSIVE operator.

**`SerialProxy`** numbers the coroutines that start launches: a generation binds, says
Running, accepts and fails in steps of their own, between those of the callers, so that two
generations may compete for one port.  accept, read and write block their threads, so a
cancellation (`Cancelled`: by close, or because a client's read or write threw) ends a
coroutine only where it suspends or before it is dispatched; what a cancelled coroutine
launches never runs.  The session is its events: `DataReceived` gives one to every forward
that subscribes, and send, which never blocks, leaves nothing behind in the proxy.

Named bounds: `MaxGen` (ports opened, later opens are refused), `MaxCalls`,
`MaxFaults`, `MaxRx`, `MaxClients`, `MaxAsks`, `MaxSubs`, `MaxItems`, `MaxLines`, `MaxChunk`,
`MaxBytes`, `MaxStarts`, `MaxEvents`.  `CHECK_DEADLOCK FALSE` is set wherever the bounds can be used up and
every process is idle; the frame parser always has `reset` and is checked for
deadlock.

## 3. The runs

| Run | Shows | Why the bounds are enough |
|---|---|---|
| `SessionQueue` | TypeOK, OnePlace, WriteOrder, ResultIsHonest, PendingHasTimer, ImplementsHandle | three senders on a queue of two: an overflow with a command in the writer's hands and two queued, two of them matched |
| `SessionReconnect` | AttemptsBounded, OneStray, NoWriteAfterCompletion on a blocking transport | three generations: the writers of two earlier ones may still be blocked in write, and a reconnection may overtake the connect between any two of its steps |
| `SessionLifecycle` | ConnectedIsUsable, CloseIsTerminal, OnePort for one thread on the blocking transport, with an I/O error anywhere and the late throws of calls on a closed descriptor | four calls and two descriptors: connect, disconnect, connect, and a close that overlaps what the others left; or connect, a read error, connect from Failed |
| `SessionLive` | AcceptedCompletes, ReconnectEnds | two faults, two descriptors: a failure at any place, also between two steps of connect, and a reconnection whose open is refused once |
| `SercdLoop` | TypeOK, StreamsKept, ThreeStates, OnlyModemAsserts, DropIsJustified, ClientIsServed, ExitEnds | two clients after each other, one failure; the ring of 5 wraps with every partial read and write; the costs 2, 2, 4, 3 stand to it as escapes, notifications, replies and offers do; the failure may be a write that would block, a read that would block is free; both widths of ssize_t |
| `SercdTelnet` | TypeOK, Agreement, SubsHandled, NegotiationEnds | two clients, three kinds of option (offered both ways, in one direction, unsupported), two requests that cross the offers |
| `SercdParser` | TypeOK, InSync, CostBounded, ToldIsTrue, Obeyed, NotifiedIsTrue, ReplyIsWhole | three items by two clients, the first of which may leave anywhere, and two changes of two modem lines; the device opened with the flags of its last user all on or all off; parameters that ask, set, are unsupported or need an escape; unsigned long of 8 bytes |
| `SerialFrameParser` | TypeOK, FragmentationFree, NothingHeldBack, NoiseIsSkipped | all streams of up to 8 bytes over 3 values, all cuts into offers of up to 4, 7 configurations: overlapping headers, footer, checksums, a length below its own field, lengths of 4 bytes that overflow |
| `SerialProxy` | TypeOK, ServedBothWays, NoOrphan, LeaverIsReleased | two generations on one port, so that a restart meets the server that close cannot wake; two clients, so that one disturbs the other; one event and one failure |
| `SessionTwoWriters`, `SessionLostResponse`, `LoopAssert` | one property each, violated; see below | the shortest case |

Each property has in `PROJECT.json` a mutant of the code (a definition ending in `Bug`,
`NoTimer`, `Again` or `Twice`) under which its run fails.

What the violated properties say:

* `SingleWriter`: startWorkers launches the reader (:107) before it stores the job of the writer
  (:128).  A reader that fails at once starts a reconnection, whose cancel (:180) finds what the fields
  hold by then; the writer that connect stores afterwards is cancelled by nobody, and the reconnection
  launches another.  Two connects that overlap, which both pass the test at :46, do the same.  The
  design document promises "a single writer" and serialized state mutations.
* `AcceptedCompletes`: `pendingResponse` holds one command; a second matched command takes
  the slot, and the timer of the first completes nothing.
* `NeverAsserts`: the room for a modem notification is tested before select and used after the
  device's bytes of the same pass.

`SessionReconnect` checks what is left of the first, `OneStray`: after one connect at most one writer and
one reader run on that no field holds, however many reconnections overtake it.  `SessionLive`
checks AcceptedCompletes with a single matched command, where it holds.

## 4. Fairness

* Session: weak fairness of every step of a coroutine that is ready to run, because the
  dispatcher schedules every runnable coroutine; of `WriterTimeout`, because
  `withTimeout` fires.  None for data from the device, for its acceptance of
  a write, for new calls or for faults.
* `SercdLoop`: weak fairness of a handler, because the thread runs; of select once the
  descriptors are closed, because it returns after `PollInterval` at the latest; strong fairness of
  writing to the client, because the client reads and select is asked again and
  again.  None for the device or for new clients.
* `SercdTelnet`: weak fairness of handling what has arrived, on both sides.
* `SerialProxy`: weak fairness of the accepting coroutines and of those of the clients, because
  the dispatcher runs them, and because read and write return once the other end has gone. None
  for accept failing, for the callers, the clients and the device.

## 5. Proofs

The eight `*Proofs` modules are checked by TLAPS for all values of the
constants, from the named assumptions of the modules (`SessionAssumption`,
`LoopAssumption`, `BufferAssumption`, `TelnetAssumption`, `PortAssumption`, `ParserAssumption`,
`FrameAssumption`, `ProxyAssumption`) and nothing else; the theorems that assume
more say so: `ProxyNoOrphan` that there is one caller, `SessionWriteOrder` that the
port is opened once.  The properties of the life of a session carry what they assume in their
statement, since they are false of calls that overlap: `OneStray` that there was one connect, the other
three `SoleCaller`, one thread and the default policy (`ReconnectPolicy.enabled` is false unless the
application sets it; a reconnection acts like a second thread, and all three are false beside one).

*Session.*  `SessionTypeCorrect`: TypeOK is not inductive, since a writer in the middle
of a command must hold one; `TypeInv` adds `BusyHasCommand`.  `SessionOnePlace`,
`SessionAttemptsBounded` and `SessionNoWriteAfterCompletion` rest on `PlaceInv`:
OnePlace itself; that a command somebody may still answer has left its writer
(`AnswerableIsSettled`), or a timer could complete a handle that is still being written; that a
command not yet accepted is untouched (`UnsentIsFresh`); that a queued one was never
written (`QueuedIsUnwritten`) and a held one was written as often as its writer counts
(`HeldIsCounted`), which bounds the writes even where a run shows that two writers live.
There is one lemma per coroutine; `PlaceKept` covers the many steps that move no
command.  The theorems hold of overlapping callers too.

`SerialSessionHandleProofs` adds `HandleInv`: a writer that is about to report Sent has delivered
its command (`ReportIsHonest`); a command that somebody may still answer is matched, was delivered
and has a timer (`AwaitedIsDelivered`); a writer that connect or a reconnection is about to launch
has not run yet (`LaunchInv`).  With it `SessionResultIsHonest` and `SessionPendingHasTimer` follow,
and `SessionImplementsHandle`: under the mapping `Phase` every step of every coroutine is one step
of `CommandHandle` or a stutter.  `StillMove` reduces a step to the one command whose phase changes,
the others being `Still`; there is one lemma per coroutine.

Its second half proves `SessionWriteOrder` of a session with one generation of
workers: with a second one WriteOrder fails, since a cancelled writer that holds a command
and has no delay to suspend in goes on, and may write on the new descriptor after its
successor's first command.  WriteOrder is not inductive, since it
says nothing of what is still to be written; `OrderInv` states that wire, the command in the writer's
hands and the channel are one sequence sorted by `Order`, the pairs of commands in the order
of acceptance, which is transitive because no queue takes a command twice
(`AcceptedOnce`).  Only three steps matter, the acceptance, the receive and the delivery; all
others are quiet (`QuietKeeps`).

`SerialSessionLifecycleProofs` proves the properties that overlapping calls break, of any transport and
through any number of I/O errors and refused opens.  `SessionOneStray` is of a session that is
connected once, with any threads that close it and any number of reconnections.
`OnceInv` counts the workers that run although no field holds them, or whose job the reconnection in
hand is about to replace (`SpareWriters`, `SpareReaders`): there is none before the connect
stores its job, and at most one afterwards (`Few`).  A reconnection adds none, because it has cancelled
what the fields hold before it launches (`Replacing`) and there is one at a time (`Reconnects`); the store of
connect adds the one that it displaces (`StoreSpares`).

`SessionConnectedIsUsable`, `SessionCloseIsTerminal` and `SessionOnePort` are of `SoleCaller`.
`Alone` says that then nothing reconnects, so that ports and fields are the caller's and the
closer's (`PortsAlone`); `UsableInv` what the caller has built at each place of connect (`Built`),
and that what it built works until its own disconnect, or until a failure that says so: an error
sets Failed, and only a connect that had not said Connected yet writes over it.  `QuietInv` is of a
session that nothing has disturbed so far (`Quiet`: no I/O error, and on a blocking transport no
descriptor closed under a call): for each place of the caller and the closer (`Stage`,
`CloserStage`) which descriptor is open and who works on it, and that no worker is on its way to
fail (`Calm`).  `FewPorts` says of the rest of its life that a descriptor other than the one held is
only open after a failure.  The steps that matter are the workers' (`WorkersQuiet`), the cancels
(`CancelQuiet`) and the closes (`CloseQuiet`); one lemma each has the caller and the closer.

*Main loop.* `LoopInvariant` is TypeOK with `EventsInv` (a new client is only there while the bound
allows one and the step that opens the port is still to come) and `StatesInv` (pointers, descriptors
and the state told to Java at every place of the pass).  From it follow `LoopTypeCorrect`,
`LoopThreeStates` and `LoopOnlyModemAsserts`: for every size of the buffer, the bytes read from
either side fit, because `trybytes * cost <= room` (`DivTimes`); only the modem notification can
fail the assertion, and only a read that would block overruns `readbuf`.  `SercdLoop` includes
`SercdBuffer`, so the lemmas on the ring (`AddType`, `PopType`, `LengthRange`) are there as well.

The second half of `SercdLoopProofs` says what is in the ring: `AddContents` and `PopContents` that
adding and popping are appending to and cutting the front of `Contents`, through every wrap-around
(`ModIsWrap` replaces `%` by one subtraction, since no position goes round twice), and `AddNumbered`
and `PopNumbered` that they keep the bytes numbered without a gap.  From these `LoopStreamsKept`, of
the streams of which no write would block; the pop of -1 needs only that the ring stays a ring
(`PopType`, for any count).  `LoopDropIsJustified` needs `WaitInv`: what select has seen still holds
when the handler has its turn, for the device's buffer and for the port, but not for the client's
buffer, nor for the device's after a pop of -1, which are the exceptions of the property.

*Proxy.*  `ProxyTypeCorrect` from `TypeInv`, which ties the coroutines of a client to each other.
`ProxyNoOrphan` from `JobInv`: a generation that may still come to listen is the job or
cancelled, and while a caller is between the test and the assignment of start the job is over,
which `OverStaysOver` keeps.  `ProxyServesBothWays` from `ServeInv`: whenever a
generation was cancelled by a failure there is a client in it that was not in good order, since
the forward of a client only throws when that client has gone.

*Telnet options.*  `TelnetInv`.  An option is negotiated in two ways, what the client performs
and what the daemon performs, which never touch each other (`OtherWaysStay`); in each the two streams
together carry at most two messages, and `Row` lists what they may be with the flags of both sides:
at rest, one side has asked, both have asked and the requests cross.  The six lemmas `WayStays` to
`WayStarts` say how one row leads to another, and one lemma per message of the code which of
them its handler takes.  `SubsHandled` needs that every suboption in flight will find its option
agreed on (`SubsWelcome`), whatever is still in front of it in the stream, and that none is lost
(`SubsCounted`).  Agreement is a theorem for every set of offers, any number of options,
of requests and of clients one after another.

*Command parser.*  `ServerInv` has what the server keeps and told (`Served`), that a reply stays
within its cost (`Replied`), what is collected of a command (`Reader`), what the device
got (`Forwarded`) and the client (`World`); there is one lemma per command, and `ReportedBytes`
and `EscapedAllFacts` for the escapes, a fold over a sequence of any length.  From it `ParserTypeCorrect`,
`ParserCostBounded`, `ParserToldIsTrue` and `ParserNotifiedIsTrue`.  Here TypeOK says that a command
of fixed length never grows beyond ten bytes, while a signature may.  `ParserInSync` and
`ParserObeyed` need to know where in an item the parser is: `Progress` says after every
byte what is read and what is pending of data, an option, a command or a signature.  A
signature of any length is read to its end because what is pending is always escaped
and closed by IAC SE (`Closes`).  `ParserReplyIsWhole` is an action property: a byte of the
client either does nothing or completes a command (`Handled`), a command is answered in one of
four forms (`Answered`), and what the client takes out of each is the escaped value (`ReplyBody`),
one byte or the speed as it is (`PlainReply`, `SpeedIsPlain`).

`ParserCostBounded` joins the parser to the main loop, for every byte, parameter and setting, and
whatever the clients did before.  `SercdLoop` does not know what a byte means: its `Redirect`, `DeviceIn` and
`Modemstate` only assume what one may cost, and that no two of the costs come together, on which the
room that the loop keeps depends.  `CostBounded` says so of each step of `SercdParser`: a byte of the client
is one for the device, or is answered within the bound of its kind of reply (`ReplyBound`), or sets
`InputFlow` (`FlowOrReply`); a byte of the device is one or two, which is the 2 that divides the
room at :1487; a change of the lines is told in 7 or 8; nothing else touches `InputFlow`.
What is left to the reader is the sum over the bytes of one read: each adds
one cost of these to what `Redirect` allows of one byte less.

The assumptions on the client (`ParserAssumption`) are those
of RFC 2217 on the lengths of parameters, and one more, that it asks for no speed with two bytes
255: the parser would carry such a command out two bytes early and take its IAC SE for the
beginning of another, which neither of the two properties holds of.  `PortAssumption` states of
the speeds of `unix.c` that none has a byte 13 or 255.

*Frame parser.*  `Loop` is a recursive function, so first that it exists and is the only one
(`LoopExists`, `OneSolution`), from `StepIsLocal`: a pass calls the loop on a shorter buffer.
The heart is `LoopInPieces`: the loop over s and t appended does what the loop over s does and then
the loop over what that left pending and t, for an overlapping header, a footer, a length
that is not there yet, or a checksum.  It rests on `SliceOfConcat`, `IndexFacts` and
`DropPrefix`, a prefix without a header changes nothing that is found later.  `ParserInv`
is then short: what is kept and what was returned is the loop over the whole stream (`KeptIsLoop`),
for the configuration of this parser, which no step changes (`LoopKept`).  `ReadingIsLoop`,
by induction from the end of the stream, makes it the reference, hence `FragmentationIsFree`:
for every configuration, every stream and every cut of it.  `NothingIsHeldBack` and
`FirstFrameIsKept` follow from what the loop returns (`LoopReturns`, `LoopCases`).

Induction over data is done without the operator that the library's theorems take as a parameter:
of the numbers for which a statement fails, a set, there would be a least one (`LeastNumber`,
`NumberInduction`, from the library's well-foundedness of the naturals).

Only model-checked: everything under fairness (AcceptedCompletes, ReconnectEnds,
ClientIsServed, ExitEnds, NegotiationEnds, LeaverIsReleased), which is out of the prover's
reach.  Every other property of a passing run is stated by a theorem.

## 6. Not modelled, and observed on the way

Not modelled: events and their slow subscribers, logging, memory visibility of the plain
fields, EINTR of select, socket options, the text of signatures, `CiscoIOSCompatible` (off),
lock files (compiled only without ANDROID), the device scanner, the data that the proxy's
clients send, `Checksum` and `ByteUtils` but for a sum in the frame parser.
`PortControlEnable` is true from the start and never reset, and does not appear.

Observed in the code, without a run of their own:

* connect from Failed opens a second descriptor over the first, which nobody closes any more
  (`OnePort` and `CloseIsTerminal` name it).
* On the Android transport a read or write that throws because disconnect or close has closed the
  descriptor sets Failed after Idle or Closed (:125; `CloseIsTerminal` names it, `SessionLifecycle`
  reaches it).
* A reader that fails before :55 is written over: Connected is said although nobody reads
  (`ConnectedIsUsable` names it).
* A reconnection that overtakes connect replaces the channel, while connect's writer takes the
  channel the field holds when it starts (:129): a command may be left in a channel without a writer
  (`AcceptedCompletes` names it).
* A close by another thread that overlaps a connect can finish first; connect then opens the device
  and says Connected, although the design document calls close terminal (`CloseIsTerminal` speaks of
  one thread).
* A write that would block pops -1 bytes: the last byte sent is sent again, a ring that was full is
  emptied, the first write to a new client can send a byte of what was there before (:1523, :1543;
  `StreamsKept` names it, until the next client or opening of the port).  It takes a place of the
  buffer, so the client may be dropped although nothing failed (`DropIsJustified` names it).
* Where ssize_t has 32 bits a read that would block runs past `readbuf`, since the loops compare an
  unsigned `i` with -1 (:1501, :1567; `OnlyModemAsserts` names it).  select has said that the
  descriptor is readable, so both need a descriptor that stops being so in between.
* A failure between `state = Connected` and `reconnecting = false` starts no reconnection (:173).
* A read that finds no room for a reply after the device's bytes reads zero bytes, which is taken
  for the end of the stream: the client is dropped (`DropIsJustified` names it).
* An escaped 0xFF in the parameter of a fixed-length command ends it one byte early and its SE
  reaches the device (`InSync` names it); IAC NOP swallows the next byte.
* The baud rate of a reply has eight bytes where unsigned long has (`ReplyIsWhole` names it), and
  a reply after a CR of the data contains a NUL.
* The parser's statics, the masks, `InputFlow` and `BreakSignaled` survive a change of client: one
  that suspended the data and left leaves the next without data or modem notifications, and a
  command cut short takes the first bytes of the next client for its end (`InSync` speaks of
  clients that find the parser between two items).
* The modem state is remembered unmasked with its notification, so a line that a client masks in
  later may differ from what that client knows (`NotifiedIsTrue` speaks of the lines it was told of).
* The proxy: accept ignores the cancellation, so the port stays bound after close, a start after it
  fails with the port in use, and the clients it accepts from then on are never served or closed;
  a late `Running` or `Failed` of a cancelled generation overwrites `Stopped` or the state of the new
  one; of two threads that start at once one server is lost to close; a reset by one client
  cancels the coroutines of all the others.
* An offer that overflows the frame buffer drops whole frames unparsed; `Checksums.None` as a
  checksum rejects every frame; with a footer and no `checksumOffset`, as in the example of the
  repository's README (lines 121-131), the checksum is looked for in the footer.

## 7. Plan

Done first, in this order: the session with its abstract handle and proofs; the main loop, its ring and
its proofs; the telnet options; the command parser and the port settings; the frame parser.

Then: the refinement proof of CommandHandle with ResultIsHonest and PendingHasTimer; the proofs
about WriteOrder, the ring, StreamsKept and DropIsJustified; the parser over two clients, with the
statics that survive and the modem lines; the proxy with its proofs; the proofs about the telnet
options, the command parser, the frame parser and the life of a session.

Not done, the most important first:

1. A run of a close that overlaps another thread's connect.
2. An abstract pipe as the specification of the parser and the main loop together, of which
   `ParserCostBounded` is the first step.
3. The frame parser's example with footer and checksum; a conversion module for ByteUtils
   and Checksum.
4. Subscribers that do not keep up with the events of the session.

To check everything: run TLC on each run of `PROJECT.json`, for instance
`tlc -config SercdLoop.cfg MCSercdLoop`, and `tlapm` on each module whose name ends in `Proofs`.
