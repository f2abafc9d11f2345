----------------------------- MODULE SercdLoop -----------------------------
(***************************************************************************)
(* The main loop of sercd.c, SercdService_start, as built for Android: one *)
(* client at a time, one serial port, two ring buffers between them.  Each *)
(* handler of a pass of the loop is a step, in the order of the code, and  *)
(* any call may find that its descriptor failed or that it would block.  A *)
(* byte in a buffer is its number in its direction.  The meaning of the    *)
(* client's bytes is here what each may cost: at most one byte for the     *)
(* device or at most HandleIACCommand_bytes for the client.                *)
(* SercdService_exit runs in another thread.                               *)
(***************************************************************************)
EXTENDS SercdBuffer

CONSTANTS
    EscWriteChar_bytes, SendCPCByteCommand_bytes, HandleIACCommand_bytes,
    InitialOptions_bytes,       \* what SendTelnetInitialOptions writes
    ReadBufSize,                \* sizeof(readbuf)
    SsizeBits,                  \* widths of ssize_t of the ABIs (Application.mk)
    MaxClients,                 \* bound: connections the listener is asked for
    MaxFaults                   \* bound: failures, ends of file, writes that would block

ASSUME LoopAssumption ==
    /\ {EscWriteChar_bytes, SendCPCByteCommand_bytes, HandleIACCommand_bytes,
        InitialOptions_bytes} \subseteq 1 .. BufferSize - 1
    /\ {ReadBufSize, MaxClients, MaxFaults} \subseteq Nat /\ ReadBufSize > 0
    /\ SsizeBits \subseteq {32, 64} /\ SsizeBits # {}

VARIABLES
    process,        \* the process runs, or how it ended
    ev,             \* what is left of the events of this pass (selret)
    DeviceFd,       \* BOOLEAN: the pointer is not NULL
    client,         \* InSocketFd and OutSocketFd: 0 is NULL, else which client
    ToNetBuf, ToDevBuf,
    netIn, netOut,  \* numbers of the last byte put into ToNetBuf and taken out
    devIn, devOut,  \* and the same of ToDevBuf
    netRewound,     \* BOOLEAN: a write of ToNetBuf, since it was set up, would block
    devRewound,     \* and the same of ToDevBuf
    InputFlow,
    proxyState,     \* what changeState last told Java
    fds,            \* descriptors that are open
    exiting,        \* SercdService_exit has run
    asked,          \* connections the listener was asked for
    faults

toNet == <<ToNetBuf, netIn, netOut, netRewound>>
toDev == <<ToDevBuf, devIn, devOut, devRewound>>
connection == <<DeviceFd, client, proxyState, fds>>
vars == <<process, ev, connection, toNet, toDev, InputFlow, exiting, asked, faults>>

Phases == <<"DEVICEIN", "DEVICEOUT", "SOCKETOUT", "SOCKETIN", "SOCKETCONNECT",
            "OPEN", "MODEMSTATE">>
Events == {Phases[i] : i \in 1..7} \ {"OPEN"}
ProxyStates == {"READY", "CONNECTED", "PORT_OPENED"}
Numbers == 0 .. BufferSize - 1  \* bound: modulo BufferSize, a buffer holds fewer
Following(n, k) == (n + k) % BufferSize

\* Every variable holds a value of its type.
TypeOK ==
    /\ process \in {"runs", "aborted", "overrun", "exited"}
    /\ ev \subseteq {Phases[i] : i \in 1..7}
    /\ DeviceFd \in BOOLEAN /\ client \in 0..MaxClients
    /\ ToNetBuf \in BufferType(Numbers) /\ ToDevBuf \in BufferType(Numbers)
    /\ {netIn, netOut, devIn, devOut} \subseteq Numbers
    /\ netRewound \in BOOLEAN /\ devRewound \in BOOLEAN
    /\ InputFlow \in BOOLEAN /\ exiting \in BOOLEAN
    /\ proxyState \in ProxyStates
    /\ fds \subseteq {"device", "socket", "listener"}
    /\ asked \in 0..MaxClients /\ faults \in 0..MaxFaults

EmptyBuffer == [RdPos |-> 0, WrPos |-> 0, Buffer |-> [p \in Positions |-> 0]]

Init ==
    /\ process = "runs" /\ ev = {}
    /\ DeviceFd = FALSE /\ client = 0 /\ proxyState = "READY"
    /\ fds = {"listener"}
    /\ ToNetBuf = EmptyBuffer /\ ToDevBuf = EmptyBuffer
    /\ netIn = 0 /\ netOut = 0 /\ devIn = 0 /\ devOut = 0
    /\ netRewound = FALSE /\ devRewound = FALSE
    /\ InputFlow = TRUE /\ exiting = FALSE /\ asked = 0 /\ faults = 0

-----------------------------------------------------------------------------
AtMost(a, b) == IF a <= b THEN a ELSE b

\* The next count bytes after the one numbered last.
Bytes(last, count) == [i \in 1..count |-> Following(last, i)]

\* Without room the assertion of AddToBuffer ends the process.
PutNet(count) ==
    /\ UNCHANGED <<netOut, netRewound>>
    /\ IF BufferHasRoomFor(ToNetBuf, count)
         THEN /\ ToNetBuf' = AddToBuffer(ToNetBuf, Bytes(netIn, count))
              /\ netIn' = Following(netIn, count)
              /\ UNCHANGED process
         ELSE process' = "aborted" /\ UNCHANGED <<ToNetBuf, netIn>>

PutDev(count) ==
    /\ ToDevBuf' = AddToBuffer(ToDevBuf, Bytes(devIn, count))
    /\ devIn' = Following(devIn, count)
    /\ UNCHANGED <<devOut, devRewound>>

PopNet(count) ==
    /\ ToNetBuf' = BufferPopBytes(ToNetBuf, count)
    /\ netOut' = Following(netOut, count)
    /\ UNCHANGED netIn

PopDev(count) ==
    /\ ToDevBuf' = BufferPopBytes(ToDevBuf, count)
    /\ devOut' = Following(devOut, count)
    /\ UNCHANGED devIn

\* The handler of e has its turn: the handlers run in the order of Phases.
Turn(e) ==
    /\ process = "runs" /\ e \in ev
    /\ \A i, j \in 1..7 : Phases[j] = e /\ i < j => Phases[i] \notin ev
Done(e) == ev' = ev \ {e}

\* A failure or an end of file: one that the bound allows, or the call was made
\* on a descriptor that SercdService_exit has closed.
Fails(fd) ==
    IF fd \in fds THEN faults < MaxFaults /\ faults' = faults + 1
                  ELSE UNCHANGED faults
Works(fd) == fd \in fds /\ UNCHANGED faults

\* A write would block and returns -1, which IOResultError lets pass (:1107).
Blocks(fd) == fd \in fds /\ faults < MaxFaults /\ faults' = faults + 1

\* A read would block: the handler's loop compares its unsigned i with -1 (:1501,
\* :1567), which in 32 bits is 4294967295 bytes, past readbuf and any room; where
\* ssize_t is wider it is no byte.
ReadBlocks ==
    \E bits \in SsizeBits : IF bits = 32 THEN process' = "overrun" ELSE UNCHANGED process

CloseAll(closed) ==
    /\ proxyState' = "READY"
    /\ fds' = fds \ closed
    /\ DeviceFd' = FALSE /\ client' = 0
    /\ ev' = {}
    /\ UNCHANGED <<process, toNet, toDev, InputFlow, exiting>>
DropConnectionBug == CloseAll({"socket"})               \* leaves the port open

\* Every error branch: changeState, DropConnection, NULL, continue.
DropConnection == CloseAll({"device", "socket"})

-----------------------------------------------------------------------------
(* select                                                                  *)

WantsDeviceInBug == DeviceFd /\ BufferHasRoomFor(ToNetBuf, 1) /\ InputFlow
WantsDeviceIn ==
    DeviceFd /\ BufferHasRoomFor(ToNetBuf, EscWriteChar_bytes) /\ InputFlow

WantsModemstate ==
    /\ DeviceFd /\ InputFlow
    /\ BufferHasRoomFor(ToNetBuf, SendCPCByteCommand_bytes)

WantsSocketOutBug == client # 0 /\ ~IsBufferEmpty(ToNetBuf) /\ InputFlow
WantsSocketOut == client # 0 /\ ~IsBufferEmpty(ToNetBuf)

WantsSocketIn ==
    /\ DeviceFd /\ BufferHasRoomFor(ToDevBuf, 1) /\ client # 0
    /\ BufferHasRoomFor(ToNetBuf, HandleIACCommand_bytes)

Wants(e) ==
    CASE e = "DEVICEIN" -> WantsDeviceIn
      [] e = "DEVICEOUT" -> DeviceFd /\ ~IsBufferEmpty(ToDevBuf)
      [] e = "MODEMSTATE" -> WantsModemstate
      [] e = "SOCKETOUT" -> WantsSocketOut
      [] e = "SOCKETIN" -> WantsSocketIn
      [] e = "SOCKETCONNECT" -> asked < MaxClients

\* Some of what the loop waits for occurs.  The listener is always in the set,
\* so once it is closed select fails, and the process exits.
Select ==
    /\ process = "runs" /\ ev = {}
    /\ IF "listener" \in fds
         THEN /\ \E s \in SUBSET {e \in Events : Wants(e)} :
                    s # {} /\ ev' = s \cup {"OPEN"}
              /\ UNCHANGED process
         ELSE process' = "exited" /\ UNCHANGED ev
    /\ UNCHANGED <<connection, toNet, toDev, InputFlow, exiting, asked, faults>>

-----------------------------------------------------------------------------
(* the handlers of a pass                                                  *)

\* Every byte of the device becomes one byte for the client, or two.  A read of
\* trybytes = 0 bytes returns 0, which IOResultError takes for the end of the stream.
DeviceIn ==
    LET trybytes == AtMost(ReadBufSize, BufferRoomLeft(ToNetBuf) \div EscWriteChar_bytes)
    IN  /\ Turn("DEVICEIN")
        /\ UNCHANGED asked
        /\ \/ (Fails("device") \/ (trybytes = 0 /\ Works("device"))) /\ DropConnection
           \/ /\ Works("device") /\ Done("DEVICEIN") /\ trybytes > 0
              /\ \/ \E i \in 1..trybytes : \E count \in i .. i * EscWriteChar_bytes :
                       PutNet(count)
                 \/ ReadBlocks /\ UNCHANGED toNet
              /\ UNCHANGED <<connection, toDev, InputFlow, exiting>>

\* A write takes some of the bytes up to the end of the ring.  One that would
\* block pops -1 bytes: the read position goes back by one.
DeviceOut ==
    /\ Turn("DEVICEOUT")
    /\ UNCHANGED asked
    /\ \/ Fails("device") /\ DropConnection
       \/ /\ Done("DEVICEOUT")
          /\ \/ /\ Works("device") /\ UNCHANGED devRewound
                /\ \E i \in 1..GetBufferString(ToDevBuf) : PopDev(i)
             \/ Blocks("device") /\ PopDev(-1) /\ devRewound' = TRUE
          /\ UNCHANGED <<process, connection, toNet, InputFlow, exiting>>

SocketOut ==
    /\ Turn("SOCKETOUT")
    /\ UNCHANGED asked
    /\ \/ Fails("socket") /\ DropConnection
       \/ /\ Done("SOCKETOUT")
          /\ \/ /\ Works("socket") /\ UNCHANGED netRewound
                /\ \E i \in 1..GetBufferString(ToNetBuf) : PopNet(i)
             \/ Blocks("socket") /\ PopNet(-1) /\ netRewound' = TRUE
          /\ UNCHANGED <<process, connection, toDev, InputFlow, exiting>>

\* Of i bytes read, dev are for the device; each other may complete a command,
\* which writes a reply or sets InputFlow (EscRedirectChar, HandleIACCommand).
Redirect(i) ==
    \E dev \in 0..i : \E flow \in 0 .. AtMost(1, i - dev) :
        /\ PutDev(dev)
        /\ \E count \in 0 .. (i - dev - flow) * HandleIACCommand_bytes : PutNet(count)
        /\ IF flow = 1 THEN InputFlow' \in BOOLEAN ELSE UNCHANGED InputFlow

SocketInBug ==                              \* sized for the device's buffer only
    LET trybytes == AtMost(ReadBufSize, BufferRoomLeft(ToDevBuf))
    IN  /\ Turn("SOCKETIN")
        /\ UNCHANGED asked
        /\ \/ (Fails("socket") \/ (trybytes = 0 /\ Works("socket"))) /\ DropConnection
           \/ /\ Works("socket") /\ Done("SOCKETIN") /\ trybytes > 0
              /\ \/ \E i \in 1..trybytes : Redirect(i)
                 \/ ReadBlocks /\ UNCHANGED <<toNet, toDev, InputFlow>>
              /\ UNCHANGED <<connection, exiting>>

\* The bytes of the client, at most as many as there is room for the replies to.
SocketIn ==
    LET trybytes == AtMost(AtMost(ReadBufSize,
                                  BufferRoomLeft(ToNetBuf) \div HandleIACCommand_bytes),
                           BufferRoomLeft(ToDevBuf))
    IN  /\ Turn("SOCKETIN")
        /\ UNCHANGED asked
        /\ \/ (Fails("socket") \/ (trybytes = 0 /\ Works("socket"))) /\ DropConnection
           \/ /\ Works("socket") /\ Done("SOCKETIN") /\ trybytes > 0
              /\ \/ \E i \in 1..trybytes : Redirect(i)
                 \/ ReadBlocks /\ UNCHANGED <<toNet, toDev, InputFlow>>
              /\ UNCHANGED <<connection, exiting>>

\* A client is accepted: the socket, ToNetBuf and the telnet options are set up.
Accept ==
    /\ client' = asked + 1 /\ fds' = fds \cup {"socket"}
    /\ proxyState' = "CONNECTED"
    /\ ToNetBuf' = AddToBuffer(InitBuffer(ToNetBuf), Bytes(0, InitialOptions_bytes))
    /\ netIn' = InitialOptions_bytes /\ netOut' = 0 /\ netRewound' = FALSE
    /\ UNCHANGED DeviceFd

\* accept fails, or there is a client already, or this one is accepted.
SocketConnect ==
    /\ Turn("SOCKETCONNECT") /\ Done("SOCKETCONNECT")
    /\ asked' = asked + 1
    /\ \/ /\ Fails("listener")
          /\ UNCHANGED <<connection, toNet>>
       \/ /\ Works("listener")
          /\ IF client # 0 THEN UNCHANGED <<connection, toNet>> ELSE Accept
    /\ UNCHANGED <<process, toDev, InputFlow, exiting>>

OpenPortBug ==                              \* keeps what is left in ToDevBuf
    /\ DeviceFd' = TRUE /\ fds' = fds \cup {"device"}
    /\ proxyState' = "PORT_OPENED"
    /\ devIn' = 0 /\ devOut' = 0 /\ devRewound' = FALSE /\ UNCHANGED ToDevBuf
    /\ UNCHANGED client

\* The port is open, and ToDevBuf starts empty.
OpenPort ==
    /\ DeviceFd' = TRUE /\ fds' = fds \cup {"device"}
    /\ proxyState' = "PORT_OPENED"
    /\ ToDevBuf' = InitBuffer(ToDevBuf)
    /\ devIn' = 0 /\ devOut' = 0 /\ devRewound' = FALSE
    /\ UNCHANGED client

\* With a client and no port the port is opened; if that fails the client goes.
Open ==
    /\ Turn("OPEN")
    /\ UNCHANGED asked
    /\ IF client # 0 /\ ~DeviceFd
         THEN \/ faults < MaxFaults /\ faults' = faults + 1 /\ CloseAll({"socket"})
              \/ /\ OpenPort /\ Done("OPEN")
                 /\ UNCHANGED <<process, toNet, InputFlow, exiting, faults>>
         ELSE /\ Done("OPEN")
              /\ UNCHANGED <<process, connection, toNet, toDev, InputFlow, exiting,
                             faults>>

\* A changed modem state is notified; EscWriteChar may double its byte.
Modemstate ==
    /\ Turn("MODEMSTATE") /\ Done("MODEMSTATE")
    /\ \E count \in {0, SendCPCByteCommand_bytes - 1, SendCPCByteCommand_bytes} :
          PutNet(count)
    /\ UNCHANGED <<connection, toDev, InputFlow, exiting, asked, faults>>

SercdService_exitBug ==                     \* closes the connection only
    /\ process = "runs" /\ ~exiting
    /\ exiting' = TRUE
    /\ fds' = fds \cap {"listener"}
    /\ UNCHANGED <<process, ev, DeviceFd, client, proxyState, toNet, toDev,
                   InputFlow, asked, faults>>

\* Another thread closes the descriptors; the loop's pointers stay as they are.
SercdService_exit ==
    /\ process = "runs" /\ ~exiting
    /\ exiting' = TRUE
    /\ fds' = fds \ ({"listener"} \cup (IF DeviceFd THEN {"device"} ELSE {})
                       \cup (IF client # 0 THEN {"socket"} ELSE {}))
    /\ UNCHANGED <<process, ev, DeviceFd, client, proxyState, toNet, toDev,
                   InputFlow, asked, faults>>

Handler ==
    \/ DeviceIn \/ DeviceOut \/ SocketOut \/ SocketIn \/ SocketConnect \/ Open
    \/ Modemstate

Next == Select \/ Handler \/ SercdService_exit

Spec == Init /\ [][Next]_vars

\* A pass of the loop ends, select ends (its timeout is PollInterval), and the
\* client reads: select finds its socket writable again and again, and a write
\* then takes something.
FairSpec ==
    /\ Spec
    /\ WF_vars(Handler)
    /\ WF_vars(Select /\ exiting)
    /\ SF_vars(Select /\ "SOCKETOUT" \in ev')
    /\ SF_vars(SocketOut /\ (netOut' # netOut \/ client' = 0))

-----------------------------------------------------------------------------
(* Properties                                                              *)

Numbered(B, out, in) ==
    /\ Following(out, BufferLength(B)) = in
    /\ \A i \in 1 .. BufferLength(B) : Contents(B)[i] = Following(out, i)

\* Both streams keep their bytes: what was put into a buffer for this client,
\* or for this opening of the port, and is not written yet is in the buffer, in
\* order, and nothing else is, whatever partial writes and new clients do.  The
\* exception is a stream of which a write would block: it has a byte too many, or
\* has lost a full ring (BufferPopBytes of -1, :1523, :1543).
StreamsKept ==
    /\ client # 0 => netRewound \/ Numbered(ToNetBuf, netOut, netIn)
    /\ DeviceFd => devRewound \/ Numbered(ToDevBuf, devOut, devIn)

\* The assertion of AddToBuffer (:349).
NeverAsserts == process # "aborted"

\* The assertion can fail only in the notification of the modem state: no bytes
\* that were read overflow a buffer.  Where ssize_t has 32 bits a read that would
\* block overruns readbuf; it does so nowhere else.
OnlyModemAsserts ==
    [][/\ process' = "aborted" => Modemstate
       /\ process' = "overrun" => 32 \in SsizeBits /\ (DeviceIn \/ SocketIn)]_vars

\* Between two passes the three states of the comment at :1416 are the only
\* ones, they are what Java was told, and they hold just their descriptors.
ThreeStates ==
    /\ DeviceFd => client # 0
    /\ ev = {} => proxyState = (IF client = 0 THEN "READY" ELSE "PORT_OPENED")
    /\ ~exiting => fds = {"listener"} \cup (IF client # 0 THEN {"socket"} ELSE {})
                           \cup (IF DeviceFd THEN {"device"} ELSE {})

\* A client is dropped for a failure, or for the bytes that took, in the same pass,
\* the room for the client's next reply (those of the device, or the one that a
\* write that would block brings back), or the room for its next byte, which only
\* a write to the device that would block can take; never otherwise.
DropIsJustified ==
    [][client # 0 /\ client' = 0 =>
          \/ faults' # faults \/ exiting
          \/ SocketIn /\ ~BufferHasRoomFor(ToNetBuf, HandleIACCommand_bytes)
          \/ SocketIn /\ devRewound /\ ~BufferHasRoomFor(ToDevBuf, 1)]_vars

\* Bytes for the client do not stay in ToNetBuf for ever: they are written to it,
\* or the client is dropped, also while it has suspended the device's data (:1446).
\* A write that would block does not count: there are MaxFaults of them at most.
ClientIsServed ==
    \/ []<><<netOut' # netOut>>_vars
    \/ []<>(client = 0 \/ IsBufferEmpty(ToNetBuf) \/ process # "runs")

\* Once SercdService_exit has closed the descriptors the loop ends
\* (SercdService_exit:1658).
ExitEnds == exiting ~> process # "runs"
=============================================================================
