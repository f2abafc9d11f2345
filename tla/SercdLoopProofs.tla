-------------------------- MODULE SercdLoopProofs --------------------------
(***************************************************************************)
(* For all sizes of the buffers, reads and replies: the types, the three   *)
(* states of the loop, that of all handlers only the notification of the   *)
(* modem state can find a buffer full, that the ring buffers lose, repeat  *)
(* and reorder nothing where they wrap around, so both streams keep their  *)
(* bytes, and that no client is dropped without a reason.                  *)
(***************************************************************************)
EXTENDS SercdLoop, TLAPS

-----------------------------------------------------------------------------
(* The ring buffer                                                         *)

USE DEF Positions, Numbers

\* A position stays within the ring.
LEMMA ModRange ==
    ASSUME NEW n \in Int PROVE n % BufferSize \in 0 .. BufferSize - 1
BY BufferAssumption

\* What BufferLength and BufferRoomLeft return.
LEMMA LengthRange ==
    ASSUME NEW B, B.RdPos \in Positions, B.WrPos \in Positions
    PROVE  /\ BufferLength(B) \in Nat /\ BufferLength(B) < BufferSize
           /\ BufferRoomLeft(B) \in Nat /\ BufferRoomLeft(B) < BufferSize
<1>1. B.WrPos - B.RdPos + BufferSize \in Int
  BY BufferAssumption
<1>2. BufferLength(B) \in 0 .. BufferSize - 1
  BY <1>1, ModRange DEF BufferLength
<1> QED BY <1>2, BufferAssumption DEF BufferRoomLeft

\* The room divided by the cost of a byte, times the cost, fits: the size of a read.
LEMMA DivTimes ==
    ASSUME NEW a \in Nat, NEW d \in Nat \ {0}, NEW i \in 0 .. (a \div d)
    PROVE  i * d <= a
<1>1. (a \div d) * d <= a  OBVIOUS
<1>2. i * d <= (a \div d) * d  OBVIOUS
<1> QED BY <1>1, <1>2

\* AddToBuffer keeps the type of a buffer.
LEMMA AddType ==
    ASSUME NEW Cell, NEW B \in BufferType(Cell), NEW Cs \in Seq(Cell)
    PROVE  AddToBuffer(B, Cs) \in BufferType(Cell)
<1> DEFINE Offset(p) == (p - B.WrPos + BufferSize) % BufferSize
<1>1. ASSUME NEW p \in Positions
      PROVE  (IF Offset(p) < Len(Cs) THEN Cs[Offset(p) + 1] ELSE B.Buffer[p]) \in Cell
  <2>1. Offset(p) \in 0 .. BufferSize - 1
    <3>1. p - B.WrPos + BufferSize \in Int
      BY BufferAssumption DEF BufferType
    <3> QED BY <3>1, ModRange
  <2>2. CASE Offset(p) < Len(Cs)
    BY <2>1, <2>2
  <2> QED BY <2>2 DEF BufferType
<1>2. (B.WrPos + Len(Cs)) % BufferSize \in Positions
  <2>1. B.WrPos + Len(Cs) \in Int
    BY BufferAssumption DEF BufferType
  <2> QED BY <2>1, ModRange
<1> QED BY <1>1, <1>2 DEF AddToBuffer, BufferType

\* BufferPopBytes keeps the type of a buffer.
LEMMA PopType ==
    ASSUME NEW Cell, NEW B \in BufferType(Cell), NEW count \in Int
    PROVE  BufferPopBytes(B, count) \in BufferType(Cell)
<1>1. B.RdPos + count \in Int
  BY BufferAssumption DEF BufferType
<1>2. (B.RdPos + count) % BufferSize \in Positions
  BY <1>1, ModRange
<1> QED BY <1>2 DEF BufferPopBytes, BufferType

\* InitBuffer keeps the type of a buffer.
LEMMA InitBufferType ==
    ASSUME NEW Cell, NEW B \in BufferType(Cell)
    PROVE  InitBuffer(B) \in BufferType(Cell)
<1>1. 0 \in Positions
  BY BufferAssumption
<1> QED BY <1>1 DEF InitBuffer, BufferType

\* What GetBufferString offers to write is a number of bytes.
LEMMA StringRange ==
    ASSUME NEW Cell, NEW B \in BufferType(Cell)
    PROVE  GetBufferString(B) \in Nat
BY BufferAssumption DEF GetBufferString, BufferType

\* The number of a byte of a stream stays in range.
LEMMA FollowingType ==
    ASSUME NEW n \in Numbers, NEW k \in Int PROVE Following(n, k) \in Numbers
<1>1. n + k \in Int  BY BufferAssumption
<1> QED BY <1>1, ModRange DEF Following

\* The bytes that are read are a sequence of numbers.
LEMMA BytesType ==
    ASSUME NEW n \in Numbers, NEW count \in Nat
    PROVE  Bytes(n, count) \in Seq(Numbers)
<1>1. ASSUME NEW i \in 1..count PROVE Following(n, i) \in Numbers
  <2>1. i \in Int
    OBVIOUS
  <2> QED BY <2>1, FollowingType
<1> QED BY <1>1 DEF Bytes

-----------------------------------------------------------------------------
(* The streams                                                             *)

NetType ==
    /\ ToNetBuf \in BufferType(Numbers) /\ netIn \in Numbers /\ netOut \in Numbers
    /\ netRewound \in BOOLEAN
DevType ==
    /\ ToDevBuf \in BufferType(Numbers) /\ devIn \in Numbers /\ devOut \in Numbers
    /\ devRewound \in BOOLEAN

\* Adding to ToNetBuf keeps its type and at most aborts the process.
LEMMA PutNetType ==
    ASSUME NetType, NEW count \in Nat, PutNet(count)
    PROVE  NetType' /\ process' \in {process, "aborted"}
<1>1. AddToBuffer(ToNetBuf, Bytes(netIn, count)) \in BufferType(Numbers)
  BY AddType, BytesType DEF NetType
<1>2. Following(netIn, count) \in Numbers
  BY FollowingType DEF NetType
<1> QED BY <1>1, <1>2 DEF PutNet, NetType

\* Adding to ToDevBuf keeps its type.
LEMMA PutDevType ==
    ASSUME DevType, NEW count \in Nat, PutDev(count) PROVE DevType'
<1>1. AddToBuffer(ToDevBuf, Bytes(devIn, count)) \in BufferType(Numbers)
  BY AddType, BytesType DEF DevType
<1>2. Following(devIn, count) \in Numbers
  BY FollowingType DEF DevType
<1> QED BY <1>1, <1>2 DEF PutDev, DevType

\* Writing from ToNetBuf keeps its type.
LEMMA PopNetType ==
    ASSUME NetType, NEW count \in Int, PopNet(count), netRewound' \in BOOLEAN
    PROVE  NetType'
BY PopType, FollowingType DEF PopNet, NetType

\* Writing from ToDevBuf keeps its type.
LEMMA PopDevType ==
    ASSUME DevType, NEW count \in Int, PopDev(count), devRewound' \in BOOLEAN
    PROVE  DevType'
BY PopType, FollowingType DEF PopDev, DevType

-----------------------------------------------------------------------------
(* The inductive invariant                                                 *)

\* A connection is still to be accepted in this pass: the bound allows it, and
\* the step that opens the port follows.
EventsInv == "SOCKETCONNECT" \in ev => asked < MaxClients /\ "OPEN" \in ev

\* ThreeStates within a pass too: a client without a port is there only between
\* its accept and the step that opens the port.
StatesInv ==
    /\ DeviceFd => client # 0
    /\ client # 0 /\ ~DeviceFd => "OPEN" \in ev
    /\ proxyState = (IF client = 0 THEN "READY"
                     ELSE IF DeviceFd THEN "PORT_OPENED" ELSE "CONNECTED")
    /\ ~exiting => fds = {"listener"} \cup (IF client # 0 THEN {"socket"} ELSE {})
                           \cup (IF DeviceFd THEN {"device"} ELSE {})

LoopInv == TypeOK /\ EventsInv /\ StatesInv

\* The phases of a pass are the events and OPEN.
LEMMA PhaseNames ==
    {Phases[i] : i \in 1..7} = Events \cup {"OPEN"}
BY DEF Phases, Events

\* The type invariant by parts.
TypeParts ==
    /\ process \in {"runs", "aborted", "overrun", "exited"}
    /\ ev \subseteq Events \cup {"OPEN"}
    /\ DeviceFd \in BOOLEAN /\ client \in 0..MaxClients
    /\ NetType /\ DevType
    /\ InputFlow \in BOOLEAN /\ exiting \in BOOLEAN
    /\ proxyState \in ProxyStates
    /\ fds \subseteq {"device", "socket", "listener"}
    /\ asked \in 0..MaxClients /\ faults \in 0..MaxFaults

\* The type invariant by its parts, for the provers.
LEMMA Types == (TypeOK <=> TypeParts) /\ (TypeOK' <=> TypeParts')
BY PhaseNames DEF TypeOK, TypeParts, NetType, DevType

\* A read or a write counts within the bound of failures.
LEMMA FailsType ==
    ASSUME TypeOK, NEW fd, Fails(fd) \/ Works(fd) \/ Blocks(fd)
    PROVE  faults' \in 0..MaxFaults
<1>1. MaxFaults \in Nat /\ faults \in 0..MaxFaults
  BY LoopAssumption DEF TypeOK
<1>2. (faults < MaxFaults /\ faults' = faults + 1) \/ faults' = faults
  BY DEF Fails, Works, Blocks
<1> QED
  BY ONLY <1>1, <1>2

\* DropConnection keeps the invariant.
LEMMA DropKeeps ==
    ASSUME LoopInv, faults' \in 0..MaxFaults, UNCHANGED asked,
           DropConnection \/ (CloseAll({"socket"}) /\ ~DeviceFd)
    PROVE  LoopInv'
<1>1. PICK closed : CloseAll(closed)
  BY DEF DropConnection
<1>2. NetType' /\ DevType'
  BY <1>1, Types DEF LoopInv, TypeParts, CloseAll, toNet, toDev, NetType, DevType
<1>3. client' \in 0..MaxClients
  BY <1>1, LoopAssumption DEF CloseAll
<1>4. TypeOK'
  BY <1>1, <1>2, <1>3, Types DEF LoopInv, TypeParts, CloseAll, ProxyStates
<1>5. EventsInv'
  BY <1>1 DEF CloseAll, EventsInv
<1>6. StatesInv'
  BY DEF LoopInv, DropConnection, CloseAll, StatesInv
<1> QED BY <1>4, <1>5, <1>6 DEF LoopInv

\* Select keeps the invariant.
LEMMA SelectKeeps == ASSUME LoopInv, Select PROVE LoopInv'
<1>1. TypeOK'
  BY Types DEF LoopInv, TypeParts, Select, connection, toNet, toDev, NetType, DevType
<1>2. EventsInv'
  <2>1. Wants("SOCKETCONNECT") => asked < MaxClients
    BY DEF Wants
  <2> QED BY <2>1 DEF LoopInv, EventsInv, Select
<1>3. StatesInv'
  BY DEF LoopInv, StatesInv, Select, connection
<1> QED BY <1>1, <1>2, <1>3 DEF LoopInv

\* SercdService_exit keeps the invariant.
LEMMA ExitKeeps == ASSUME LoopInv, SercdService_exit PROVE LoopInv'
<1>1. TypeOK'
  BY Types DEF LoopInv, TypeParts, SercdService_exit, toNet, toDev, NetType, DevType
<1> QED BY <1>1 DEF LoopInv, EventsInv, StatesInv, SercdService_exit

\* A handler that leaves the connection and asked alone and does not take OPEN
\* or SOCKETCONNECT from the events keeps what the invariant says of them.
LEMMA SameConnection ==
    ASSUME LoopInv, UNCHANGED <<connection, exiting, asked>>,
           NEW e \in Events \ {"SOCKETCONNECT"}, Done(e)
    PROVE  EventsInv' /\ StatesInv'
BY DEF LoopInv, EventsInv, StatesInv, connection, Done, Events

\* The phase DEVICEOUT keeps the invariant.
LEMMA DeviceOutKeeps == ASSUME LoopInv, DeviceOut PROVE LoopInv'
<1>1. CASE Fails("device") /\ DropConnection
  BY <1>1, FailsType, DropKeeps DEF LoopInv, DeviceOut
<1>2. ASSUME Works("device") \/ Blocks("device"), Done("DEVICEOUT"),
             NEW i \in Int, PopDev(i), devRewound' \in BOOLEAN,
             UNCHANGED <<process, connection, toNet, InputFlow, exiting, asked>>
      PROVE  LoopInv'
  <2>1. NetType' /\ DevType'
    BY <1>2, PopDevType, Types DEF LoopInv, TypeParts, toNet, NetType
  <2>2. TypeOK'
    BY <1>2, <2>1, FailsType, Types DEF LoopInv, TypeParts, connection, Done
  <2>3. EventsInv' /\ StatesInv'
    BY <1>2, SameConnection DEF Events, Phases
  <2> QED BY <2>2, <2>3 DEF LoopInv
<1>3. devRewound \in BOOLEAN
  BY Types DEF LoopInv, TypeParts, DevType
<1>4. CASE Works("device") /\ UNCHANGED devRewound
             /\ \E i \in 1 .. GetBufferString(ToDevBuf) : PopDev(i)
             /\ Done("DEVICEOUT")
             /\ UNCHANGED <<process, connection, toNet, InputFlow, exiting, asked>>
  BY <1>2, <1>3, <1>4
<1>5. CASE Blocks("device") /\ PopDev(-1) /\ devRewound' = TRUE /\ Done("DEVICEOUT")
             /\ UNCHANGED <<process, connection, toNet, InputFlow, exiting, asked>>
  BY <1>2, <1>5
<1> QED BY <1>1, <1>4, <1>5 DEF DeviceOut

\* The phase SOCKETOUT keeps the invariant.
LEMMA SocketOutKeeps == ASSUME LoopInv, SocketOut PROVE LoopInv'
<1>1. CASE Fails("socket") /\ DropConnection
  BY <1>1, FailsType, DropKeeps DEF LoopInv, SocketOut
<1>2. ASSUME Works("socket") \/ Blocks("socket"), Done("SOCKETOUT"),
             NEW i \in Int, PopNet(i), netRewound' \in BOOLEAN,
             UNCHANGED <<process, connection, toDev, InputFlow, exiting, asked>>
      PROVE  LoopInv'
  <2>1. NetType' /\ DevType'
    BY <1>2, PopNetType, Types DEF LoopInv, TypeParts, toDev, DevType
  <2>2. TypeOK'
    BY <1>2, <2>1, FailsType, Types DEF LoopInv, TypeParts, connection, Done
  <2>3. EventsInv' /\ StatesInv'
    BY <1>2, SameConnection DEF Events, Phases
  <2> QED BY <2>2, <2>3 DEF LoopInv
<1>3. netRewound \in BOOLEAN
  BY Types DEF LoopInv, TypeParts, NetType
<1>4. CASE Works("socket") /\ UNCHANGED netRewound
             /\ \E i \in 1 .. GetBufferString(ToNetBuf) : PopNet(i)
             /\ Done("SOCKETOUT")
             /\ UNCHANGED <<process, connection, toDev, InputFlow, exiting, asked>>
  BY <1>2, <1>3, <1>4
<1>5. CASE Blocks("socket") /\ PopNet(-1) /\ netRewound' = TRUE /\ Done("SOCKETOUT")
             /\ UNCHANGED <<process, connection, toDev, InputFlow, exiting, asked>>
  BY <1>2, <1>5
<1> QED BY <1>1, <1>4, <1>5 DEF SocketOut

\* What fits into the room that is left does not end the process.
LEMMA PutNetFits ==
    ASSUME NetType, NEW count \in Nat, count <= BufferRoomLeft(ToNetBuf), PutNet(count)
    PROVE  process' = process
<1>1. BufferRoomLeft(ToNetBuf) \in Nat
  BY LengthRange DEF NetType, BufferType
<1> QED BY <1>1 DEF PutNet, BufferHasRoomFor

\* The byte counts of sercd.c are numbers.
LEMMA Sizes ==
    /\ EscWriteChar_bytes \in Nat \ {0} /\ HandleIACCommand_bytes \in Nat \ {0}
    /\ SendCPCByteCommand_bytes \in Nat \ {0} /\ InitialOptions_bytes \in Nat
    /\ ReadBufSize \in Nat /\ MaxClients \in Nat /\ MaxFaults \in Nat
BY LoopAssumption, BufferAssumption

\* How a read leaves the process: as it was, or overrun where -1 is read as unsigned.
ReadEnds == process' = process \/ (process' = "overrun" /\ 32 \in SsizeBits)

\* The phase DEVICEIN keeps the invariant and does not abort: it reads no more than fits.
LEMMA DeviceInKeeps ==
    ASSUME LoopInv, DeviceIn PROVE LoopInv' /\ ReadEnds
<1> DEFINE room == BufferRoomLeft(ToNetBuf)
           trybytes == AtMost(ReadBufSize, room \div EscWriteChar_bytes)
<1>1. CASE UNCHANGED asked /\ DropConnection /\ faults' \in 0..MaxFaults
  BY <1>1, DropKeeps DEF DropConnection, CloseAll, ReadEnds
<1>2. ASSUME Works("device"), Done("DEVICEIN"), NEW i \in 0..trybytes,
             NEW count \in i .. i * EscWriteChar_bytes, PutNet(count),
             UNCHANGED <<connection, toDev, InputFlow, exiting, asked>>
      PROVE  LoopInv' /\ process' = process
  <2>1. room \in Nat
    BY LengthRange, Types DEF LoopInv, TypeParts, NetType, BufferType
  <2>2. i \in 0 .. (room \div EscWriteChar_bytes)
    BY <2>1, Sizes DEF AtMost
  <2>3. i * EscWriteChar_bytes <= room
    BY <2>1, <2>2, Sizes, DivTimes
  <2>4. i * EscWriteChar_bytes \in Nat
    BY <2>2, Sizes
  <2>5. count \in Nat /\ count <= room
    BY <2>1, <2>2, <2>3, <2>4
  <2>6. process' = process
    BY <1>2, <2>5, PutNetFits, Types DEF LoopInv, TypeParts
  <2>7. NetType' /\ DevType'
    BY <1>2, <2>5, PutNetType, Types DEF LoopInv, TypeParts, toDev, DevType
  <2>8. TypeOK'
    BY <1>2, <2>6, <2>7, FailsType, Types DEF LoopInv, TypeParts, connection, Done
  <2>9. EventsInv' /\ StatesInv'
    BY <1>2, SameConnection DEF Events, Phases
  <2> QED BY <2>6, <2>8, <2>9 DEF LoopInv
<1>3. Fails("device") \/ Works("device") => faults' \in 0..MaxFaults
  BY FailsType DEF LoopInv
<1>4. CASE Works("device") /\ Done("DEVICEIN") /\ ReadBlocks
             /\ UNCHANGED <<connection, toNet, toDev, InputFlow, exiting, asked>>
  <2>1. ReadEnds
    BY <1>4 DEF ReadBlocks, ReadEnds
  <2>2. NetType' /\ DevType'
    BY <1>4, Types DEF LoopInv, TypeParts, toNet, toDev, NetType, DevType
  <2>3. TypeOK'
    BY <1>3, <1>4, <2>1, <2>2, Types DEF LoopInv, TypeParts, connection, Done, ReadEnds
  <2>4. EventsInv' /\ StatesInv'
    BY <1>4, SameConnection DEF Events, Phases
  <2> QED BY <2>1, <2>3, <2>4 DEF LoopInv
<1> QED BY <1>1, <1>2, <1>3, <1>4 DEF DeviceIn, ReadEnds

\* The phase SOCKETIN keeps the invariant and does not abort: it reads no more than
\* fits, whatever the replies are.
LEMMA SocketInKeeps ==
    ASSUME LoopInv, SocketIn PROVE LoopInv' /\ ReadEnds
<1> DEFINE room == BufferRoomLeft(ToNetBuf)
           trybytes == AtMost(AtMost(ReadBufSize, room \div HandleIACCommand_bytes),
                              BufferRoomLeft(ToDevBuf))
<1>1. CASE UNCHANGED asked /\ DropConnection /\ faults' \in 0..MaxFaults
  BY <1>1, DropKeeps DEF DropConnection, CloseAll, ReadEnds
<1>2. ASSUME Works("socket"), Done("SOCKETIN"), NEW i \in 0..trybytes,
             NEW dev \in 0..i, NEW flow \in 0 .. AtMost(1, i - dev), PutDev(dev),
             NEW count \in 0 .. (i - dev - flow) * HandleIACCommand_bytes,
             PutNet(count), InputFlow' \in BOOLEAN,
             UNCHANGED <<connection, exiting, asked>>
      PROVE  LoopInv' /\ process' = process
  <2>1. room \in Nat /\ BufferRoomLeft(ToDevBuf) \in Nat
    BY LengthRange, Types DEF LoopInv, TypeParts, NetType, DevType, BufferType
  <2>2. i \in 0 .. (room \div HandleIACCommand_bytes)
    BY <2>1, Sizes DEF AtMost
  <2>3. dev \in Nat /\ i - dev - flow \in 0 .. (room \div HandleIACCommand_bytes)
    <3>1. i \in Nat /\ dev \in Nat /\ dev <= i
      BY <2>2
    <3>2. flow \in Nat /\ flow <= i - dev
      BY <3>1 DEF AtMost
    <3>3. i - dev - flow \in 0..i
      BY <3>1, <3>2
    <3>4. (room \div HandleIACCommand_bytes) \in Int
      BY <2>1, Sizes
    <3> QED BY <2>2, <3>1, <3>3, <3>4
  <2>4. (i - dev - flow) * HandleIACCommand_bytes <= room
    BY <2>1, <2>3, Sizes, DivTimes
  <2>5. (i - dev - flow) * HandleIACCommand_bytes \in Nat
    BY <2>3, Sizes
  <2>6. count \in Nat /\ count <= room
    BY <2>1, <2>4, <2>5
  <2>7. process' = process
    BY <1>2, <2>6, PutNetFits, Types DEF LoopInv, TypeParts
  <2>8. NetType' /\ DevType'
    BY <1>2, <2>3, <2>6, PutNetType, PutDevType, Types DEF LoopInv, TypeParts
  <2>9. TypeOK'
    BY <1>2, <2>7, <2>8, FailsType, Types DEF LoopInv, TypeParts, connection, Done
  <2>10. EventsInv' /\ StatesInv'
    BY <1>2, SameConnection DEF Events, Phases
  <2> QED BY <2>7, <2>9, <2>10 DEF LoopInv
<1>3. Fails("socket") \/ Works("socket") => faults' \in 0..MaxFaults
  BY FailsType DEF LoopInv
<1>4. ASSUME NEW i \in 1..trybytes, Redirect(i)
      PROVE  /\ InputFlow' \in BOOLEAN
             /\ \E dev \in 0..i : \E flow \in 0 .. AtMost(1, i - dev) :
                   /\ PutDev(dev)
                   /\ \E count \in 0 .. (i - dev - flow) * HandleIACCommand_bytes :
                         PutNet(count)
  BY <1>4, Types DEF Redirect, LoopInv, TypeParts
<1>5. CASE Works("socket") /\ Done("SOCKETIN") /\ ReadBlocks
             /\ UNCHANGED <<connection, toNet, toDev, InputFlow, exiting, asked>>
  <2>1. ReadEnds
    BY <1>5 DEF ReadBlocks, ReadEnds
  <2>2. NetType' /\ DevType'
    BY <1>5, Types DEF LoopInv, TypeParts, toNet, toDev, NetType, DevType
  <2>3. TypeOK'
    BY <1>3, <1>5, <2>1, <2>2, Types DEF LoopInv, TypeParts, connection, Done, ReadEnds
  <2>4. EventsInv' /\ StatesInv'
    BY <1>5, SameConnection DEF Events, Phases
  <2> QED BY <2>1, <2>3, <2>4 DEF LoopInv
<1> QED BY <1>1, <1>2, <1>3, <1>4, <1>5 DEF SocketIn, ReadEnds

\* The phase MODEMSTATE keeps the invariant.
LEMMA ModemstateKeeps == ASSUME LoopInv, Modemstate PROVE LoopInv'
<1>1. PICK count \in Nat : PutNet(count)
  BY Sizes DEF Modemstate
<1>2. NetType' /\ process' \in {process, "aborted"}
  BY <1>1, PutNetType, Types DEF LoopInv, TypeParts
<1>3. DevType'
  BY Types DEF LoopInv, TypeParts, Modemstate, toDev, DevType
<1>4. TypeOK'
  BY <1>2, <1>3, Types DEF LoopInv, TypeParts, Modemstate, connection, Done
<1>5. EventsInv' /\ StatesInv'
  BY SameConnection DEF Modemstate, Events, Phases
<1> QED BY <1>4, <1>5 DEF LoopInv

\* The handlers run in their order.
LEMMA OpenIsLater ==
    /\ Turn("SOCKETCONNECT") => "SOCKETCONNECT" \in ev
    /\ Turn("OPEN") => "SOCKETCONNECT" \notin ev
BY DEF Turn, Phases

\* Accepting a client keeps the type of ToNetBuf.
LEMMA AcceptTypes ==
    ASSUME TypeOK, Accept PROVE NetType'
<1>1. InitBuffer(ToNetBuf) \in BufferType(Numbers)
  BY InitBufferType, Types DEF TypeParts, NetType
<1>2. 0 \in Numbers /\ InitialOptions_bytes \in Numbers
  BY LoopAssumption, BufferAssumption
<1>3. AddToBuffer(InitBuffer(ToNetBuf), Bytes(0, InitialOptions_bytes))
        \in BufferType(Numbers)
  BY <1>1, <1>2, BytesType, AddType
<1> QED BY <1>2, <1>3 DEF Accept, NetType

\* The phase SOCKETCONNECT keeps the invariant.
LEMMA SocketConnectKeeps == ASSUME LoopInv, SocketConnect PROVE LoopInv'
<1>1. asked \in 0..MaxClients /\ asked < MaxClients /\ "OPEN" \in ev
  BY OpenIsLater, Types DEF LoopInv, TypeParts, EventsInv, SocketConnect
<1>2. faults' \in 0..MaxFaults
  BY FailsType DEF LoopInv, SocketConnect
<1>3. asked' \in 0..MaxClients /\ asked + 1 \in 1..MaxClients
  BY <1>1, Sizes DEF SocketConnect
<1>4. EventsInv'
  BY DEF SocketConnect, Done, EventsInv
<1>5. CASE UNCHANGED <<connection, toNet>>
  <2>1. NetType' /\ DevType'
    BY <1>5, Types DEF LoopInv, TypeParts, SocketConnect, toNet, toDev, NetType, DevType
  <2>2. TypeOK'
    BY <1>2, <1>3, <1>5, <2>1, Types DEF LoopInv, TypeParts, SocketConnect, connection,
       Done
  <2>3. StatesInv'
    BY <1>5 DEF LoopInv, StatesInv, SocketConnect, connection, Done
  <2> QED BY <1>4, <2>2, <2>3 DEF LoopInv
<1>6. CASE Works("listener") /\ client = 0 /\ Accept
  <2>1. NetType' /\ DevType'
    BY <1>6, AcceptTypes, Types DEF LoopInv, TypeParts, SocketConnect, toDev, DevType
  <2>2. TypeOK'
    BY <1>2, <1>3, <1>6, <2>1, Types DEF LoopInv, TypeParts, SocketConnect, Accept,
       Done, ProxyStates
  <2>3. StatesInv'
    BY <1>1, <1>3, <1>6 DEF LoopInv, StatesInv, SocketConnect, Accept, Done
  <2> QED BY <1>4, <2>2, <2>3 DEF LoopInv
<1> QED BY <1>5, <1>6 DEF SocketConnect

\* The phase OPEN keeps the invariant.
LEMMA OpenKeeps == ASSUME LoopInv, Open PROVE LoopInv'
<1>1. "SOCKETCONNECT" \notin ev
  BY OpenIsLater DEF Open
<1>2. CASE client # 0 /\ ~DeviceFd /\ CloseAll({"socket"}) /\ faults < MaxFaults
             /\ faults' = faults + 1
  <2>1. faults' \in 0..MaxFaults
    BY <1>2, Sizes, Types DEF LoopInv, TypeParts
  <2> QED BY <1>2, <2>1, DropKeeps DEF Open
<1>3. CASE client # 0 /\ ~DeviceFd /\ OpenPort /\ Done("OPEN")
             /\ UNCHANGED <<process, toNet, InputFlow, exiting, faults, asked>>
  <2>1. InitBuffer(ToDevBuf) \in BufferType(Numbers) /\ 0 \in Numbers
    BY InitBufferType, BufferAssumption, Types DEF LoopInv, TypeParts, DevType
  <2>2. NetType' /\ DevType'
    BY <1>3, <2>1, Types DEF LoopInv, TypeParts, OpenPort, toNet, NetType, DevType
  <2>3. TypeOK'
    BY <1>3, <2>2, Types DEF LoopInv, TypeParts, OpenPort, Done, ProxyStates
  <2>4. EventsInv' /\ StatesInv'
    BY <1>1, <1>3 DEF LoopInv, EventsInv, StatesInv, OpenPort, Done
  <2> QED BY <2>3, <2>4 DEF LoopInv
<1>4. CASE ~(client # 0 /\ ~DeviceFd) /\ Done("OPEN")
             /\ UNCHANGED <<process, connection, toNet, toDev, InputFlow, exiting,
                           faults, asked>>
  <2>1. TypeOK'
    BY <1>4, Types DEF LoopInv, TypeParts, connection, toNet, toDev, NetType, DevType,
       Done
  <2>2. EventsInv' /\ StatesInv'
    BY <1>1, <1>4 DEF LoopInv, EventsInv, StatesInv, connection, Done
  <2> QED BY <2>1, <2>2 DEF LoopInv
<1> QED BY <1>2, <1>3, <1>4 DEF Open

\* The invariant holds at the start.
LEMMA InitHolds == Init => LoopInv
<1> SUFFICES ASSUME Init PROVE LoopInv
  OBVIOUS
<1>1. EmptyBuffer \in BufferType(Numbers) /\ 0 \in Numbers
  <2>1. 0 \in Positions
    BY BufferAssumption
  <2> QED BY <2>1 DEF EmptyBuffer, BufferType
<1>2. TypeOK
  <2>1. NetType /\ DevType
    BY <1>1 DEF Init, NetType, DevType
  <2>2. client \in 0..MaxClients /\ asked \in 0..MaxClients /\ faults \in 0..MaxFaults
    BY Sizes DEF Init
  <2>3. TypeParts
    BY <2>1, <2>2 DEF Init, TypeParts, ProxyStates
  <2> QED BY <2>3, Types
<1> QED BY <1>2 DEF Init, LoopInv, EventsInv, StatesInv

\* Every step of the main loop keeps the invariant.
LEMMA StepKeeps == LoopInv /\ [Next]_vars => LoopInv'
<1> SUFFICES ASSUME LoopInv, [Next]_vars PROVE LoopInv'
  OBVIOUS
<1>1. CASE UNCHANGED vars
  <2>1. TypeOK'
    BY <1>1, Types DEF LoopInv, TypeParts, vars, connection, toNet, toDev, NetType,
       DevType
  <2> QED BY <1>1, <2>1 DEF LoopInv, EventsInv, StatesInv, vars, connection
<1> QED BY <1>1, SelectKeeps, ExitKeeps, DeviceInKeeps, DeviceOutKeeps, SocketOutKeeps,
           SocketInKeeps, SocketConnectKeeps, OpenKeeps, ModemstateKeeps
           DEF Next, Handler

-----------------------------------------------------------------------------
(* Theorems                                                                *)

\* The inductive invariant holds throughout: types, the events that select may
\* return, the descriptors of the state.
THEOREM LoopInvariant == Spec => []LoopInv
BY InitHolds, StepKeeps, PTL DEF Spec

\* Every variable of the loop keeps its type, the positions of both rings stay
\* inside them, for all sizes (SercdService_start).
THEOREM LoopTypeCorrect == Spec => []TypeOK
BY LoopInvariant, PTL DEF LoopInv

\* The three states of the comment at sercd.c:1416, with their descriptors and
\* what Java was told, are the only ones between two passes.
THEOREM LoopThreeStates == Spec => []ThreeStates
<1>1. LoopInv => ThreeStates
  BY DEF LoopInv, StatesInv, ThreeStates
<1> QED BY <1>1, LoopInvariant, PTL

\* The assertion of AddToBuffer (sercd.c:349) fails in no handler but that of
\* the modem state, whatever the sizes of the buffers, reads and replies; and a
\* read overruns readbuf (:1501, :1567) only where ssize_t has 32 bits.
THEOREM LoopOnlyModemAsserts == Spec => OnlyModemAsserts
<1>1. LoopInv /\ [Next]_vars =>
        [/\ process' = "aborted" => Modemstate
         /\ process' = "overrun" => 32 \in SsizeBits /\ (DeviceIn \/ SocketIn)]_vars
  <2> SUFFICES ASSUME LoopInv, Next, process' \in {"aborted", "overrun"}
               PROVE  \/ Modemstate /\ process' = "aborted"
                      \/ process' = "overrun" /\ 32 \in SsizeBits
                           /\ (DeviceIn \/ SocketIn)
    OBVIOUS
  <2>1. process = "runs"
    BY DEF Next, Handler, Select, SercdService_exit, DeviceIn, DeviceOut, SocketOut,
       SocketIn, SocketConnect, Open, Modemstate, Turn
  <2>2. ~SocketOut /\ ~DeviceOut /\ ~SocketConnect /\ ~Open /\ ~Select
          /\ ~SercdService_exit
    BY <2>1 DEF SocketOut, DeviceOut, SocketConnect, Open, Select, SercdService_exit,
       DropConnection, CloseAll
  <2>3. Modemstate => process' \in {process, "aborted"}
    BY DEF Modemstate, PutNet
  <2> QED BY <2>1, <2>2, <2>3, DeviceInKeeps, SocketInKeeps DEF Next, Handler, ReadEnds
<1> QED BY <1>1, LoopInvariant, PTL DEF Spec, OnlyModemAsserts

-----------------------------------------------------------------------------
(* Where the ring buffer wraps around                                      *)

Wrap(n) == IF n < BufferSize THEN n ELSE n - BufferSize

\* A position is at most once around the ring.
LEMMA ModIsWrap ==
  ASSUME NEW n \in 0 .. 2 * BufferSize - 1
  PROVE  n % BufferSize = Wrap(n)
<1>1. CASE n < BufferSize
  BY <1>1, BufferAssumption DEF Wrap
<1>2. CASE n >= BufferSize
  <2>1. n - BufferSize \in 0 .. BufferSize - 1 /\ n = 1 * BufferSize + (n - BufferSize)
    BY <1>2, BufferAssumption
  <2>2. n % BufferSize = n - BufferSize
    BY <2>1, BufferAssumption
  <2> QED
    BY <1>2, <2>2, BufferAssumption DEF Wrap
<1> QED
  BY <1>1, <1>2, BufferAssumption

\* Once around the ring at most, it is a position.
LEMMA WrapIsPosition ==
  ASSUME NEW n \in 0 .. 2 * BufferSize - 1
  PROVE  Wrap(n) \in Positions
BY BufferAssumption DEF Wrap, Positions

\* The length of a buffer, by its two positions.
LEMMA LengthIs ==
  ASSUME NEW B, B.RdPos \in Positions, B.WrPos \in Positions
  PROVE  BufferLength(B) = IF B.RdPos <= B.WrPos THEN B.WrPos - B.RdPos
                                                 ELSE B.WrPos - B.RdPos + BufferSize
<1>1. B.WrPos - B.RdPos + BufferSize \in 0 .. 2 * BufferSize - 1
  BY BufferAssumption
<1>2. (B.WrPos - B.RdPos + BufferSize) % BufferSize = Wrap(B.WrPos - B.RdPos + BufferSize)
  BY ONLY <1>1, ModIsWrap
<1> QED
  BY <1>2, BufferAssumption DEF BufferLength, Wrap

\* The number of a byte at most one buffer later.
LEMMA FollowingIs ==
  ASSUME NEW n \in Numbers, NEW k \in Numbers
  PROVE  Following(n, k) = Wrap(n + k)
<1>1. n + k \in 0 .. 2 * BufferSize - 1
  BY BufferAssumption
<1> QED
  BY <1>1, ModIsWrap DEF Following

\* What is popped was in front: the rest moves up.
LEMMA PopContents ==
  ASSUME NEW Cell, NEW B \in BufferType(Cell), NEW n \in 0 .. GetBufferString(B)
  PROVE  /\ n <= BufferLength(B)
         /\ BufferLength(BufferPopBytes(B, n)) = BufferLength(B) - n
         /\ \A i \in 1 .. BufferLength(B) - n :
                Contents(BufferPopBytes(B, n))[i] = Contents(B)[i + n]
<1> DEFINE C == BufferPopBytes(B, n)
<1>1. B.RdPos \in Positions /\ B.WrPos \in Positions /\ n \in Nat
      /\ n <= BufferLength(B) /\ n <= BufferSize - B.RdPos
  BY LengthIs, StringRange, BufferAssumption DEF BufferType, GetBufferString
<1>2. BufferLength(B) \in 0 .. BufferSize - 1
  BY <1>1, LengthRange, BufferAssumption
<1>3. B.RdPos + n \in 0 .. 2 * BufferSize - 1
  BY <1>1, BufferAssumption
<1>4. C.RdPos = Wrap(B.RdPos + n) /\ C.WrPos = B.WrPos /\ C.Buffer = B.Buffer
      /\ C.RdPos \in Positions
  BY <1>1, <1>3, ModIsWrap, BufferAssumption DEF BufferPopBytes, BufferType, Wrap
<1>5. BufferLength(C) = BufferLength(B) - n
  BY <1>1, <1>4, LengthIs, BufferAssumption DEF Wrap
<1>6. ASSUME NEW i \in 1 .. BufferLength(B) - n
      PROVE  Contents(C)[i] = Contents(B)[i + n]
  <2>1. i \in 1 .. BufferLength(C) /\ i + n \in 1 .. BufferLength(B)
    BY <1>1, <1>2, <1>5
  <2>2. /\ C.RdPos + i - 1 \in 0 .. 2 * BufferSize - 1
        /\ B.RdPos + (i + n) - 1 \in 0 .. 2 * BufferSize - 1
    BY <1>1, <1>2, <1>4, <2>1, BufferAssumption
  <2>3. Wrap(C.RdPos + i - 1) = Wrap(B.RdPos + (i + n) - 1)
    BY <1>1, <1>2, <1>4, <2>1, LengthIs, BufferAssumption DEF Wrap
  <2>4. (C.RdPos + i - 1) % BufferSize = (B.RdPos + (i + n) - 1) % BufferSize
    BY ONLY <2>2, <2>3, ModIsWrap
  <2> QED
    BY <1>4, <2>1, <2>4 DEF Contents
<1> QED
  BY <1>1, <1>5, <1>6

\* What is added comes after what was there, which stays.
LEMMA AddContents ==
  ASSUME NEW Cell, NEW B \in BufferType(Cell), NEW Cs \in Seq(Cell),
         Len(Cs) <= BufferRoomLeft(B)
  PROVE  /\ BufferLength(AddToBuffer(B, Cs)) = BufferLength(B) + Len(Cs)
         /\ \A i \in 1 .. BufferLength(B) + Len(Cs) :
                Contents(AddToBuffer(B, Cs))[i] =
                    IF i <= BufferLength(B) THEN Contents(B)[i]
                                            ELSE Cs[i - BufferLength(B)]
<1> DEFINE C == AddToBuffer(B, Cs)
           len == BufferLength(B)
<1>1. /\ B.RdPos \in Positions /\ B.WrPos \in Positions /\ Len(Cs) \in Nat
      /\ len \in 0 .. BufferSize - 1 /\ len + Len(Cs) <= BufferSize - 1
  BY LengthRange, BufferAssumption DEF BufferType, BufferRoomLeft
<1>2. B.WrPos + Len(Cs) \in 0 .. 2 * BufferSize - 1
  BY <1>1, BufferAssumption
<1>3. C.RdPos = B.RdPos /\ C.WrPos = Wrap(B.WrPos + Len(Cs))
  BY <1>2, ModIsWrap DEF AddToBuffer
<1>4. C.RdPos \in Positions /\ C.WrPos \in Positions
  BY <1>1, <1>3, BufferAssumption DEF Wrap
<1>r. len = IF B.RdPos <= B.WrPos THEN B.WrPos - B.RdPos
                                 ELSE B.WrPos - B.RdPos + BufferSize
  BY <1>1, LengthIs
<1>s. /\ (IF B.RdPos <= Wrap(B.WrPos + Len(Cs)) THEN Wrap(B.WrPos + Len(Cs)) - B.RdPos
                   ELSE Wrap(B.WrPos + Len(Cs)) - B.RdPos + BufferSize) = len + Len(Cs)
      /\ \A i \in 1 .. len + Len(Cs) :
             Wrap(Wrap(B.RdPos + i - 1) - B.WrPos + BufferSize) =
                 IF i <= len THEN i - 1 - len + BufferSize ELSE i - 1 - len
  <2> PICK r \in Positions, w \in Positions, k \in Nat, n \in Int :
           r = B.RdPos /\ w = B.WrPos /\ k = Len(Cs) /\ n = len
    BY <1>1, BufferAssumption
  <2>1. n = (IF r <= w THEN w - r ELSE w - r + BufferSize) /\ n + k <= BufferSize - 1
    BY <1>1, <1>r
  <2>2. /\ (IF r <= Wrap(w + k) THEN Wrap(w + k) - r
                                ELSE Wrap(w + k) - r + BufferSize) = n + k
        /\ \A i \in 1 .. n + k :
               Wrap(Wrap(r + i - 1) - w + BufferSize) =
                   IF i <= n THEN i - 1 - n + BufferSize ELSE i - 1 - n
    BY ONLY <2>1, r \in Positions, w \in Positions, k \in Nat, n \in Int,
            BufferAssumption DEF Wrap, Positions
  <2> QED
    BY <2>2
<1>5. BufferLength(C) = len + Len(Cs)
  <2>1. BufferLength(C) = IF C.RdPos <= C.WrPos THEN C.WrPos - C.RdPos
                                                ELSE C.WrPos - C.RdPos + BufferSize
    BY <1>4, LengthIs
  <2> QED
    BY ONLY <1>3, <1>s, <2>1
<1>6. ASSUME NEW i \in 1 .. len + Len(Cs)
      PROVE  Contents(C)[i] = IF i <= len THEN Contents(B)[i] ELSE Cs[i - len]
  <2>1. B.RdPos + i - 1 \in 0 .. 2 * BufferSize - 1
    BY ONLY <1>1, i \in 1 .. len + Len(Cs), BufferAssumption DEF Positions
  <2> PICK p \in Positions : p = Wrap(B.RdPos + i - 1)
    BY ONLY <2>1, WrapIsPosition
  <2>2. p = (B.RdPos + i - 1) % BufferSize
    BY ONLY <2>1, p = Wrap(B.RdPos + i - 1), ModIsWrap
  <2>3. p - B.WrPos + BufferSize \in 0 .. 2 * BufferSize - 1
    BY ONLY <1>1, p \in Positions, BufferAssumption DEF Positions
  <2> PICK off \in Positions : off = Wrap(p - B.WrPos + BufferSize)
    BY ONLY <2>3, WrapIsPosition
  <2>4. off = (p - B.WrPos + BufferSize) % BufferSize
    BY ONLY <2>3, off = Wrap(p - B.WrPos + BufferSize), ModIsWrap
  <2>5. C.Buffer[p] = IF off < Len(Cs) THEN Cs[off + 1] ELSE B.Buffer[p]
    BY <2>4 DEF AddToBuffer
  <2>6. Contents(C)[i] = C.Buffer[p]
    BY <1>3, <1>5, <2>2 DEF Contents
  <2>7. off = IF i <= len THEN i - 1 - len + BufferSize ELSE i - 1 - len
    BY <1>s
  <2>8. CASE i <= len
    <3>1. off >= Len(Cs)
      BY ONLY <1>1, <2>7, <2>8, i \in 1 .. len + Len(Cs), BufferAssumption
    <3>2. Contents(B)[i] = B.Buffer[p]
      BY <2>2, <2>8 DEF Contents
    <3> QED
      BY <1>1, <2>5, <2>6, <2>8, <3>1, <3>2
  <2>9. CASE i > len
    <3>1. off = i - len - 1 /\ off < Len(Cs) /\ off + 1 = i - len
      BY ONLY <1>1, <2>7, <2>9, i \in 1 .. len + Len(Cs), BufferAssumption
    <3> QED
      BY <1>1, <2>5, <2>6, <2>9, <3>1
  <2> QED
    BY <1>1, <2>8, <2>9
<1> QED
  BY <1>5, <1>6

-----------------------------------------------------------------------------
(* The numbered bytes of a stream                                          *)

\* Numbers add up around the ring.
LEMMA FollowingAdds ==
  ASSUME NEW n \in Numbers, NEW a \in Nat, NEW b \in Nat, a + b <= BufferSize - 1
  PROVE  Following(Following(n, a), b) = Following(n, a + b)
<1>1. Following(n, a) = Wrap(n + a) /\ Following(n, a) \in Numbers
  BY FollowingIs, FollowingType, BufferAssumption
<1>2. Following(n, a + b) = Wrap(n + (a + b))
  BY FollowingIs, BufferAssumption
<1>3. Following(Following(n, a), b) = Wrap(Following(n, a) + b)
  BY <1>1, FollowingIs, BufferAssumption
<1> QED
  BY <1>1, <1>2, <1>3, BufferAssumption DEF Wrap

\* A stream stays numbered when bytes are written from its buffer.
LEMMA PopNumbered ==
  ASSUME NEW B \in BufferType(Numbers), NEW out \in Numbers, NEW in \in Numbers,
         Numbered(B, out, in), NEW n \in 0 .. GetBufferString(B)
  PROVE  Numbered(BufferPopBytes(B, n), Following(out, n), in)
<1>1. /\ n <= BufferLength(B)
      /\ BufferLength(BufferPopBytes(B, n)) = BufferLength(B) - n
      /\ \A i \in 1 .. BufferLength(B) - n :
             Contents(BufferPopBytes(B, n))[i] = Contents(B)[i + n]
  BY PopContents
<1>2. BufferLength(B) \in 0 .. BufferSize - 1 /\ n \in Nat
  <2>1. GetBufferString(B) \in Nat
    BY StringRange
  <2>2. BufferLength(B) \in Nat /\ BufferLength(B) < BufferSize
    <3>1. B.RdPos \in Positions /\ B.WrPos \in Positions
      BY DEF BufferType
    <3> QED
      BY ONLY <3>1, LengthRange
  <2> QED
    BY ONLY <2>1, <2>2, n \in 0 .. GetBufferString(B), BufferAssumption
<1>3. Following(Following(out, n), BufferLength(B) - n) = in
  BY <1>1, <1>2, FollowingAdds, BufferAssumption DEF Numbered
<1>4. ASSUME NEW i \in 1 .. BufferLength(B) - n
      PROVE  Contents(BufferPopBytes(B, n))[i] = Following(Following(out, n), i)
  <2>1. i \in Nat /\ n + i <= BufferSize - 1 /\ i + n \in 1 .. BufferLength(B)
        /\ n + i = i + n
    BY <1>2, BufferAssumption
  <2>2. Contents(B)[i + n] = Following(out, i + n)
    BY <2>1 DEF Numbered
  <2>3. Following(Following(out, n), i) = Following(out, n + i)
    BY <1>2, <2>1, FollowingAdds
  <2> QED
    BY <1>1, <2>1, <2>2, <2>3
<1> QED
  BY <1>1, <1>3, <1>4 DEF Numbered

\* A stream stays numbered when its next bytes are put into its buffer.
LEMMA AddNumbered ==
  ASSUME NEW B \in BufferType(Numbers), NEW out \in Numbers, NEW in \in Numbers,
         Numbered(B, out, in), NEW n \in Nat, n <= BufferRoomLeft(B)
  PROVE  Numbered(AddToBuffer(B, Bytes(in, n)), out, Following(in, n))
<1> DEFINE len == BufferLength(B)
<1>1. Bytes(in, n) \in Seq(Numbers) /\ Len(Bytes(in, n)) = n
  BY BytesType DEF Bytes
<1>2. /\ BufferLength(AddToBuffer(B, Bytes(in, n))) = len + n
      /\ \A i \in 1 .. len + n :
             Contents(AddToBuffer(B, Bytes(in, n)))[i] =
                 IF i <= len THEN Contents(B)[i] ELSE Bytes(in, n)[i - len]
  BY <1>1, AddContents
<1>3. len \in 0 .. BufferSize - 1 /\ len + n <= BufferSize - 1
  <2>1. B.RdPos \in Positions /\ B.WrPos \in Positions
    BY DEF BufferType
  <2>2. len \in Nat /\ len < BufferSize
    BY ONLY <2>1, LengthRange
  <2>3. n <= BufferSize - 1 - len
    BY DEF BufferRoomLeft
  <2> HIDE DEF len
  <2> QED
    BY ONLY <2>2, <2>3, n \in Nat, BufferAssumption
<1>4. Following(out, len) = in
  BY DEF Numbered
<1>5. Following(out, len + n) = Following(in, n)
  BY <1>3, <1>4, FollowingAdds
<1>6. ASSUME NEW i \in 1 .. len + n
      PROVE  Contents(AddToBuffer(B, Bytes(in, n)))[i] = Following(out, i)
  <2>1. CASE i <= len
    BY <1>2, <1>3, <2>1 DEF Numbered
  <2>2. CASE i > len
    <3>1. i - len \in 1..n /\ i - len \in Nat /\ len + (i - len) = i /\ i <= BufferSize - 1
      BY <1>3, <2>2, BufferAssumption
    <3>2. Bytes(in, n)[i - len] = Following(in, i - len)
      BY <3>1 DEF Bytes
    <3>3. Following(in, i - len) = Following(out, i)
      BY <1>3, <1>4, <3>1, FollowingAdds
    <3> QED
      BY <1>2, <1>3, <2>2, <3>2, <3>3
  <2> QED
    BY <1>3, <2>1, <2>2
<1> QED
  BY <1>2, <1>5, <1>6 DEF Numbered

\* An emptied buffer starts a stream.
LEMMA EmptyNumbered ==
  ASSUME NEW B \in BufferType(Numbers)
  PROVE  Numbered(InitBuffer(B), 0, 0) /\ BufferLength(InitBuffer(B)) = 0
<1>1. InitBuffer(B).RdPos = 0 /\ InitBuffer(B).WrPos = 0 /\ 0 \in Numbers
  BY BufferAssumption DEF InitBuffer, BufferType
<1>2. BufferLength(InitBuffer(B)) = 0
  BY <1>1, LengthIs
<1>3. Following(0, 0) = 0
  BY <1>1, FollowingIs, BufferAssumption DEF Wrap
<1> QED
  BY <1>2, <1>3 DEF Numbered

-----------------------------------------------------------------------------
(* The streams of the loop                                                 *)

\* What goes into ToNetBuf keeps its stream numbered, or ends the process.
LEMMA PutNetStream ==
  ASSUME NetType, Numbered(ToNetBuf, netOut, netIn), NEW n \in Nat, PutNet(n)
  PROVE  Numbered(ToNetBuf, netOut, netIn)'
<1>1. CASE BufferHasRoomFor(ToNetBuf, n)
  <2>1. Numbered(AddToBuffer(ToNetBuf, Bytes(netIn, n)), netOut, Following(netIn, n))
    <3>1. n <= BufferRoomLeft(ToNetBuf)
      BY <1>1, LengthRange DEF BufferHasRoomFor, NetType, BufferType
    <3> QED
      BY <3>1, AddNumbered DEF NetType
  <2> QED
    BY <1>1, <2>1 DEF PutNet
<1>2. CASE ~BufferHasRoomFor(ToNetBuf, n)
  BY <1>2 DEF PutNet
<1> QED
  BY <1>1, <1>2

\* What goes into ToDevBuf, where it fits, keeps its stream numbered.
LEMMA PutDevStream ==
  ASSUME DevType, Numbered(ToDevBuf, devOut, devIn), NEW n \in Nat, PutDev(n),
         n <= BufferRoomLeft(ToDevBuf)
  PROVE  Numbered(ToDevBuf, devOut, devIn)'
<1>1. Numbered(AddToBuffer(ToDevBuf, Bytes(devIn, n)), devOut, Following(devIn, n))
  BY AddNumbered DEF DevType
<1> QED
  BY <1>1 DEF PutDev

\* A partial write to the client keeps its stream numbered.
LEMMA PopNetStream ==
  ASSUME NetType, Numbered(ToNetBuf, netOut, netIn),
         NEW n \in 0 .. GetBufferString(ToNetBuf), PopNet(n)
  PROVE  Numbered(ToNetBuf, netOut, netIn)'
<1>1. Numbered(BufferPopBytes(ToNetBuf, n), Following(netOut, n), netIn)
  BY PopNumbered DEF NetType
<1> QED
  BY <1>1 DEF PopNet

\* A partial write to the device keeps its stream numbered.
LEMMA PopDevStream ==
  ASSUME DevType, Numbered(ToDevBuf, devOut, devIn),
         NEW n \in 0 .. GetBufferString(ToDevBuf), PopDev(n)
  PROVE  Numbered(ToDevBuf, devOut, devIn)'
<1>1. Numbered(BufferPopBytes(ToDevBuf, n), Following(devOut, n), devIn)
  BY PopNumbered DEF DevType
<1> QED
  BY <1>1 DEF PopDev

\* Without a client and a port there are no streams.
LEMMA ClosedStreams ==
  ASSUME NEW closed, CloseAll(closed) PROVE StreamsKept'
BY DEF CloseAll, StreamsKept

\* The handlers that only move bytes keep both streams.
LEMMA BytesKeepStreams ==
  ASSUME LoopInv, StreamsKept, DeviceIn \/ DeviceOut \/ SocketOut \/ SocketIn \/ Modemstate
  PROVE  StreamsKept'
<1>a. NetType /\ DevType
  BY Types DEF LoopInv, TypeParts
<1>1. CASE DropConnection
  BY <1>1, ClosedStreams DEF DropConnection
<1>2. ASSUME NEW n \in Nat, PutNet(n), UNCHANGED <<DeviceFd, client, toDev>>
      PROVE  StreamsKept'
  BY <1>a, <1>2, PutNetStream DEF StreamsKept, toDev, Numbered, PutNet
<1>b. CASE UNCHANGED <<DeviceFd, client, toNet, toDev>>
  BY <1>b DEF StreamsKept, toNet, toDev, Numbered
<1>3. CASE DeviceIn /\ ~DropConnection
  <2>1. (\E n \in Nat : PutNet(n)) \/ UNCHANGED toNet
    BY <1>3, Sizes DEF DeviceIn
  <2> QED
    BY <1>2, <1>b, <1>3, <2>1 DEF DeviceIn, connection
<1>4. CASE DeviceOut /\ ~DropConnection
  <2>1. DeviceFd' = DeviceFd /\ client' = client /\ UNCHANGED toNet
    BY <1>4 DEF DeviceOut, connection
  <2>2. client # 0 => netRewound' \/ Numbered(ToNetBuf, netOut, netIn)'
    BY <2>1 DEF StreamsKept, toNet, Numbered
  <2>3. DeviceFd /\ ~devRewound' => Numbered(ToDevBuf, devOut, devIn)'
    <3> SUFFICES ASSUME DeviceFd, ~devRewound' PROVE Numbered(ToDevBuf, devOut, devIn)'
      OBVIOUS
    <3>1. PICK n \in 0 .. GetBufferString(ToDevBuf) : PopDev(n) /\ UNCHANGED devRewound
      BY <1>4 DEF DeviceOut
    <3>2. Numbered(ToDevBuf, devOut, devIn)
      BY <3>1 DEF StreamsKept
    <3> QED
      BY <1>a, <3>1, <3>2, PopDevStream
  <2> QED
    BY <2>1, <2>2, <2>3 DEF StreamsKept
<1>5. CASE SocketOut /\ ~DropConnection
  <2>1. DeviceFd' = DeviceFd /\ client' = client /\ UNCHANGED toDev
    BY <1>5 DEF SocketOut, connection
  <2>2. DeviceFd => devRewound' \/ Numbered(ToDevBuf, devOut, devIn)'
    BY <2>1 DEF StreamsKept, toDev, Numbered
  <2>3. client # 0 /\ ~netRewound' => Numbered(ToNetBuf, netOut, netIn)'
    <3> SUFFICES ASSUME client # 0, ~netRewound' PROVE Numbered(ToNetBuf, netOut, netIn)'
      OBVIOUS
    <3>1. PICK n \in 0 .. GetBufferString(ToNetBuf) : PopNet(n) /\ UNCHANGED netRewound
      BY <1>5 DEF SocketOut
    <3>2. Numbered(ToNetBuf, netOut, netIn)
      BY <3>1 DEF StreamsKept
    <3> QED
      BY <1>a, <3>1, <3>2, PopNetStream
  <2> QED
    BY <2>1, <2>2, <2>3 DEF StreamsKept
<1>6. CASE SocketIn /\ ~DropConnection
  <2> DEFINE trybytes == AtMost(AtMost(ReadBufSize,
                                  BufferRoomLeft(ToNetBuf) \div HandleIACCommand_bytes),
                           BufferRoomLeft(ToDevBuf))
  <2>1. CASE UNCHANGED <<toNet, toDev>>
    BY <1>b, <1>6, <2>1 DEF SocketIn, connection
  <2>2. ASSUME NEW i \in 1..trybytes, Redirect(i) PROVE StreamsKept'
    <3>1. BufferRoomLeft(ToNetBuf) \in Nat /\ BufferRoomLeft(ToDevBuf) \in Nat
      BY <1>a, LengthRange DEF NetType, DevType, BufferType
    <3>2. i \in Nat /\ i <= BufferRoomLeft(ToDevBuf)
      BY <3>1, Sizes DEF AtMost
    <3>3. PICK dev \in 0..i : PutDev(dev) /\ \E n \in Nat : PutNet(n)
      BY <2>2, <3>2, Sizes DEF Redirect
    <3>4. dev \in Nat /\ dev <= BufferRoomLeft(ToDevBuf)
      BY <3>1, <3>2
    <3>5. client # 0 => netRewound' \/ Numbered(ToNetBuf, netOut, netIn)'
      BY <1>a, <3>3, PutNetStream DEF StreamsKept, PutNet
    <3>6. DeviceFd => devRewound' \/ Numbered(ToDevBuf, devOut, devIn)'
      BY <1>a, <3>3, <3>4, PutDevStream DEF StreamsKept, PutDev
    <3>7. client' = client /\ DeviceFd' = DeviceFd
      BY <1>6 DEF SocketIn, connection
    <3> QED
      BY <3>5, <3>6, <3>7 DEF StreamsKept
  <2> QED
    BY <1>6, <2>1, <2>2 DEF SocketIn
<1>7. CASE Modemstate
  <2>1. \E n \in Nat : PutNet(n)
    BY <1>7, Sizes DEF Modemstate
  <2> QED
    BY <1>2, <1>7, <2>1 DEF Modemstate, connection
<1> QED
  BY <1>1, <1>3, <1>4, <1>5, <1>6, <1>7

\* A new client and a newly opened port start a stream.
LEMMA StartsKeepStreams ==
  ASSUME LoopInv, StreamsKept, SocketConnect \/ Open
  PROVE  StreamsKept'
<1>a. NetType /\ DevType /\ (DeviceFd => client # 0)
  BY Types DEF LoopInv, TypeParts, StatesInv
<1>1. CASE SocketConnect
  <2>1. CASE UNCHANGED <<connection, toNet>>
    BY <1>1, <2>1 DEF SocketConnect, StreamsKept, connection, toNet, toDev, Numbered
  <2>2. CASE Accept /\ client = 0
    <3>1. /\ Numbered(InitBuffer(ToNetBuf), 0, 0)
          /\ BufferLength(InitBuffer(ToNetBuf)) = 0
          /\ InitBuffer(ToNetBuf) \in BufferType(Numbers)
      BY <1>a, EmptyNumbered, InitBufferType DEF NetType
    <3>2. /\ 0 \in Numbers /\ InitialOptions_bytes \in Numbers
          /\ InitialOptions_bytes <= BufferRoomLeft(InitBuffer(ToNetBuf))
      BY <3>1, LoopAssumption, BufferAssumption DEF BufferRoomLeft
    <3>3. Numbered(AddToBuffer(InitBuffer(ToNetBuf), Bytes(0, InitialOptions_bytes)),
                   0, Following(0, InitialOptions_bytes))
      <4>1. InitialOptions_bytes \in Nat
        BY Sizes
      <4> QED
        BY ONLY <3>1, <3>2, <4>1, AddNumbered
    <3>4. Following(0, InitialOptions_bytes) = InitialOptions_bytes
      BY <3>2, FollowingIs, BufferAssumption DEF Wrap
    <3>5. ~DeviceFd'
      BY <1>a, <2>2 DEF Accept
    <3>6. Numbered(ToNetBuf, netOut, netIn)'
      BY <2>2, <3>3, <3>4 DEF Accept
    <3> QED
      BY <3>5, <3>6 DEF StreamsKept
  <2> QED
    BY <1>1, <2>1, <2>2 DEF SocketConnect
<1>2. CASE Open
  <2>1. CASE CloseAll({"socket"})
    BY <2>1, ClosedStreams
  <2>2. CASE OpenPort /\ UNCHANGED toNet
    <3>1. Numbered(InitBuffer(ToDevBuf), 0, 0)
      BY <1>a, EmptyNumbered DEF DevType
    <3> QED
      BY <2>2, <3>1 DEF OpenPort, StreamsKept, toNet, Numbered
  <2>3. CASE UNCHANGED <<connection, toNet, toDev>>
    BY <2>3 DEF StreamsKept, connection, toNet, toDev, Numbered
  <2> QED
    BY <1>2, <2>1, <2>2, <2>3 DEF Open
<1> QED
  BY <1>1, <1>2

\* Every step keeps both streams.
LEMMA StepKeepsStreams == LoopInv /\ StreamsKept /\ [Next]_vars => StreamsKept'
<1> SUFFICES ASSUME LoopInv, StreamsKept, [Next]_vars PROVE StreamsKept'
  OBVIOUS
<1>1. CASE Select \/ SercdService_exit \/ UNCHANGED vars
  BY <1>1 DEF Select, SercdService_exit, vars, connection, toNet, toDev, StreamsKept,
     Numbered
<1> QED
  BY <1>1, BytesKeepStreams, StartsKeepStreams DEF Next, Handler

\* Whatever the sizes of the buffers, of the reads and of the replies: as long as
\* no write of the stream would block, every byte of the client and of the device
\* is passed on once and in order, through the wrap-around of the rings and partial
\* writes (sercd.c:344-413 and 1484-1571).
THEOREM LoopStreamsKept == Spec => []StreamsKept
<1>1. Init => StreamsKept
  BY DEF Init, StreamsKept
<1>2. LoopInv /\ StreamsKept /\ [Next]_vars => LoopInv' /\ StreamsKept'
  BY StepKeeps, StepKeepsStreams
<1> QED
  BY <1>1, <1>2, LoopInvariant, PTL DEF Spec

-----------------------------------------------------------------------------
(* No client is dropped without a reason                                   *)

\* What select has seen still holds when the handler has its turn.
WaitInv ==
    /\ "DEVICEIN" \in ev => DeviceFd /\ BufferHasRoomFor(ToNetBuf, EscWriteChar_bytes)
    /\ "DEVICEOUT" \in ev => DeviceFd
    /\ "SOCKETIN" \in ev => devRewound \/ BufferHasRoomFor(ToDevBuf, 1)

\* The events whose handlers are over when that of e has its turn.
LEMMA TurnIsLater ==
  ASSUME NEW e, Turn(e)
  PROVE  /\ e \in ev
         /\ e \in {"DEVICEOUT", "SOCKETOUT", "SOCKETIN", "SOCKETCONNECT", "OPEN",
                   "MODEMSTATE"} => "DEVICEIN" \notin ev
         /\ e \in {"SOCKETOUT", "SOCKETIN", "SOCKETCONNECT", "OPEN", "MODEMSTATE"} =>
                "DEVICEOUT" \notin ev
         /\ e \in {"SOCKETCONNECT", "OPEN", "MODEMSTATE"} => "SOCKETIN" \notin ev
BY DEF Turn, Phases

\* Every step keeps what select has seen, until it is used.
LEMMA StepKeepsWait == LoopInv /\ WaitInv /\ [Next]_vars => WaitInv'
<1> SUFFICES ASSUME LoopInv, WaitInv, [Next]_vars PROVE WaitInv'
  OBVIOUS
<1>a. NetType /\ DevType
  BY Types DEF LoopInv, TypeParts
<1>1. ASSUME NEW closed, CloseAll(closed) PROVE WaitInv'
  BY <1>1 DEF CloseAll, WaitInv
<1>2. CASE DropConnection
  BY <1>1, <1>2 DEF DropConnection
<1>3. CASE Select
  <2>1. /\ DeviceFd' = DeviceFd /\ ToNetBuf' = ToNetBuf /\ ToDevBuf' = ToDevBuf
        /\ \A e \in ev' : e = "OPEN" \/ Wants(e)
    BY <1>3 DEF Select, connection, toNet, toDev
  <2>2. "DEVICEIN" \in ev' => DeviceFd /\ BufferHasRoomFor(ToNetBuf, EscWriteChar_bytes)
    BY <2>1 DEF Wants, WantsDeviceIn
  <2>3. "DEVICEOUT" \in ev' => DeviceFd
    BY <2>1 DEF Wants
  <2>4. "SOCKETIN" \in ev' => devRewound' \/ BufferHasRoomFor(ToDevBuf, 1)
    BY <2>1 DEF Wants, WantsSocketIn
  <2> QED
    BY <2>1, <2>2, <2>3, <2>4 DEF WaitInv, BufferHasRoomFor, BufferRoomLeft, BufferLength
<1>4. CASE SercdService_exit \/ UNCHANGED vars
  BY <1>4 DEF SercdService_exit, vars, connection, toNet, toDev, WaitInv,
     BufferHasRoomFor, BufferRoomLeft, BufferLength
<1>5. CASE DeviceIn /\ ~DropConnection
  BY <1>5 DEF DeviceIn, Done, WaitInv, connection, toDev, BufferHasRoomFor,
     BufferRoomLeft, BufferLength
<1>6. CASE DeviceOut /\ ~DropConnection
  <2>1. "DEVICEIN" \notin ev /\ ev' = ev \ {"DEVICEOUT"}
    BY <1>6, TurnIsLater DEF DeviceOut, Done
  <2>2. CASE devRewound'
    BY ONLY WaitInv, <2>1, <2>2 DEF WaitInv
  <2>3. CASE ~devRewound'
    <3>1. PICK n \in 1 .. GetBufferString(ToDevBuf) : PopDev(n) /\ UNCHANGED devRewound
      BY <1>6, <2>3 DEF DeviceOut
    <3>2. BufferLength(ToDevBuf) \in Nat /\ n \in Nat
      BY <1>a, LengthRange, StringRange DEF DevType, BufferType
    <3>3. BufferLength(BufferPopBytes(ToDevBuf, n)) = BufferLength(ToDevBuf) - n
      BY <1>a, PopContents DEF DevType
    <3>4. BufferHasRoomFor(ToDevBuf, 1) => BufferHasRoomFor(ToDevBuf', 1)
      BY <3>1, <3>2, <3>3, BufferAssumption DEF PopDev, BufferHasRoomFor, BufferRoomLeft
    <3> QED
      BY ONLY WaitInv, <2>1, <3>1, <3>4 DEF WaitInv, BufferHasRoomFor, BufferRoomLeft,
         BufferLength
  <2> QED
    BY <2>2, <2>3
<1>7. CASE SocketOut /\ ~DropConnection
  <2>1. "DEVICEIN" \notin ev /\ "DEVICEOUT" \notin ev /\ ev' \subseteq ev
    BY <1>7, TurnIsLater DEF SocketOut, Done
  <2> QED
    BY <1>7, <2>1 DEF SocketOut, WaitInv, toDev, BufferHasRoomFor, BufferRoomLeft,
       BufferLength
<1>8. CASE SocketIn /\ ~DropConnection
  <2>1. "DEVICEIN" \notin ev /\ "DEVICEOUT" \notin ev /\ ev' = ev \ {"SOCKETIN"}
    BY <1>8, TurnIsLater DEF SocketIn, Done
  <2> QED
    BY <2>1 DEF WaitInv
<1>9. ASSUME NEW e \in {"SOCKETCONNECT", "OPEN", "MODEMSTATE"}, Turn(e), ev' \subseteq ev
      PROVE  WaitInv'
  BY <1>9, TurnIsLater DEF WaitInv
<1>10. CASE SocketConnect
  BY <1>9, <1>10 DEF SocketConnect, Done
<1>11. CASE Open
  BY <1>9, <1>11 DEF Open, Done, CloseAll
<1>12. CASE Modemstate
  BY <1>9, <1>12 DEF Modemstate, Done
<1> QED
  BY <1>2, <1>3, <1>4, <1>5, <1>6, <1>7, <1>8, <1>10, <1>11, <1>12 DEF Next, Handler

\* A read that select announced has room for a byte.
LEMMA ReadHasRoom ==
  ASSUME NEW room \in Nat, NEW cost \in Nat \ {0}, cost <= room
  PROVE  AtMost(ReadBufSize, room \div cost) \in Nat \ {0}
<1>1. room \div cost \in Nat /\ room \div cost >= 1
  OBVIOUS
<1> QED
  BY <1>1, LoopAssumption DEF AtMost

\* A call on the descriptor of the client, or of the port, fails for a failure or
\* after SercdService_exit.
LEMMA SocketFailsIsFault ==
  LoopInv /\ client # 0 /\ Fails("socket") => faults' # faults \/ exiting
<1> SUFFICES ASSUME LoopInv, client # 0, Fails("socket"), ~exiting PROVE faults' # faults
  OBVIOUS
<1>1. faults \in Nat
  BY Sizes, Types DEF LoopInv, TypeParts
<1>2. "socket" \in fds
  BY DEF LoopInv, StatesInv
<1> QED
  BY <1>1, <1>2 DEF Fails

\* The same of the port.
LEMMA DeviceFailsIsFault ==
  LoopInv /\ DeviceFd /\ Fails("device") => faults' # faults \/ exiting
<1> SUFFICES ASSUME LoopInv, DeviceFd, Fails("device"), ~exiting PROVE faults' # faults
  OBVIOUS
<1>1. faults \in Nat
  BY Sizes, Types DEF LoopInv, TypeParts
<1>2. "device" \in fds
  BY DEF LoopInv, StatesInv
<1> QED
  BY <1>1, <1>2 DEF Fails

\* No client is dropped but for a failure of a descriptor, for the end of the
\* service, or because in the same pass the room for its next byte or for the
\* reply to it was taken (sercd.c:1484-1571).
THEOREM LoopDropIsJustified == Spec => DropIsJustified
<1>1. ASSUME LoopInv, WaitInv, Next, client # 0, client' = 0
      PROVE  \/ faults' # faults \/ exiting
             \/ SocketIn /\ ~BufferHasRoomFor(ToNetBuf, HandleIACCommand_bytes)
             \/ SocketIn /\ devRewound /\ ~BufferHasRoomFor(ToDevBuf, 1)
  <2>a. NetType /\ DevType /\ faults \in Nat /\ asked \in Nat
    BY <1>1, Sizes, Types DEF LoopInv, TypeParts
  <2>b. BufferRoomLeft(ToNetBuf) \in Nat /\ BufferRoomLeft(ToDevBuf) \in Nat
    BY <2>a, LengthRange DEF NetType, DevType, BufferType
  <2>1. ~Select /\ ~SercdService_exit /\ ~Modemstate
    BY <1>1 DEF Select, SercdService_exit, Modemstate, connection
  <2>2. CASE DeviceIn
    <3>1. DeviceFd /\ BufferHasRoomFor(ToNetBuf, EscWriteChar_bytes)
      BY <1>1, <2>2, TurnIsLater DEF DeviceIn, WaitInv
    <3>2. AtMost(ReadBufSize, BufferRoomLeft(ToNetBuf) \div EscWriteChar_bytes) # 0
      BY <2>b, <3>1, Sizes, ReadHasRoom DEF BufferHasRoomFor
    <3>3. Fails("device")
      BY <1>1, <2>2, <3>2 DEF DeviceIn, connection
    <3> QED
      BY <1>1, <3>1, <3>3, DeviceFailsIsFault
  <2>3. CASE DeviceOut
    <3>1. DeviceFd /\ Fails("device")
      BY <1>1, <2>3, TurnIsLater DEF DeviceOut, WaitInv, connection
    <3> QED
      BY <1>1, <3>1, DeviceFailsIsFault
  <2>4. CASE SocketOut
    <3>1. Fails("socket")
      BY <1>1, <2>4 DEF SocketOut, connection
    <3> QED
      BY <1>1, <3>1, SocketFailsIsFault
  <2>5. CASE SocketIn
    <3>1. CASE Fails("socket")
      BY <1>1, <3>1, SocketFailsIsFault
    <3>2. CASE /\ ~Fails("socket") /\ BufferHasRoomFor(ToNetBuf, HandleIACCommand_bytes)
               /\ BufferHasRoomFor(ToDevBuf, 1)
      <4>1. AtMost(ReadBufSize, BufferRoomLeft(ToNetBuf) \div HandleIACCommand_bytes)
              \in Nat \ {0}
        BY <2>b, <3>2, Sizes, ReadHasRoom DEF BufferHasRoomFor
      <4>2. BufferRoomLeft(ToDevBuf) # 0
        BY <2>b, <3>2 DEF BufferHasRoomFor
      <4>3. AtMost(AtMost(ReadBufSize,
                          BufferRoomLeft(ToNetBuf) \div HandleIACCommand_bytes),
                   BufferRoomLeft(ToDevBuf)) # 0
        BY <2>b, <4>1, <4>2 DEF AtMost
      <4> QED
        BY <1>1, <2>5, <3>2, <4>3 DEF SocketIn, connection
    <3>3. devRewound \/ BufferHasRoomFor(ToDevBuf, 1)
      BY <1>1, <2>5, TurnIsLater DEF SocketIn, WaitInv
    <3> QED
      BY <2>5, <3>1, <3>2, <3>3
  <2>6. CASE SocketConnect
    BY <1>1, <2>a, <2>6 DEF SocketConnect, Accept, connection
  <2>7. CASE Open
    BY <1>1, <2>a, <2>7 DEF Open, OpenPort, connection
  <2> QED
    BY <1>1, <2>1, <2>2, <2>3, <2>4, <2>5, <2>6, <2>7 DEF Next, Handler
<1>2. Init => WaitInv
  BY DEF Init, WaitInv
<1>3. Spec => []WaitInv
  BY <1>2, StepKeepsWait, LoopInvariant, PTL DEF Spec
<1>4. LoopInv /\ WaitInv /\ [Next]_vars =>
        [client # 0 /\ client' = 0 =>
            \/ faults' # faults \/ exiting
            \/ SocketIn /\ ~BufferHasRoomFor(ToNetBuf, HandleIACCommand_bytes)
            \/ SocketIn /\ devRewound /\ ~BufferHasRoomFor(ToDevBuf, 1)]_vars
  BY <1>1
<1> QED
  BY <1>3, <1>4, LoopInvariant, PTL DEF Spec, DropIsJustified
=============================================================================
