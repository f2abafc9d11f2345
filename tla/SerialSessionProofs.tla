------------------------ MODULE SerialSessionProofs ------------------------
(***************************************************************************)
(* What TLAPS proves of SerialSession, for any number of callers, commands,*)
(* generations, retries and faults.                                        *)
(***************************************************************************)
EXTENDS SerialSession, TLAPS

\* A writer that has taken a command and not finished with it has one.
BusyHasCommand == \A g \in Gens : writer[g].pc \in Busy => writer[g].cmd \in Commands

TypeInv == TypeOK /\ BusyHasCommand

-----------------------------------------------------------------------------
(* What the shared operations do to the types                              *)

\* What connect, disconnect, close and the reconnection do with the workers.
WorkersChange ==
    \/ UNCHANGED workers
    \/ CancelReader /\ UNCHANGED writer
    \/ CancelWriter /\ UNCHANGED reader
    \/ NewChannel /\ UNCHANGED writer
    \/ \E g \in 0..MaxGen : StoreReader(g) /\ UNCHANGED reader

\* It keeps their types, and no writer gets a command by it.
LEMMA TypeWorkers ==
  ASSUME WorkerType, BusyHasCommand, WorkersChange, scopeActive \in BOOLEAN,
         gen \in 0..MaxGen
  PROVE  WorkerType' /\ BusyHasCommand'
<1>1. ASSUME NEW r \in ReaderRecords, NEW x \in BOOLEAN
      PROVE  /\ [r EXCEPT !.cancelled = r.cancelled \/ x] \in ReaderRecords
             /\ [r EXCEPT !.pc = "start", !.cancelled = x] \in ReaderRecords
  BY ONLY <1>1 DEF ReaderRecords, ReaderPcs
<1>2. ASSUME NEW w \in WriterRecords, NEW x \in BOOLEAN
      PROVE  LET v == [w EXCEPT !.cancelled = w.cancelled \/ x]
             IN  v \in WriterRecords /\ v.pc = w.pc /\ v.cmd = w.cmd
  BY ONLY <1>2 DEF WriterRecords
<1>3. ASSUME NEW w \in WriterRecords, NEW x \in BOOLEAN
      PROVE  LET v == [w EXCEPT !.pc = "start", !.cancelled = x]
             IN  v \in WriterRecords /\ v.pc \notin Busy
  BY ONLY <1>3 DEF WriterRecords, WriterPcs, Busy
<1>a. /\ reader \in [Gens -> ReaderRecords] /\ writer \in [Gens -> WriterRecords]
      /\ (~scopeActive) \in BOOLEAN
  BY DEF WorkerType
<1>4. reader' \in [Gens -> ReaderRecords]
  <2>1. CASE CancelReader
    <3>1. \A g \in Gens : [reader[g] EXCEPT !.cancelled = reader[g].cancelled
                                                         \/ g = readerJob] \in ReaderRecords
      BY ONLY <1>1, <1>a
    <3> QED
      BY ONLY <2>1, <3>1 DEF CancelReader
  <2>2. CASE NewChannel
    BY ONLY <1>1, <1>a, <2>2 DEF NewChannel
  <2>3. CASE UNCHANGED reader
    BY ONLY <1>a, <2>3
  <2> QED
    BY ONLY WorkersChange, <2>1, <2>2, <2>3 DEF WorkersChange, workers
<1>5. /\ writer' \in [Gens -> WriterRecords]
      /\ \A g \in Gens : writer'[g].pc \in Busy =>
                            writer'[g].pc = writer[g].pc /\ writer'[g].cmd = writer[g].cmd
  <2>1. CASE CancelWriter
    <3> DEFINE v(g) == [writer[g] EXCEPT !.cancelled = writer[g].cancelled \/ g = writerJob]
    <3>1. \A g \in Gens : /\ v(g) \in WriterRecords
                          /\ v(g).pc = writer[g].pc /\ v(g).cmd = writer[g].cmd
      BY ONLY <1>2, <1>a
    <3>2. writer' = [g \in Gens |-> v(g)]
      BY ONLY <2>1 DEF CancelWriter
    <3> HIDE DEF v
    <3> QED
      BY ONLY <3>1, <3>2
  <2>2. ASSUME NEW h \in 0..MaxGen, StoreReader(h)
        PROVE  <1>5
    <3> DEFINE v(w) == [w EXCEPT !.pc = "start", !.cancelled = ~scopeActive]
    <3>1. \A w \in WriterRecords : v(w) \in WriterRecords /\ v(w).pc \notin Busy
      BY ONLY <1>3, <1>a
    <3>2. writer' = [writer EXCEPT ![h] = v(writer[h])]
      BY ONLY <2>2 DEF StoreReader
    <3> HIDE DEF v
    <3>3. \A g \in Gens : writer'[g] = IF g = h THEN v(writer[g]) ELSE writer[g]
      BY ONLY <3>2, <1>a
    <3>4. writer' \in [Gens -> WriterRecords]
      BY ONLY <1>a, <3>1, <3>2
    <3> QED
      BY ONLY <1>a, <3>1, <3>3, <3>4
  <2>3. CASE UNCHANGED writer
    BY ONLY <1>a, <2>3
  <2> QED
    BY ONLY WorkersChange, <2>1, <2>2, <2>3 DEF WorkersChange, workers
<1>6. BusyHasCommand'
  BY ONLY BusyHasCommand, <1>5 DEF BusyHasCommand
<1> QED
  BY ONLY <1>4, <1>5, <1>6 DEF WorkerType

\* What a step that changes one field of a channel leaves alone.
LEMMA ChannelExcept ==
  ASSUME ChannelType, NEW g
  PROVE  /\ channel' = [channel EXCEPT ![g].closed = TRUE] =>
               \A h \in 0..MaxGen : channel'[h].buf = channel[h].buf
         /\ \A s : channel' = [channel EXCEPT ![g].buf = s] =>
               \A h \in 0..MaxGen : channel'[h].closed = channel[h].closed
<1>1. channel \in [0..MaxGen -> [buf : Seq(Commands), closed : BOOLEAN]]
  BY DEF ChannelType
<1>2. ASSUME channel' = [channel EXCEPT ![g].closed = TRUE], NEW h \in 0..MaxGen
      PROVE  channel'[h].buf = channel[h].buf
  <2>1. channel[h] \in [buf : Seq(Commands), closed : BOOLEAN]
    BY ONLY <1>1
  <2>2. CASE h = g
    <3>1. channel'[h] = [channel[h] EXCEPT !.closed = TRUE]
      BY ONLY <1>1, <1>2, <2>2
    <3> QED
      BY ONLY <2>1, <3>1
  <2>3. CASE h # g
    BY ONLY <1>1, <1>2, <2>3
  <2> QED
    BY ONLY <2>2, <2>3
<1>3. ASSUME NEW s, channel' = [channel EXCEPT ![g].buf = s], NEW h \in 0..MaxGen
      PROVE  channel'[h].closed = channel[h].closed
  <2>1. channel[h] \in [buf : Seq(Commands), closed : BOOLEAN]
    BY ONLY <1>1
  <2>2. CASE h = g
    <3>1. channel'[h] = [channel[h] EXCEPT !.buf = s]
      BY ONLY <1>1, <1>3, <2>2
    <3> QED
      BY ONLY <2>1, <3>1
  <2>3. CASE h # g
    BY ONLY <1>1, <1>3, <2>3
  <2> QED
    BY ONLY <2>2, <2>3
<1> QED
  BY ONLY <1>2, <1>3

\* Emptying the channel keeps its type.
LEMMA TypeForget ==
  ASSUME ChannelType, Forget, commands \in 0..MaxGen, UNCHANGED accepted
  PROVE  ChannelType'
<1> DEFINE old == channel[commands].buf
           new == IF old = << >> THEN old ELSE Tail(old)
<1>1. old \in Seq(Commands) /\ channel[commands].closed \in BOOLEAN
  BY DEF ChannelType
<1>2. new \in Seq(Commands) /\ Len(new) <= Len(old)
  BY <1>1
<1>3. channel' = [channel EXCEPT ![commands].buf = new]
  BY DEF Forget
<1> HIDE DEF old, new
<1>4. channel' \in [0..MaxGen -> [buf : Seq(Commands), closed : BOOLEAN]]
  BY <1>1, <1>2, <1>3 DEF ChannelType
<1>5. ASSUME NEW g \in Gens PROVE Len(channel'[g].buf) <= Capacity
  <2>1. CASE g = commands
    <3>1. channel'[g].buf = new
      BY <1>3, <2>1 DEF ChannelType
    <3>2. Len(old) <= Capacity
      BY <2>1 DEF ChannelType, old
    <3> QED
      BY <1>1, <1>2, <3>1, <3>2, SessionAssumption
  <2>2. CASE g # commands
    BY <1>3, <2>2 DEF ChannelType, Gens
  <2> QED
    BY <2>1, <2>2
<1> QED
  BY <1>4, <1>5 DEF ChannelType

\* Accepting a command keeps the type of its channel.
LEMMA TypeAccept ==
  ASSUME ChannelType, commands \in 0..MaxGen, NEW c \in Commands, Accept(c)
  PROVE  ChannelType'
<1> DEFINE old == channel[commands].buf
           new == Append(old, c)
<1>1. old \in Seq(Commands) /\ channel[commands].closed \in BOOLEAN
  BY DEF ChannelType
<1>2. new \in Seq(Commands) /\ Len(new) = Len(old) + 1
  BY <1>1
<1>3. channel' = [channel EXCEPT ![commands].buf = new]
  BY DEF Accept
<1>4. commands # 0 => Len(old) < Capacity
  BY DEF Accept, HasRoom
<1>5. accepted' \in Seq(Commands)
  BY DEF Accept, ChannelType
<1> HIDE DEF old, new
<1>6. channel' \in [0..MaxGen -> [buf : Seq(Commands), closed : BOOLEAN]]
  BY <1>1, <1>2, <1>3 DEF ChannelType
<1>7. ASSUME NEW g \in Gens PROVE Len(channel'[g].buf) <= Capacity
  <2>1. CASE g = commands
    <3>1. channel'[g].buf = new
      BY <1>3, <2>1 DEF ChannelType
    <3>2. Len(old) \in Nat /\ Len(old) < Capacity
      BY <1>1, <1>4, <2>1 DEF Gens
    <3> QED
      BY <1>2, <3>1, <3>2, SessionAssumption
  <2>2. CASE g # commands
    BY <1>3, <2>2 DEF ChannelType, Gens
  <2> QED
    BY <2>1, <2>2
<1> QED
  BY <1>5, <1>6, <1>7 DEF ChannelType

\* A writer takes the head of its channel.
LEMMA TypeTake ==
  ASSUME ChannelType, NEW from \in 0..MaxGen, UNCHANGED accepted,
         \/ UNCHANGED channel
         \/ /\ channel[from].buf # << >>
            /\ channel' = [channel EXCEPT ![from].buf = Tail(@)]
  PROVE  ChannelType'
<1>1. CASE UNCHANGED channel
  BY <1>1 DEF ChannelType
<1>2. CASE /\ channel[from].buf # << >>
           /\ channel' = [channel EXCEPT ![from].buf = Tail(@)]
  <2>1. channel[from].buf \in Seq(Commands) /\ channel[from].closed \in BOOLEAN
    BY DEF ChannelType
  <2>2. Tail(channel[from].buf) \in Seq(Commands)
        /\ Len(Tail(channel[from].buf)) = Len(channel[from].buf) - 1
    BY <1>2, <2>1
  <2>3. channel' \in [0..MaxGen -> [buf : Seq(Commands), closed : BOOLEAN]]
    BY <1>2, <2>1, <2>2 DEF ChannelType
  <2>4. ASSUME NEW g \in Gens PROVE Len(channel'[g].buf) <= Capacity
    <3>1. CASE g = from
      BY <1>2, <2>1, <2>2, <3>1, SessionAssumption DEF ChannelType, Gens
    <3>2. CASE g # from
      BY <1>2, <3>2 DEF ChannelType, Gens
    <3> QED
      BY <3>1, <3>2
  <2> QED
    BY <2>3, <2>4 DEF ChannelType
<1> QED
  BY <1>1, <1>2

\* The head of a channel is a command.
LEMMA HeadIsCommand ==
  ASSUME ChannelType, NEW from \in 0..MaxGen, channel[from].buf # << >>
  PROVE  Head(channel[from].buf) \in Commands
<1>1. channel[from].buf \in Seq(Commands)
  BY DEF ChannelType
<1> QED
  BY <1>1

\* Opening and closing the port keeps the type of the descriptors.
LEMMA TypePorts ==
  ASSUME port \in Ports, openPorts \subseteq Gens, opens \in Ports,
         OpenPort \/ ClosePort \/ UNCHANGED ports
  PROVE  port' \in Ports /\ openPorts' \subseteq Gens /\ opens' \in Ports
<1>1. CASE OpenPort
  <2>1. opens + 1 \in Gens
    BY <1>1, SessionAssumption DEF OpenPort, Ports, Gens
  <2> QED
    BY <1>1, <2>1 DEF OpenPort, Ports, Gens
<1>2. CASE ClosePort
  BY <1>2, SessionAssumption DEF ClosePort, Ports
<1>3. CASE UNCHANGED ports
  BY <1>3 DEF ports
<1> QED
  BY <1>1, <1>2, <1>3

\* Completing a handle keeps the type of the results.
LEMMA TypeComplete ==
  ASSUME NEW c, NEW r \in Results, result \in [Commands -> Results], Complete(c, r)
  PROVE  result' \in [Commands -> Results]
BY DEF Complete

\* Starting a reconnection keeps its type.
LEMMA TypeFailReconnect ==
  ASSUME FailReconnect, reconnecting \in BOOLEAN,
         reconnector \in [pc : ReconnectPcs, attempt : Nat, own : 0..MaxGen]
  PROVE  /\ reconnecting' \in BOOLEAN
         /\ reconnector' \in [pc : ReconnectPcs, attempt : Nat, own : 0..MaxGen]
<1>1. CASE configured /\ Reconnect /\ ~reconnecting
  <2>1. [pc |-> "cancel", attempt |-> 0, own |-> 0]
            \in [pc : ReconnectPcs, attempt : Nat, own : 0..MaxGen]
    BY SessionAssumption DEF ReconnectPcs
  <2> QED
    BY <1>1, <2>1 DEF FailReconnect
<1>2. CASE ~(configured /\ Reconnect /\ ~reconnecting)
  BY <1>2 DEF FailReconnect
<1> QED
  BY <1>1, <1>2

-----------------------------------------------------------------------------
(* The type invariant is inductive: one lemma per coroutine                *)

\* The type invariant holds at the start.
LEMMA InitType == Init => TypeInv
<1> SUFFICES ASSUME Init PROVE TypeInv
  OBVIOUS
<1> USE SessionAssumption DEF Init
<1>1. state \in States
  BY DEF States
<1>2. SharedType
  <2>1. /\ terminal \in BOOLEAN /\ configured \in BOOLEAN
        /\ reconnecting \in BOOLEAN /\ scopeActive \in BOOLEAN
    OBVIOUS
  <2>2. /\ commands \in 0..MaxGen
        /\ readerJob \in 0..MaxGen /\ writerJob \in 0..MaxGen
    OBVIOUS
  <2>3. port \in Ports /\ openPorts \subseteq Gens /\ opens \in Ports
    BY DEF Ports, Gens
  <2>4. pending \in Commands \cup {NoCommand}
    OBVIOUS
  <2> QED
    BY <1>1, <2>1, <2>2, <2>3, <2>4 DEF SharedType
<1>3. ChannelType
  BY DEF ChannelType, Gens
<1>4. WorkerType
  BY DEF WorkerType, Reader0, Writer0, ReaderRecords, WriterRecords, ReaderPcs,
         WriterPcs, Ports, Results
<1>5. CoroutineType
  BY DEF CoroutineType, TimerPcs, ReconnectPcs, CloserPcs, CallerPcs
<1>6. HandleType /\ BoundType
  BY DEF HandleType, BoundType, SenderPcs, Results
<1>7. BusyHasCommand
  BY DEF BusyHasCommand, Writer0, Busy
<1> QED
  BY <1>2, <1>3, <1>4, <1>5, <1>6, <1>7 DEF TypeInv, TypeOK

\* connect and disconnect keep the type invariant.
LEMMA CallerType ==
  ASSUME TypeInv, NEW k \in Callers, Call(k) \/ CallerStep(k)
  PROVE  TypeInv'
<1> USE DEF Call, CallerStep, Connect, ConnectBegin, ConnectOpen, ConnectChannel,
      ConnectReader, ConnectWriter, ConnectDone, ConnectFail, ConnectFailCas,
      Disconnect, DisconnectBegin, DisconnectCancel, DisconnectForget,
      DisconnectClosePort, DisconnectDone, Close
<1>a. SharedType /\ ChannelType /\ WorkerType /\ CoroutineType /\ HandleType
      /\ BoundType /\ BusyHasCommand /\ CallerFrame
  BY DEF TypeInv, TypeOK
<1>1. WorkersChange
  BY <1>a DEF fields, jobs, workers, WorkersChange, BoundType
<1>b. WorkerType' /\ BusyHasCommand'
  BY ONLY <1>a, <1>1, TypeWorkers DEF SharedType, BoundType
<1>c. /\ gen' \in 0..MaxGen /\ own' \in [Callers -> 0..MaxGen]
      /\ commands' \in 0..MaxGen
      /\ readerJob' \in 0..MaxGen /\ writerJob' \in 0..MaxGen
  BY <1>a, SessionAssumption
     DEF SharedType, BoundType, fields, NewChannel, StoreReader, StoreWriter
<1>2. /\ WorkerType' /\ BusyHasCommand'
      /\ gen' \in 0..MaxGen /\ own' \in [Callers -> 0..MaxGen]
      /\ commands' \in 0..MaxGen
      /\ readerJob' \in 0..MaxGen /\ writerJob' \in 0..MaxGen
  BY ONLY <1>b, <1>c
<1>3. UNCHANGED <<channel, accepted>> \/ (Forget /\ UNCHANGED <<accepted, commands>>)
  BY <1>a DEF CallerFrame, fields
<1>4. ChannelType'
  BY <1>a, <1>3, TypeForget DEF ChannelType, SharedType
<1>5. OpenPort \/ ClosePort \/ UNCHANGED ports
  BY DEF OpenRefused
<1>6. port' \in Ports /\ openPorts' \subseteq Gens /\ opens' \in Ports
  BY <1>a, <1>5, TypePorts DEF SharedType
<1>7. FailReconnect \/ UNCHANGED <<reconnecting, reconnector>>
  BY DEF fields, jobs
<1>8. reconnecting' \in BOOLEAN /\ reconnector' \in [pc : ReconnectPcs, attempt : Nat, own : 0..MaxGen]
  BY <1>a, <1>7, TypeFailReconnect DEF SharedType, CoroutineType
<1>9. state' \in States
  BY <1>a DEF SharedType, States
<1>10. terminal' \in BOOLEAN /\ configured' \in BOOLEAN
  BY <1>a DEF SharedType, fields
<1>11. SharedType'
  BY <1>a, <1>2, <1>6, <1>8, <1>9, <1>10 DEF SharedType, CallerFrame
<1>12. caller' \in [Callers -> CallerPcs]
  BY <1>a DEF CoroutineType, CallerPcs, Goto
<1>13. closer' \in CloserPcs
  BY <1>a DEF CoroutineType, CloserPcs, jobs
<1>14. CoroutineType'
  BY <1>a, <1>8, <1>12, <1>13 DEF CoroutineType, CallerFrame
<1>15. HandleType'
  BY <1>a DEF HandleType, CallerFrame, handles
<1>16. BoundType'
  BY <1>a, <1>2, SessionAssumption DEF BoundType, CallerFrame, OpenRefused, Fault
<1> QED
  BY <1>2, <1>4, <1>11, <1>14, <1>15, <1>16 DEF TypeInv, TypeOK

\* close keeps the type invariant.
LEMMA CloserType ==
  ASSUME TypeInv, CloserStep
  PROVE  TypeInv'
<1> USE DEF CloserStep, CloserCancel, CloserClosePort, CloserCloseChannel,
      CloserClosed, CloserCancelScope
<1>a. SharedType /\ ChannelType /\ WorkerType /\ CoroutineType /\ HandleType
      /\ BoundType /\ BusyHasCommand
  BY DEF TypeInv, TypeOK
<1>1. WorkerType' /\ BusyHasCommand'
  <2>1. CASE UNCHANGED workers
    BY <1>a, <2>1 DEF workers, WorkerType, BusyHasCommand
  <2>2. CASE WorkersChange
    BY ONLY <1>a, <2>2, TypeWorkers DEF SharedType, BoundType
  <2>3. CASE CloserCancelScope
    <3>1. reader' \in [Gens -> ReaderRecords]
      BY <1>a, <2>3 DEF WorkerType, ReaderRecords
    <3>2. /\ writer' \in [Gens -> WriterRecords]
          /\ \A h \in Gens : writer'[h].pc = writer[h].pc /\ writer'[h].cmd = writer[h].cmd
      <4>1. writer' = [h \in Gens |-> [writer[h] EXCEPT !.cancelled = TRUE]]
        BY <2>3
      <4>2. ASSUME NEW w \in WriterRecords
            PROVE  LET u == [w EXCEPT !.cancelled = TRUE]
                   IN  u \in WriterRecords /\ u.pc = w.pc /\ u.cmd = w.cmd
        BY ONLY <4>2 DEF WriterRecords
      <4>3. writer \in [Gens -> WriterRecords]
        BY <1>a DEF WorkerType
      <4> QED
        BY ONLY <4>1, <4>2, <4>3
    <3>3. BusyHasCommand'
      BY ONLY <1>a, <3>2 DEF BusyHasCommand
    <3> QED
      BY <3>1, <3>2, <3>3 DEF WorkerType
  <2> QED
    BY <2>1, <2>2, <2>3 DEF WorkersChange, workers
<1>2. ChannelType'
  <2>1. CASE UNCHANGED channel
    BY <1>a, <2>1 DEF ChannelType
  <2>2. CASE channel' = [channel EXCEPT ![commands].closed = TRUE]
    <3>1. channel' \in [0..MaxGen -> [buf : Seq(Commands), closed : BOOLEAN]]
      BY <1>a, <2>2 DEF ChannelType, SharedType
    <3>2. \A g \in Gens : channel'[g].buf = channel[g].buf
      BY <1>a, <2>2 DEF ChannelType, Gens
    <3> QED
      BY <1>a, <3>1, <3>2 DEF ChannelType
  <2> QED
    BY <2>1, <2>2
<1>3. port' \in Ports /\ openPorts' \subseteq Gens /\ opens' \in Ports
  BY <1>a, TypePorts DEF SharedType, ports
<1>4. SharedType'
  BY <1>a, <1>3 DEF SharedType, States, fields
<1>5. CoroutineType'
  BY <1>a DEF CoroutineType, CloserPcs
<1>6. HandleType' /\ BoundType'
  BY <1>a DEF HandleType, BoundType, handles, bounds
<1> QED
  BY <1>1, <1>2, <1>4, <1>5, <1>6 DEF TypeInv, TypeOK

\* send keeps the type invariant.
LEMMA SenderType ==
  ASSUME TypeInv, NEW c \in Commands, Submit(c) \/ SenderStep(c)
  PROVE  TypeInv'
<1> USE DEF Submit, SenderStep, Send, SendOffer, SendDropOldest, SendOfferAgain
<1>a. SharedType /\ ChannelType /\ WorkerType /\ CoroutineType /\ HandleType
      /\ BoundType /\ BusyHasCommand /\ SenderFrame
  BY DEF TypeInv, TypeOK
<1>1. SharedType' /\ WorkerType' /\ CoroutineType' /\ BoundType' /\ BusyHasCommand'
  BY <1>a DEF SharedType, WorkerType, CoroutineType, BoundType, BusyHasCommand,
     SenderFrame, shared, fields, ports, coroutines, jobs, workers, bounds
<1>2. ChannelType'
  <2>1. CASE UNCHANGED queue
    BY <1>a, <2>1 DEF ChannelType, queue
  <2>2. CASE Forget /\ UNCHANGED accepted
    BY <1>a, <2>2, TypeForget DEF SharedType
  <2>3. CASE Accept(c)
    BY <1>a, <2>3, TypeAccept DEF SharedType
  <2> QED
    BY <2>1, <2>2, <2>3
<1>3. result' \in [Commands -> Results]
  <2>1. UNCHANGED result \/ (\E r \in Refusals : Complete(c, r))
    BY DEF Accept, Refusals
  <2> QED
    BY <1>a, <2>1, TypeComplete DEF HandleType, Refusals, Results
<1>4. sender' \in [Commands -> SenderPcs]
  BY <1>a DEF HandleType, SenderPcs, Turn
<1>5. HandleType'
  BY <1>a, <1>3, <1>4 DEF HandleType, SenderFrame
<1> QED
  BY <1>1, <1>2, <1>5 DEF TypeInv, TypeOK

\* The readers keep the type invariant.
LEMMA ReaderType ==
  ASSUME TypeInv, NEW g \in Gens, ReaderStep(g) \/ ReaderInput(g)
  PROVE  TypeInv'
<1> USE DEF ReaderStep, ReaderInput, ReaderCancelled, ReaderStart, ReaderCall,
      ReaderData, ReaderRespond, ReaderClear, ReaderThrows, ReaderFail, ReaderFailCas
<1>a. SharedType /\ ChannelType /\ WorkerType /\ CoroutineType /\ HandleType
      /\ BoundType /\ BusyHasCommand /\ ReaderFrame
  BY DEF TypeInv, TypeOK
<1>1. ChannelType' /\ BusyHasCommand'
  BY <1>a DEF ChannelType, BusyHasCommand, ReaderFrame, queue
<1>2. reader' \in [Gens -> ReaderRecords]
  BY <1>a DEF WorkerType, SharedType, ReaderRecords, ReaderPcs, ReadGoto
<1>3. FailReconnect \/ UNCHANGED <<reconnecting, reconnector>>
  OBVIOUS
<1>4. reconnecting' \in BOOLEAN /\ reconnector' \in [pc : ReconnectPcs, attempt : Nat, own : 0..MaxGen]
  BY <1>a, <1>3, TypeFailReconnect DEF SharedType, CoroutineType
<1>5. state' \in States /\ pending' \in Commands \cup {NoCommand}
  BY <1>a DEF SharedType, States
<1>6. SharedType' /\ CoroutineType' /\ WorkerType'
  BY <1>a, <1>2, <1>4, <1>5 DEF SharedType, CoroutineType, WorkerType, ReaderFrame, ports
<1>7. result' \in [Commands -> Results]
  <2>1. UNCHANGED result \/ Complete(reader[g].waiting, "Response")
    OBVIOUS
  <2> QED
    BY <1>a, <2>1, TypeComplete DEF HandleType, Results
<1>8. HandleType'
  BY <1>a, <1>7 DEF HandleType, ReaderFrame
<1>9. BoundType'
  BY <1>a, SessionAssumption DEF BoundType, ReaderFrame, IOThrows, Fault
<1> QED
  BY <1>1, <1>6, <1>8, <1>9 DEF TypeInv, TypeOK

\* A writer that moves on keeps its type.
LEMMA TypeWriterGoto ==
  ASSUME writer \in [Gens -> WriterRecords], BusyHasCommand, NEW g \in Gens,
         NEW w \in WriterRecords, w.pc \in Busy => w.cmd \in Commands,
         writer' = [writer EXCEPT ![g] = w]
  PROVE  writer' \in [Gens -> WriterRecords] /\ BusyHasCommand'
<1>1. ASSUME NEW h \in Gens PROVE writer'[h] = IF h = g THEN w ELSE writer[h]
  OBVIOUS
<1> QED
  BY <1>1 DEF BusyHasCommand

\* A writer keeps the type of the workers.
LEMMA WriterWorkerType ==
  ASSUME writer \in [Gens -> WriterRecords], BusyHasCommand, ChannelType,
         commands \in 0..MaxGen, port \in Ports, NEW g \in Gens,
         \/ WriterCancelled(g) \/ WriterStart(g) \/ WriterReceive(g)
         \/ WriterAttempt(g) \/ WriterWritten(g) \/ WriterTimedOut(g)
         \/ WriterThrows(g) \/ WriterReport(g) \/ WriterFailCas(g) \/ WriterSettle(g)
  PROVE  writer' \in [Gens -> WriterRecords] /\ BusyHasCommand'
<1> DEFINE w == writer[g]
<1>1. w \in WriterRecords /\ (w.pc \in Busy => w.cmd \in Commands)
  BY DEF BusyHasCommand
<1>2. ASSUME NEW pc \in WriterPcs, pc \in Busy => w.pc \in Busy,
             writer' = [writer EXCEPT ![g].pc = pc]
      PROVE  writer' \in [Gens -> WriterRecords] /\ BusyHasCommand'
  <2>1. [w EXCEPT !.pc = pc] \in WriterRecords
    BY <1>1 DEF WriterRecords
  <2>2. writer' = [writer EXCEPT ![g] = [w EXCEPT !.pc = pc]]
    BY <1>2
  <2> QED
    BY <1>1, <1>2, <2>1, <2>2, TypeWriterGoto DEF WriterRecords
<1>3. CASE WriterCancelled(g)
  BY <1>2, <1>3 DEF WriterCancelled, WriteGoto, WriterPcs, Busy
<1>4. CASE WriterStart(g)
  <2>1. [w EXCEPT !.pc = "receive", !.channel = commands] \in WriterRecords
    BY <1>1 DEF WriterRecords, WriterPcs
  <2>2. writer' = [writer EXCEPT ![g] = [w EXCEPT !.pc = "receive", !.channel = commands]]
    BY <1>4 DEF WriterStart
  <2> QED
    BY <1>1, <2>1, <2>2, TypeWriterGoto DEF WriterRecords, Busy
<1>5. CASE WriterReceive(g)
  <2>1. CASE channel[w.channel].buf = << >>
    BY <1>2, <1>5, <2>1 DEF WriterReceive, WriterPcs, Busy
  <2>2. CASE channel[w.channel].buf # << >>
    <3> DEFINE c == Head(channel[w.channel].buf)
               v == [w EXCEPT !.pc = "attempt", !.cmd = c, !.attempt = 0,
                              !.outcome = "WriteFailed"]
    <3>1. c \in Commands
      BY <1>1, <2>2, HeadIsCommand DEF WriterRecords
    <3>2. v \in WriterRecords /\ v.cmd = c
      BY <1>1, <3>1 DEF WriterRecords, WriterPcs, Results
    <3>3. writer' = [writer EXCEPT ![g] = v]
      BY <1>5, <2>2 DEF WriterReceive
    <3> HIDE DEF v, c
    <3> QED
      BY <3>1, <3>2, <3>3, TypeWriterGoto
  <2> QED
    BY <2>1, <2>2
<1>6. CASE WriterAttempt(g)
  <2> DEFINE v == [w EXCEPT !.pc = "writing", !.attempt = @ + 1, !.on = port]
  <2>0. w.attempt + 1 \in Nat /\ "writing" \in WriterPcs
    BY <1>1 DEF WriterRecords, WriterPcs
  <2>1. v \in WriterRecords /\ v.cmd = w.cmd
    BY <1>1, <2>0 DEF WriterRecords
  <2>2. writer' = [writer EXCEPT ![g] = v]
    BY <1>6 DEF WriterAttempt
  <2>3. w.cmd \in Commands
    BY <1>1, <1>6 DEF WriterAttempt, Busy
  <2> HIDE DEF v
  <2> QED
    BY <2>1, <2>2, <2>3, TypeWriterGoto
<1>7. ASSUME NEW outcome \in Results, w.pc = "writing",
             writer' = [writer EXCEPT ![g] = AfterAttempt(g, outcome)]
      PROVE  writer' \in [Gens -> WriterRecords] /\ BusyHasCommand'
  <2>1. AfterAttempt(g, outcome) \in WriterRecords
        /\ AfterAttempt(g, outcome).cmd = w.cmd
    <3> DEFINE pc == IF outcome # "Sent" /\ w.attempt <= MaxRetries
                       THEN "attempt" ELSE "report"
    <3>1. pc \in WriterPcs /\ 0 \in Ports
      BY SessionAssumption DEF WriterPcs, Ports
    <3>2. AfterAttempt(g, outcome) =
            [w EXCEPT !.pc = pc, !.outcome = outcome, !.on = 0]
      BY DEF AfterAttempt
    <3> HIDE DEF pc
    <3> QED
      BY <1>1, <3>1, <3>2 DEF WriterRecords
  <2>2. w.cmd \in Commands
    BY <1>1, <1>7 DEF Busy
  <2> QED
    BY <1>7, <2>1, <2>2, TypeWriterGoto
<1>8. CASE WriterWritten(g)
  <2>1. CASE w.cancelled
    <3>1. writer' = [writer EXCEPT ![g].pc = "end"]
      BY <1>8, <2>1 DEF WriterWritten
    <3> QED
      BY <1>2, <3>1 DEF WriterPcs, Busy
  <2>2. CASE ~w.cancelled
    BY <1>7, <1>8, <2>2 DEF WriterWritten, Results
  <2> QED
    BY <2>1, <2>2
<1>9. CASE WriterTimedOut(g) \/ WriterThrows(g)
  BY <1>7, <1>9 DEF WriterTimedOut, WriterThrows, Results
<1>10. CASE WriterReport(g) \/ WriterFailCas(g)
  BY <1>2, <1>10 DEF WriterReport, WriterFailCas, WriteGoto, WriterPcs, Busy
<1>11. CASE WriterSettle(g)
  <2>1. [w EXCEPT !.pc = "receive", !.cmd = NoCommand] \in WriterRecords
    BY <1>1 DEF WriterRecords, WriterPcs
  <2>2. writer' = [writer EXCEPT ![g] = [w EXCEPT !.pc = "receive", !.cmd = NoCommand]]
    BY <1>11 DEF WriterSettle
  <2> QED
    BY <1>1, <2>1, <2>2, TypeWriterGoto DEF WriterRecords, Busy
<1> QED
  BY <1>3, <1>4, <1>5, <1>6, <1>8, <1>9, <1>10, <1>11

\* The writers keep the type invariant.
LEMMA WriterType ==
  ASSUME TypeInv, NEW g \in Gens,
         WriterStep(g) \/ WriterOutput(g) \/ WriterTimeout(g)
  PROVE  TypeInv'
<1> USE DEF WriterStep, WriterOutput, WriterTimeout, WriterCancelled, WriterStart,
      WriterReceive, WriterAttempt, WriterWritten, WriterTimedOut, WriterThrows,
      WriterReport, WriterFailCas, WriterSettle
<1>a. SharedType /\ ChannelType /\ WorkerType /\ CoroutineType /\ HandleType
      /\ BoundType /\ BusyHasCommand /\ WriterFrame
  BY DEF TypeInv, TypeOK
<1>b. writer \in [Gens -> WriterRecords] /\ commands \in 0..MaxGen /\ port \in Ports
  BY <1>a DEF WorkerType, SharedType
<1>1. ChannelType'
  <2>1. \/ UNCHANGED channel
        \/ /\ channel[writer[g].channel].buf # << >>
           /\ channel' = [channel EXCEPT ![writer[g].channel].buf = Tail(@)]
    OBVIOUS
  <2>2. writer[g].channel \in 0..MaxGen
    BY <1>b DEF WriterRecords
  <2>3. UNCHANGED accepted
    BY <1>a DEF WriterFrame
  <2> QED
    BY ONLY <1>a, <2>1, <2>2, <2>3, TypeTake
<1>2. writer' \in [Gens -> WriterRecords] /\ BusyHasCommand'
  BY ONLY WriterStep(g) \/ WriterOutput(g) \/ WriterTimeout(g),  <1>a, <1>b, WriterWorkerType DEF WriterStep, WriterOutput, WriterTimeout
<1>3. FailReconnect \/ UNCHANGED <<reconnecting, reconnector>>
  OBVIOUS
<1>4. reconnecting' \in BOOLEAN /\ reconnector' \in [pc : ReconnectPcs, attempt : Nat, own : 0..MaxGen]
  BY <1>a, <1>3, TypeFailReconnect DEF SharedType, CoroutineType
<1>5. state' \in States
  BY <1>a DEF SharedType, States
<1>6. pending' \in Commands \cup {NoCommand} /\ timer' \in [Commands -> TimerPcs]
  BY <1>a, <1>b DEF SharedType, CoroutineType, TimerPcs, BusyHasCommand, Busy
<1>7. SharedType' /\ CoroutineType' /\ WorkerType'
  BY <1>a, <1>2, <1>4, <1>5, <1>6
     DEF SharedType, CoroutineType, WorkerType, WriterFrame, ports
<1>8. result' \in [Commands -> Results]
  <2>1. UNCHANGED result \/ Complete(writer[g].cmd, writer[g].outcome)
    OBVIOUS
  <2>2. writer[g].outcome \in Results
    BY <1>b DEF WriterRecords
  <2> QED
    BY <1>a, <2>1, <2>2, TypeComplete DEF HandleType
<1>9. attempts' \in [Commands -> Nat]
  <2>1. UNCHANGED attempts \/ attempts' = [attempts EXCEPT ![writer[g].cmd] = @ + 1]
    OBVIOUS
  <2> QED
    BY ONLY <1>a, <2>1 DEF HandleType
<1>10. wire' \in Seq(Commands)
  <2>1. UNCHANGED wire \/ (writer[g].pc = "writing" /\ wire' = Append(wire, writer[g].cmd))
    BY DEF Deliver
  <2>2. writer[g].pc = "writing" => writer[g].cmd \in Commands
    BY <1>a DEF BusyHasCommand, Busy
  <2>3. wire \in Seq(Commands)
    BY <1>a DEF HandleType
  <2> QED
    BY ONLY <2>1, <2>2, <2>3
<1>11. HandleType'
  BY <1>a, <1>8, <1>9, <1>10 DEF HandleType, WriterFrame
<1>12. BoundType'
  <2>1. UNCHANGED faults \/ Fault
    BY DEF IOThrows
  <2>2. UNCHANGED <<gen, own, calls, rx>>
    BY <1>a DEF WriterFrame
  <2> QED
    BY ONLY <1>a, <2>1, <2>2, SessionAssumption DEF BoundType, Fault
<1> QED
  BY <1>1, <1>2, <1>7, <1>11, <1>12 DEF TypeInv, TypeOK

\* The response timers keep the type invariant.
LEMMA TimerType ==
  ASSUME TypeInv, NEW c \in Commands, TimerStep(c)
  PROVE  TypeInv'
<1> USE DEF TimerStep, TimerCancelled, TimerExpires, TimerClear, TimerComplete
<1>a. SharedType /\ ChannelType /\ WorkerType /\ CoroutineType /\ HandleType
      /\ BoundType /\ BusyHasCommand
  BY DEF TypeInv, TypeOK
<1>1. SharedType' /\ ChannelType' /\ WorkerType' /\ BoundType' /\ BusyHasCommand'
  BY <1>a DEF SharedType, ChannelType, WorkerType, BoundType, BusyHasCommand,
     fields, ports, queue, workers, bounds, jobs
<1>2. CoroutineType'
  BY <1>a DEF CoroutineType, Tick, TimerPcs, jobs
<1>3. result' \in [Commands -> Results]
  BY <1>a, TypeComplete DEF HandleType, Results
<1> QED
  BY <1>a, <1>1, <1>2, <1>3 DEF HandleType, TypeInv, TypeOK

\* Every step of the reconnection keeps the type of its record.
LEMMA TypeReconnector ==
  ASSUME ReconnectStep, gen \in 0..MaxGen,
         reconnector \in [pc : ReconnectPcs, attempt : Nat, own : 0..MaxGen]
  PROVE  reconnector' \in [pc : ReconnectPcs, attempt : Nat, own : 0..MaxGen]
<1>1. \/ \E pc \in ReconnectPcs : reconnector' = [reconnector EXCEPT !.pc = pc]
      \/ reconnector' = [reconnector EXCEPT !.pc = "loop", !.attempt = @ + 1]
      \/ /\ reconnector' = [reconnector EXCEPT !.pc = "reader", !.own = gen + 1]
         /\ gen + 1 \in 0..MaxGen
      \/ reconnector' = [reconnector EXCEPT !.pc = "connected", !.own = 0]
  <2>1. CASE ReconnectChannel
    BY <2>1, SessionAssumption DEF ReconnectChannel, NewChannel
  <2>2. CASE ReconnectOpen \/ ReconnectLoop
    BY <2>2 DEF ReconnectOpen, ReconnectLoop, Pass, ReconnectPcs
  <2>3. CASE ReconnectWriter
    BY <2>3 DEF ReconnectWriter
  <2>4. CASE ReconnectCancelled \/ ReconnectCancel \/ ReconnectClosePort
    BY <2>4 DEF ReconnectCancelled, ReconnectCancel, ReconnectClosePort, Pass,
       ReconnectPcs
  <2>5. CASE ReconnectBegin \/ ReconnectReader \/ ReconnectDone \/ ReconnectFinally
    BY <2>5 DEF ReconnectBegin, ReconnectReader, ReconnectDone, ReconnectFinally,
       Pass, ReconnectPcs
  <2> QED
    BY <2>1, <2>2, <2>3, <2>4, <2>5 DEF ReconnectStep
<1> DEFINE Owns == 0..MaxGen
           Records == [pc : ReconnectPcs, attempt : Nat, own : Owns]
<1>2. reconnector \in Records /\ 0 \in Owns
  BY SessionAssumption
<1>3. /\ "loop" \in ReconnectPcs /\ "reader" \in ReconnectPcs
      /\ "connected" \in ReconnectPcs
  BY DEF ReconnectPcs
<1> HIDE DEF Owns
<1>4. ASSUME NEW pc \in ReconnectPcs, NEW o \in Owns
      PROVE  /\ [reconnector EXCEPT !.pc = pc] \in Records
             /\ [reconnector EXCEPT !.pc = pc, !.own = o] \in Records
  BY ONLY <1>2, <1>4
<1>5. [reconnector EXCEPT !.pc = "loop", !.attempt = @ + 1] \in Records
  <2>1. reconnector.attempt + 1 \in Nat
    BY ONLY <1>2
  <2>2. ASSUME NEW n \in Nat, NEW pc \in ReconnectPcs
        PROVE  [reconnector EXCEPT !.pc = pc, !.attempt = n] \in Records
    BY ONLY <1>2, <2>2
  <2> QED
    BY ONLY <1>3, <2>1, <2>2
<1> HIDE DEF Records
<1>6. reconnector' \in Records
  <2>1. gen + 1 \in 0..MaxGen => gen + 1 \in Owns
    BY ONLY TRUE DEF Owns
  <2> QED
    BY ONLY <1>1, <1>2, <1>3, <1>4, <1>5, <2>1
<1> QED
  BY ONLY <1>6 DEF Records, Owns

\* The reconnection keeps the type invariant.
LEMMA ReconnectType ==
  ASSUME TypeInv, ReconnectStep
  PROVE  TypeInv'
<1> USE DEF ReconnectStep, ReconnectCancelled, ReconnectCancel, ReconnectClosePort,
      ReconnectLoop, ReconnectBegin, ReconnectOpen, ReconnectChannel,
      ReconnectReader, ReconnectWriter, ReconnectDone, ReconnectFinally
<1>a. SharedType /\ ChannelType /\ WorkerType /\ CoroutineType /\ HandleType
      /\ BoundType /\ BusyHasCommand
  BY DEF TypeInv, TypeOK
<1>1. WorkersChange
  <2>1. reconnector.own \in 0..MaxGen
    BY <1>a DEF CoroutineType
  <2> QED
    BY <2>1 DEF workers, WorkersChange
<1>b. WorkerType' /\ BusyHasCommand'
  BY ONLY <1>a, <1>1, TypeWorkers DEF SharedType, BoundType
<1>c. /\ gen' \in 0..MaxGen /\ own' \in [Callers -> 0..MaxGen]
      /\ commands' \in 0..MaxGen
      /\ readerJob' \in 0..MaxGen /\ writerJob' \in 0..MaxGen
  <2>1. reconnector.own \in 0..MaxGen
    BY <1>a DEF CoroutineType
  <2> QED
    BY <1>a, <2>1, SessionAssumption
       DEF SharedType, BoundType, NewChannel, StoreReader, StoreWriter
<1>d. reconnector' \in [pc : ReconnectPcs, attempt : Nat, own : 0..MaxGen]
  BY ONLY <1>a, ReconnectStep, TypeReconnector DEF CoroutineType, BoundType
<1>2. /\ WorkerType' /\ BusyHasCommand'
      /\ gen' \in 0..MaxGen /\ own' \in [Callers -> 0..MaxGen]
      /\ commands' \in 0..MaxGen
      /\ readerJob' \in 0..MaxGen /\ writerJob' \in 0..MaxGen
  BY ONLY <1>b, <1>c
<1>3. OpenPort \/ ClosePort \/ UNCHANGED ports
  BY DEF OpenRefused
<1>4. port' \in Ports /\ openPorts' \subseteq Gens /\ opens' \in Ports
  BY <1>a, <1>3, TypePorts DEF SharedType
<1>5. state' \in States /\ reconnecting' \in BOOLEAN
  BY <1>a DEF SharedType, States
<1>6. SharedType'
  BY <1>a, <1>2, <1>4, <1>5 DEF SharedType
<1>7. CoroutineType'
  BY <1>a, <1>d DEF CoroutineType
<1>8. ChannelType' /\ HandleType'
  BY <1>a DEF ChannelType, HandleType, queue, handles
<1>9. BoundType'
  BY <1>a, <1>2, SessionAssumption DEF BoundType, OpenRefused, Fault
<1> QED
  BY <1>2, <1>6, <1>7, <1>8, <1>9 DEF TypeInv, TypeOK

\* A stuttering step keeps the type invariant.
LEMMA StutterType == TypeInv /\ UNCHANGED vars => TypeInv'
BY DEF TypeInv, TypeOK, SharedType, ChannelType, WorkerType, CoroutineType, HandleType,
   BoundType, BusyHasCommand, vars, shared, fields, ports, queue, coroutines, jobs,
   workers, handles, bounds

\* Every step keeps the type invariant.
LEMMA NextType == TypeInv /\ [Next]_vars => TypeInv'
BY CallerType, CloserType, SenderType, ReaderType, WriterType, TimerType,
   ReconnectType, StutterType DEF Next

\* The type invariant holds throughout.
LEMMA SpecTypeInv == Spec => []TypeInv
BY InitType, NextType, PTL DEF Spec

\* Every field holds a value of its type and no bounded channel exceeds
\* config.queue.capacity, however callers, workers, timers and reconnections
\* interleave (SerialSession.kt:30-39, 52, 71-77).
THEOREM SessionTypeCorrect == Spec => []TypeOK
<1>1. TypeInv => TypeOK
  BY DEF TypeInv
<1> QED
  BY <1>1, SpecTypeInv, PTL

-----------------------------------------------------------------------------
(* One place for every command, and a bound on its writes                  *)

\* A command somebody may still answer.
Answerable(c) ==
    \/ pending = c
    \/ timer[c] # "off"
    \/ \E g \in Gens : reader[g].pc \in {"match", "clear"} /\ reader[g].waiting = c

AnswerableIsSettled ==
    \A c \in Commands : Answerable(c) => sender[c] = "done" /\ ~Placed(c)

UnsentIsFresh ==
    \A c \in Commands : sender[c] # "done" => result[c] = "none" /\ attempts[c] = 0

QueuedIsUnwritten ==
    \A c \in Commands : (\E g \in 0..MaxGen : Queued(g, c)) => attempts[c] = 0

HeldIsCounted ==
    \A g \in Gens : writer[g].pc \in Busy =>
        /\ attempts[writer[g].cmd] = writer[g].attempt
        /\ writer[g].pc = "attempt" => writer[g].attempt <= MaxRetries

PlaceInv ==
    /\ OnePlace /\ AnswerableIsSettled /\ UnsentIsFresh
    /\ QueuedIsUnwritten /\ HeldIsCounted /\ AttemptsBounded

\* The four ways in which a step leaves the places of the commands alone: each
\* channel loses at most its head, no writer takes a command or writes one, no
\* command becomes answerable, no placed or unsent command gets a result.
ChannelsShrink ==
    \A g \in 0..MaxGen :
        \/ channel'[g].buf = channel[g].buf
        \/ channel[g].buf # << >> /\ channel'[g].buf = Tail(channel[g].buf)
WritersKeep ==
    \A g \in Gens : writer'[g].pc \in Busy =>
        /\ writer[g].pc \in Busy
        /\ writer'[g].cmd = writer[g].cmd
        /\ writer'[g].attempt = writer[g].attempt
        /\ writer'[g].pc = "attempt" =>
               writer[g].pc = "attempt" \/ writer[g].attempt <= MaxRetries
AnswersKeep == \A c \in Commands : Answerable(c)' => Answerable(c)
ResultsKeep ==
    \A c \in Commands :
        /\ sender[c] = "done" => sender'[c] = "done"
        /\ sender'[c] # "done" => result'[c] = result[c]
        /\ Placed(c) => result'[c] = result[c]

\* Channels that only lose commands keep a command in one slot.
LEMMA ShrinkSlots ==
  ASSUME TypeInv, OneSlot, ChannelsShrink
  PROVE  /\ OneSlot'
         /\ \A g \in 0..MaxGen, c \in Commands : Queued(g, c)' => Queued(g, c)
<1>1. ASSUME NEW g \in 0..MaxGen
      PROVE  /\ channel[g].buf \in Seq(Commands)
             /\ \/ channel'[g].buf = channel[g].buf
                \/ /\ channel[g].buf # << >>
                   /\ channel'[g].buf = Tail(channel[g].buf)
  BY DEF TypeInv, TypeOK, ChannelType, ChannelsShrink
<1>2. ASSUME NEW g \in 0..MaxGen
      PROVE  \E k \in {0, 1} :
                \A i \in 1..Len(channel'[g].buf) :
                    /\ i + k \in 1..Len(channel[g].buf)
                    /\ channel'[g].buf[i] = channel[g].buf[i + k]
  <2>1. CASE channel'[g].buf = channel[g].buf
    <3>1. \A i \in 1..Len(channel'[g].buf) : i + 0 = i
      BY <1>1
    <3> QED
      BY <2>1, <3>1
  <2>2. CASE channel[g].buf # << >> /\ channel'[g].buf = Tail(channel[g].buf)
    <3>1. \A i \in 1..Len(channel'[g].buf) :
              /\ i + 1 \in 1..Len(channel[g].buf)
              /\ channel'[g].buf[i] = channel[g].buf[i + 1]
      BY <1>1, <2>2
    <3> QED
      BY <3>1
  <2> QED
    BY <1>1, <2>1, <2>2
<1>3. OneSlot'
  <2> SUFFICES ASSUME NEW g \in 0..MaxGen, NEW h \in 0..MaxGen,
                      NEW i \in 1..Len(channel'[g].buf),
                      NEW j \in 1..Len(channel'[h].buf),
                      channel'[g].buf[i] = channel'[h].buf[j]
               PROVE  g = h /\ i = j
    BY DEF OneSlot
  <2>1. PICK k \in {0, 1} :
                \A m \in 1..Len(channel'[g].buf) :
                    /\ m + k \in 1..Len(channel[g].buf)
                    /\ channel'[g].buf[m] = channel[g].buf[m + k]
    BY <1>2
  <2>2. g = h
    <3>1. PICK l \in {0, 1} :
                \A m \in 1..Len(channel'[h].buf) :
                    /\ m + l \in 1..Len(channel[h].buf)
                    /\ channel'[h].buf[m] = channel[h].buf[m + l]
      BY <1>2
    <3>2. /\ i + k \in 1..Len(channel[g].buf) /\ j + l \in 1..Len(channel[h].buf)
          /\ channel[g].buf[i + k] = channel[h].buf[j + l]
      BY <2>1, <3>1
    <3> QED
      BY <3>2 DEF OneSlot
  <2>3. i + k = j + k
    <3>1. /\ i + k \in 1..Len(channel[g].buf) /\ j + k \in 1..Len(channel[g].buf)
          /\ channel[g].buf[i + k] = channel[g].buf[j + k]
      BY <2>1, <2>2
    <3>2. OneSlot
      OBVIOUS
    <3> QED
      BY ONLY <3>1, <3>2, g \in 0..MaxGen DEF OneSlot
  <2>4. i \in Int /\ j \in Int /\ k \in Int
    OBVIOUS
  <2> QED
    BY <2>2, <2>3, <2>4
<1>4. ASSUME NEW g \in 0..MaxGen, NEW c \in Commands, Queued(g, c)'
      PROVE  Queued(g, c)
  BY <1>2, <1>4 DEF Queued
<1> QED
  BY <1>3, <1>4

\* What a step that leaves the places alone preserves: everything.
LEMMA PlaceKept ==
  ASSUME TypeInv, TypeInv', PlaceInv, ChannelsShrink, WritersKeep, AnswersKeep,
         ResultsKeep, UNCHANGED attempts
  PROVE  PlaceInv'
<1>1. OneSlot' /\ \A g \in 0..MaxGen, c \in Commands : Queued(g, c)' => Queued(g, c)
  BY ShrinkSlots DEF PlaceInv, OnePlace
<1>2. ASSUME NEW g \in Gens, NEW c \in Commands, Holds(g, c)' PROVE Holds(g, c)
  BY <1>2 DEF WritersKeep, Holds
<1>3. ASSUME NEW c \in Commands, Placed(c)' PROVE Placed(c)
  BY <1>1, <1>2, <1>3 DEF Placed
<1>4. OneHolder' /\ NotQueuedAndHeld'
  BY <1>1, <1>2 DEF PlaceInv, OnePlace, OneHolder, NotQueuedAndHeld
<1>5. PlacedIsAccepted'
  BY <1>3 DEF PlaceInv, OnePlace, PlacedIsAccepted, ResultsKeep
<1>6. AnswerableIsSettled'
  BY <1>3 DEF PlaceInv, AnswerableIsSettled, AnswersKeep, ResultsKeep
<1>7. UnsentIsFresh' /\ AttemptsBounded'
  BY DEF PlaceInv, UnsentIsFresh, ResultsKeep, AttemptsBounded
<1>8. QueuedIsUnwritten'
  BY <1>1 DEF PlaceInv, QueuedIsUnwritten
<1>9. HeldIsCounted'
  BY DEF PlaceInv, HeldIsCounted, WritersKeep
<1> QED
  BY <1>1, <1>4, <1>5, <1>6, <1>7, <1>8, <1>9 DEF PlaceInv, OnePlace

\* The invariant of places holds at the start.
LEMMA InitPlace == Init => PlaceInv
<1> SUFFICES ASSUME Init PROVE PlaceInv
  OBVIOUS
<1> USE SessionAssumption DEF Init
<1>1. \A g \in 0..MaxGen : Len(channel[g].buf) = 0
  OBVIOUS
<1>2. \A g \in Gens : writer[g].pc \notin Busy /\ reader[g].pc = "none"
  BY DEF Writer0, Reader0, Busy
<1>3. \A c \in Commands : ~Placed(c) /\ ~Answerable(c)
  BY <1>1, <1>2 DEF Placed, Queued, Holds, Answerable
<1>4. OnePlace
  BY <1>1, <1>2, <1>3
     DEF OnePlace, OneSlot, OneHolder, NotQueuedAndHeld, PlacedIsAccepted, Queued, Holds
<1>5. AnswerableIsSettled /\ UnsentIsFresh /\ QueuedIsUnwritten /\ AttemptsBounded
  BY <1>3 DEF AnswerableIsSettled, UnsentIsFresh, QueuedIsUnwritten, AttemptsBounded
<1>6. HeldIsCounted
  BY <1>2 DEF HeldIsCounted
<1> QED
  BY <1>4, <1>5, <1>6 DEF PlaceInv

\* What a caller, the closer or the reconnection do with the workers leaves
\* every command where it is.
LEMMA ChangeKeeps ==
  ASSUME WorkerType, WorkersChange
  PROVE  /\ WritersKeep
         /\ \A g \in Gens : reader'[g].pc \in {"match", "clear"} =>
                                /\ reader'[g].pc = reader[g].pc
                                /\ reader'[g].waiting = reader[g].waiting
<1>a. reader \in [Gens -> ReaderRecords] /\ writer \in [Gens -> WriterRecords]
  BY DEF WorkerType
<1>1. CASE UNCHANGED workers
  BY ONLY <1>1 DEF workers, WritersKeep
<1>2. CASE CancelReader /\ UNCHANGED writer
  BY ONLY <1>a, <1>2 DEF ReaderRecords, CancelReader, WritersKeep
<1>3. CASE CancelWriter /\ UNCHANGED reader
  BY ONLY <1>a, <1>3 DEF WriterRecords, CancelWriter, WritersKeep
<1>4. CASE NewChannel /\ UNCHANGED writer
  BY ONLY <1>a, <1>4 DEF ReaderRecords, NewChannel, WritersKeep
<1>5. ASSUME NEW h \in 0..MaxGen, StoreReader(h) /\ UNCHANGED reader
      PROVE  WritersKeep
  <2>1. \A g \in Gens : \/ writer'[g] = writer[g]
                        \/ writer'[g].pc = "start"
    BY ONLY <1>a, <1>5 DEF WriterRecords, StoreReader
  <2> QED
    BY ONLY <2>1 DEF WritersKeep, Busy
<1> QED
  BY ONLY WorkersChange, <1>1, <1>2, <1>3, <1>4, <1>5 DEF WorkersChange

\* disconnect takes at most one command out of a queue.
LEMMA ForgetShrinks ==
  ASSUME ChannelType, commands \in 0..MaxGen, UNCHANGED channel \/ Forget
  PROVE  ChannelsShrink
<1>1. CASE UNCHANGED channel
  BY ONLY <1>1 DEF ChannelsShrink
<1>2. CASE Forget
  <2> SUFFICES ASSUME NEW g \in 0..MaxGen
               PROVE  \/ channel'[g].buf = channel[g].buf
                      \/ /\ channel[g].buf # << >>
                         /\ channel'[g].buf = Tail(channel[g].buf)
    BY DEF ChannelsShrink
  <2>1. channel'[g] = IF g = commands
                       THEN [channel[g] EXCEPT !.buf = IF @ = << >> THEN @ ELSE Tail(@)]
                       ELSE channel[g]
    BY ONLY <1>2, ChannelType, commands \in 0..MaxGen, g \in 0..MaxGen
       DEF Forget, ChannelType
  <2>2. channel[g] \in [buf : Seq(Commands), closed : BOOLEAN]
    BY ONLY ChannelType, g \in 0..MaxGen DEF ChannelType
  <2>3. channel'[g].buf = IF g = commands /\ channel[g].buf # << >>
                           THEN Tail(channel[g].buf) ELSE channel[g].buf
    BY ONLY <2>1, <2>2
  <2> QED
    BY ONLY <2>3
<1> QED
  BY ONLY <1>1, <1>2, UNCHANGED channel \/ Forget

\* connect and disconnect keep the invariant of places.
LEMMA CallerPlace ==
  ASSUME TypeInv, TypeInv', PlaceInv, NEW k \in Callers, Call(k) \/ CallerStep(k)
  PROVE  PlaceInv'
<1> USE DEF Call, CallerStep, Connect, ConnectBegin, ConnectOpen, ConnectChannel,
      ConnectReader, ConnectWriter, ConnectDone, ConnectFail, ConnectFailCas,
      Disconnect, DisconnectBegin, DisconnectCancel, DisconnectForget,
      DisconnectClosePort, DisconnectDone, Close
<1>a. /\ WorkerType /\ ChannelType /\ commands \in 0..MaxGen
      /\ own \in [Callers -> 0..MaxGen]
  BY DEF TypeInv, TypeOK, BoundType, SharedType
<1>b. UNCHANGED <<pending, timer, sender, result, attempts>>
  BY DEF CallerFrame, handles
<1>1. WorkersChange
  BY <1>a DEF fields, jobs, workers, WorkersChange
<1>2. UNCHANGED channel \/ Forget
  OBVIOUS
<1>3. ChannelsShrink
  BY ONLY <1>a, <1>2, ForgetShrinks
<1>4. /\ WritersKeep
      /\ \A g \in Gens : reader'[g].pc \in {"match", "clear"} =>
                                /\ reader'[g].pc = reader[g].pc
                                /\ reader'[g].waiting = reader[g].waiting
  BY ONLY <1>a, <1>1, ChangeKeeps
<1>5. AnswersKeep /\ ResultsKeep
  BY ONLY <1>b, <1>4 DEF AnswersKeep, ResultsKeep, Answerable
<1> QED
  BY ONLY TypeInv, TypeInv', PlaceInv, <1>b, <1>3, <1>4, <1>5, PlaceKept

\* close keeps the invariant of places.
LEMMA CloserPlace ==
  ASSUME TypeInv, TypeInv', PlaceInv, CloserStep
  PROVE  PlaceInv'
<1> USE DEF CloserStep, CloserCancel, CloserClosePort, CloserCloseChannel,
      CloserClosed, CloserCancelScope
<1>a. WorkerType /\ ChannelType /\ commands \in 0..MaxGen
  BY DEF TypeInv, TypeOK, SharedType
<1>b. UNCHANGED <<pending, timer, sender, result, attempts>>
  BY DEF handles
<1>1. \/ WorkersChange
      \/ /\ reader' = [g \in Gens |-> [reader[g] EXCEPT !.cancelled = TRUE]]
         /\ writer' = [g \in Gens |-> [writer[g] EXCEPT !.cancelled = TRUE]]
  BY DEF workers, WorkersChange
<1>2. UNCHANGED channel \/ channel' = [channel EXCEPT ![commands].closed = TRUE]
  OBVIOUS
<1>3. ChannelsShrink
  <2>1. \A g \in 0..MaxGen : channel'[g].buf = channel[g].buf
    BY ONLY <1>a, <1>2, ChannelExcept
  <2> QED
    BY ONLY <2>1 DEF ChannelsShrink
<1>4. /\ WritersKeep
      /\ \A g \in Gens : reader'[g].pc \in {"match", "clear"} =>
                                /\ reader'[g].pc = reader[g].pc
                                /\ reader'[g].waiting = reader[g].waiting
  <2>1. CASE WorkersChange
    BY ONLY <1>a, <2>1, ChangeKeeps
  <2>2. CASE /\ reader' = [g \in Gens |-> [reader[g] EXCEPT !.cancelled = TRUE]]
             /\ writer' = [g \in Gens |-> [writer[g] EXCEPT !.cancelled = TRUE]]
    BY ONLY <1>a, <2>2 DEF WorkerType, ReaderRecords, WriterRecords, WritersKeep
  <2> QED
    BY ONLY <1>1, <2>1, <2>2
<1>5. AnswersKeep /\ ResultsKeep
  BY ONLY <1>b, <1>4 DEF AnswersKeep, ResultsKeep, Answerable
<1> QED
  BY ONLY TypeInv, TypeInv', PlaceInv, <1>b, <1>3, <1>4, <1>5, PlaceKept

\* The readers keep the invariant of places.
LEMMA ReaderPlace ==
  ASSUME TypeInv, TypeInv', PlaceInv, NEW g \in Gens, ReaderStep(g) \/ ReaderInput(g)
  PROVE  PlaceInv'
<1> USE DEF ReaderStep, ReaderInput, ReaderCancelled, ReaderStart, ReaderCall,
      ReaderData, ReaderRespond, ReaderClear, ReaderThrows, ReaderFail, ReaderFailCas
<1>a. reader \in [Gens -> ReaderRecords] /\ ReaderFrame
  BY DEF TypeInv, TypeOK, WorkerType
<1>b. UNCHANGED <<channel, writer, timer, sender, attempts>>
  BY <1>a DEF ReaderFrame, queue
<1>1. ChannelsShrink /\ WritersKeep
  BY <1>b DEF ChannelsShrink, WritersKeep
<1>2. AnswersKeep
  <2>1. pending' \in {pending, NoCommand}
    OBVIOUS
  <2>2. /\ \A h \in Gens : h # g => reader'[h] = reader[h]
        /\ reader'[g].pc \in {"match", "clear"} =>
              \/ reader'[g].waiting = pending
              \/ /\ reader[g].pc \in {"match", "clear"}
                 /\ reader'[g].waiting = reader[g].waiting
    BY <1>a DEF ReadGoto, ReaderRecords
  <2> QED
    BY ONLY <1>b, <2>1, <2>2, SessionAssumption DEF AnswersKeep, Answerable
<1>3. ResultsKeep
  <2>1. \/ UNCHANGED result
        \/ reader[g].pc = "match" /\ Complete(reader[g].waiting, "Response")
    BY DEF ReadGoto
  <2>2. CASE UNCHANGED result
    BY ONLY <1>b, <2>2 DEF ResultsKeep
  <2>3. CASE reader[g].pc = "match" /\ Complete(reader[g].waiting, "Response")
    <3> DEFINE w == reader[g].waiting
    <3>1. ASSUME NEW c \in Commands, c = w PROVE sender[c] = "done" /\ ~Placed(c)
      BY ONLY PlaceInv, <2>3, <3>1, g \in Gens DEF PlaceInv, AnswerableIsSettled, Answerable
    <3>2. ASSUME NEW c \in Commands, c # w PROVE result'[c] = result[c]
      BY ONLY TypeInv, <2>3, <3>2 DEF Complete, TypeInv, TypeOK, HandleType
    <3> QED
      BY ONLY <1>b, <3>1, <3>2 DEF ResultsKeep
  <2> QED
    BY ONLY <2>1, <2>2, <2>3
<1> QED
  BY ONLY TypeInv, TypeInv', PlaceInv, <1>b, <1>1, <1>2, <1>3, PlaceKept

\* The response timers keep the invariant of places.
LEMMA TimerPlace ==
  ASSUME TypeInv, TypeInv', PlaceInv, NEW c \in Commands, TimerStep(c)
  PROVE  PlaceInv'
<1> USE DEF TimerStep, TimerCancelled, TimerExpires, TimerClear, TimerComplete
<1>a. timer \in [Commands -> TimerPcs] /\ result \in [Commands -> Results]
  BY DEF TypeInv, TypeOK, CoroutineType, HandleType
<1>b. UNCHANGED <<channel, reader, writer, sender, attempts>>
  BY DEF queue, jobs, workers
<1>1. ChannelsShrink /\ WritersKeep
  BY ONLY <1>b DEF ChannelsShrink, WritersKeep
<1>2. timer[c] # "off" /\ pending' \in {pending, NoCommand}
      /\ \A d \in Commands : d # c => timer'[d] = timer[d]
  BY <1>a DEF Tick
<1>3. AnswersKeep
  BY ONLY <1>b, <1>2, SessionAssumption DEF AnswersKeep, Answerable
<1>4. sender[c] = "done" /\ ~Placed(c)
  BY ONLY PlaceInv, <1>2, c \in Commands DEF PlaceInv, AnswerableIsSettled, Answerable
<1>5. \A d \in Commands : d # c => result'[d] = result[d]
  BY <1>a DEF Complete
<1>6. ResultsKeep
  BY ONLY <1>b, <1>4, <1>5 DEF ResultsKeep
<1> QED
  BY ONLY TypeInv, TypeInv', PlaceInv, <1>b, <1>1, <1>3, <1>6, PlaceKept

\* The reconnection keeps the invariant of places.
LEMMA ReconnectPlace ==
  ASSUME TypeInv, TypeInv', PlaceInv, ReconnectStep
  PROVE  PlaceInv'
<1> USE DEF ReconnectStep, ReconnectCancelled, ReconnectCancel, ReconnectClosePort,
      ReconnectLoop, ReconnectBegin, ReconnectOpen, ReconnectChannel,
      ReconnectReader, ReconnectWriter, ReconnectDone, ReconnectFinally
<1>a. WorkerType /\ reconnector.own \in 0..MaxGen
  BY DEF TypeInv, TypeOK, CoroutineType
<1>b. UNCHANGED <<channel, pending, timer, sender, result, attempts>>
  BY DEF handles, queue
<1>1. WorkersChange
  BY <1>a DEF workers, WorkersChange
<1>2. ChannelsShrink
  BY ONLY <1>b DEF ChannelsShrink
<1>3. /\ WritersKeep
      /\ \A g \in Gens : reader'[g].pc \in {"match", "clear"} =>
                                /\ reader'[g].pc = reader[g].pc
                                /\ reader'[g].waiting = reader[g].waiting
  BY ONLY <1>a, <1>1, ChangeKeeps
<1>4. AnswersKeep /\ ResultsKeep
  BY ONLY <1>b, <1>3 DEF AnswersKeep, ResultsKeep, Answerable
<1> QED
  BY ONLY TypeInv, TypeInv', PlaceInv, <1>b, <1>2, <1>3, <1>4, PlaceKept

\* An accepted command is appended to one channel, where it was not before.
LEMMA AcceptSlots ==
  ASSUME TypeInv, OneSlot, NEW c \in Commands, Accept(c),
         \A g \in 0..MaxGen : ~Queued(g, c)
  PROVE  /\ OneSlot'
         /\ \A g \in 0..MaxGen, d \in Commands : Queued(g, d)' => Queued(g, d) \/ d = c
<1> DEFINE old(g) == channel[g].buf
           n == Len(old(commands)) + 1
<1>1. commands \in 0..MaxGen /\ channel \in [0..MaxGen -> [buf : Seq(Commands), closed : BOOLEAN]]
  BY DEF TypeInv, TypeOK, SharedType, ChannelType
<1>2. /\ channel'[commands].buf = Append(old(commands), c)
      /\ \A g \in 0..MaxGen : g # commands => channel'[g].buf = old(g)
  BY <1>1 DEF Accept
<1>3. ASSUME NEW g \in 0..MaxGen, NEW i \in 1..Len(channel'[g].buf)
      PROVE  \/ i \in 1..Len(old(g)) /\ channel'[g].buf[i] = old(g)[i]
             \/ g = commands /\ i = n /\ channel'[g].buf[i] = c
  <2>1. CASE g # commands
    BY <1>2, <2>1
  <2>2. CASE g = commands
    <3>1. old(commands) \in Seq(Commands)
      BY <1>1
    <3> DEFINE s == old(commands)
    <3>2. channel'[g].buf = Append(s, c) /\ n = Len(s) + 1
      BY <1>2, <2>2
    <3> HIDE DEF s
    <3>3. i \in 1..(Len(s) + 1)
      BY ONLY <1>3, <3>1, <3>2
    <3>4. \/ i \in 1..Len(s) /\ Append(s, c)[i] = s[i]
          \/ i = Len(s) + 1 /\ Append(s, c)[i] = c
      BY ONLY <3>1, <3>3, c \in Commands
    <3> QED
      BY ONLY <2>2, <3>2, <3>4 DEF s
  <2> QED
    BY <2>1, <2>2
<1>4. ASSUME NEW g \in 0..MaxGen, NEW i \in 1..Len(old(g)) PROVE old(g)[i] # c
  BY DEF Queued
<1>5. OneSlot'
  <2> SUFFICES ASSUME NEW g \in 0..MaxGen, NEW h \in 0..MaxGen,
                      NEW i \in 1..Len(channel'[g].buf),
                      NEW j \in 1..Len(channel'[h].buf),
                      channel'[g].buf[i] = channel'[h].buf[j]
               PROVE  g = h /\ i = j
    BY DEF OneSlot
  <2>1. \/ i \in 1..Len(old(g)) /\ channel'[g].buf[i] = old(g)[i]
        \/ g = commands /\ i = n /\ channel'[g].buf[i] = c
    BY <1>3
  <2>2. \/ j \in 1..Len(old(h)) /\ channel'[h].buf[j] = old(h)[j]
        \/ h = commands /\ j = n /\ channel'[h].buf[j] = c
    BY <1>3
  <2> QED
    <3>1. CASE i \in 1..Len(old(g)) /\ channel'[g].buf[i] = old(g)[i]
      <4>1. channel'[g].buf[i] # c
        BY ONLY <1>4, <3>1, g \in 0..MaxGen
      <4>2. j \in 1..Len(old(h)) /\ channel'[h].buf[j] = old(h)[j]
        BY ONLY <2>2, <4>1, channel'[g].buf[i] = channel'[h].buf[j]
      <4> QED
        <5>1. i \in 1..Len(channel[g].buf) /\ j \in 1..Len(channel[h].buf)
          BY <3>1, <4>2
        <5>2. channel[g].buf[i] = channel[h].buf[j]
          BY <3>1, <4>2
        <5> QED
          BY ONLY <5>1, <5>2, OneSlot, g \in 0..MaxGen, h \in 0..MaxGen DEF OneSlot
    <3>2. CASE g = commands /\ i = n /\ channel'[g].buf[i] = c
      <4>1. ~(j \in 1..Len(old(h)) /\ channel'[h].buf[j] = old(h)[j])
        BY ONLY <1>4, <3>2, h \in 0..MaxGen, channel'[g].buf[i] = channel'[h].buf[j]
      <4> QED
        BY ONLY <2>2, <3>2, <4>1
    <3> QED
      BY ONLY <2>1, <3>1, <3>2
<1>6. ASSUME NEW g \in 0..MaxGen, NEW d \in Commands, Queued(g, d)'
      PROVE  Queued(g, d) \/ d = c
  <2>1. PICK i \in 1..Len(channel'[g].buf) : channel'[g].buf[i] = d
    BY <1>6 DEF Queued
  <2> QED
    BY <1>3, <2>1 DEF Queued
<1> QED
  BY <1>5, <1>6

\* send keeps the invariant of places.
LEMMA SenderPlace ==
  ASSUME TypeInv, TypeInv', PlaceInv, NEW c \in Commands, Submit(c) \/ SenderStep(c)
  PROVE  PlaceInv'
<1> USE DEF Submit, SenderStep, Send, SendOffer, SendDropOldest, SendOfferAgain
<1>a. /\ sender \in [Commands -> SenderPcs] /\ result \in [Commands -> Results]
      /\ ChannelType /\ commands \in 0..MaxGen
  BY DEF TypeInv, TypeOK, HandleType, SharedType
<1>b. UNCHANGED <<pending, timer, reader, writer, attempts>>
  BY DEF SenderFrame, shared, coroutines, jobs, workers
<1>1. sender[c] # "done" /\ \A d \in Commands : d # c => sender'[d] = sender[d]
  BY <1>a DEF Turn
<1>2. ~Placed(c) /\ ~Answerable(c) /\ result[c] = "none" /\ attempts[c] = 0
  BY ONLY PlaceInv, <1>1, c \in Commands
     DEF PlaceInv, OnePlace, PlacedIsAccepted, AnswerableIsSettled, UnsentIsFresh
<1>3. WritersKeep /\ AnswersKeep
  BY ONLY <1>b DEF WritersKeep, AnswersKeep, Answerable
<1>4. CASE UNCHANGED channel \/ Forget
  <2>1. ChannelsShrink
    BY ONLY <1>a, <1>4, ForgetShrinks
  <2>2. \A d \in Commands : d # c => result'[d] = result[d]
    BY <1>a DEF Complete, Accept
  <2>3. sender'[c] # "done" => result'[c] = result[c]
    BY <1>a DEF Turn
  <2>4. ResultsKeep
    BY ONLY <1>1, <1>2, <2>2, <2>3 DEF ResultsKeep
  <2> QED
    BY ONLY TypeInv, TypeInv', PlaceInv, <1>b, <1>3, <2>1, <2>4, PlaceKept
<1>5. CASE Accept(c) /\ sender' = [sender EXCEPT ![c] = "done"]
  <2>1. UNCHANGED result /\ sender'[c] = "done"
    BY ONLY <1>a, <1>5, c \in Commands DEF Accept
  <2>2. OneSlot' /\ \A g \in 0..MaxGen, d \in Commands :
                       Queued(g, d)' => Queued(g, d) \/ d = c
    BY ONLY TypeInv, PlaceInv, c \in Commands, <1>2, <1>5, AcceptSlots
       DEF PlaceInv, OnePlace, Placed
  <2>3. \A g \in Gens, d \in Commands : Holds(g, d)' <=> Holds(g, d)
    BY ONLY <1>b DEF Holds
  <2>4. \A d \in Commands : d # c => (Placed(d)' => Placed(d))
    BY ONLY <2>2, <2>3 DEF Placed
  <2>5. OneHolder' /\ NotQueuedAndHeld'
    BY ONLY PlaceInv, <1>2, <2>2, <2>3
       DEF PlaceInv, OnePlace, OneHolder, NotQueuedAndHeld, Placed
  <2>6. PlacedIsAccepted'
    BY ONLY PlaceInv, <1>1, <1>2, <2>1, <2>4 DEF PlaceInv, OnePlace, PlacedIsAccepted
  <2>7. AnswerableIsSettled'
    BY ONLY PlaceInv, <1>1, <1>2, <1>3, <2>4
       DEF PlaceInv, AnswerableIsSettled, AnswersKeep
  <2>8. UnsentIsFresh' /\ AttemptsBounded' /\ HeldIsCounted'
    BY ONLY PlaceInv, <1>b, <1>1, <2>1
       DEF PlaceInv, UnsentIsFresh, AttemptsBounded, HeldIsCounted
  <2>9. QueuedIsUnwritten'
    BY ONLY PlaceInv, <1>b, <1>2, <2>2 DEF PlaceInv, QueuedIsUnwritten
  <2> QED
    BY ONLY <2>2, <2>5, <2>6, <2>7, <2>8, <2>9 DEF PlaceInv, OnePlace
<1> QED
  BY <1>4, <1>5 DEF Turn, queue

\* A writer step that neither takes, tries nor settles a command.
LEMMA WriterQuietPlace ==
  ASSUME TypeInv, TypeInv', PlaceInv, NEW g \in Gens, WriterFrame,
         \/ WriterCancelled(g) \/ WriterStart(g) \/ WriterWritten(g)
         \/ WriterTimedOut(g) \/ WriterThrows(g) \/ WriterReport(g)
         \/ WriterFailCas(g)
         \/ WriterReceive(g) /\ channel[writer[g].channel].buf = << >>
  PROVE  PlaceInv'
<1> USE DEF WriterCancelled, WriterStart, WriterWritten, WriterTimedOut,
      WriterThrows, WriterReport, WriterFailCas, WriterReceive
<1>a. writer \in [Gens -> WriterRecords]
  BY DEF TypeInv, TypeOK, WorkerType
<1>b. UNCHANGED <<channel, pending, timer, reader, sender, result, attempts>>
  BY DEF WriterFrame
<1>1. \A h \in Gens : h # g => writer'[h] = writer[h]
  BY <1>a DEF WriteGoto
<1>2. writer'[g].pc \in Busy =>
          /\ writer[g].pc \in Busy
          /\ writer'[g].cmd = writer[g].cmd
          /\ writer'[g].attempt = writer[g].attempt
          /\ writer'[g].pc = "attempt" => writer[g].attempt <= MaxRetries
  <2>1. CASE \E outcome \in Results : writer'[g] = AfterAttempt(g, outcome)
             /\ writer[g].pc = "writing"
    <3>1. PICK outcome \in Results : writer'[g] = AfterAttempt(g, outcome)
      BY <2>1
    <3>2. /\ writer'[g].cmd = writer[g].cmd
          /\ writer'[g].attempt = writer[g].attempt
          /\ writer'[g].pc = "attempt" => writer[g].attempt <= MaxRetries
      BY ONLY <1>a, <3>1, g \in Gens DEF AfterAttempt, WriterRecords
    <3> QED
      BY ONLY <2>1, <3>2 DEF Busy
  <2>2. CASE \E pc \in WriterPcs : writer' = [writer EXCEPT ![g].pc = pc]
             /\ (pc \in Busy => writer[g].pc \in Busy /\ pc # "attempt")
    BY ONLY <1>a, <2>2, g \in Gens DEF WriterRecords
  <2>3. CASE WriterStart(g)
    BY ONLY <1>a, <2>3, g \in Gens DEF WriterStart, WriterRecords, Busy
  <2>4. CASE WriterWritten(g)
    BY ONLY <1>a, <2>1, <2>2, <2>4, g \in Gens
       DEF WriterWritten, Results, WriterPcs, Busy
  <2>5. CASE WriterTimedOut(g) \/ WriterThrows(g)
    BY ONLY <1>a, <2>1, <2>5, g \in Gens DEF WriterTimedOut, WriterThrows, Results
  <2>6. CASE \/ WriterCancelled(g) \/ WriterReport(g) \/ WriterFailCas(g)
             \/ WriterReceive(g) /\ channel[writer[g].channel].buf = << >>
    BY ONLY <2>2, <2>6 DEF WriterCancelled, WriterReport, WriterFailCas,
       WriterReceive, WriteGoto, WriterPcs, Busy
  <2> QED
    BY <2>3, <2>4, <2>5, <2>6
<1>3. WritersKeep
  BY ONLY <1>1, <1>2 DEF WritersKeep
<1>4. ChannelsShrink /\ AnswersKeep /\ ResultsKeep
  BY ONLY <1>b DEF ChannelsShrink, AnswersKeep, ResultsKeep, Answerable
<1> QED
  BY ONLY TypeInv, TypeInv', PlaceInv, <1>b, <1>3, <1>4, PlaceKept

\* The head of a channel moves into the hands of the writer that receives it.
LEMMA WriterTakePlace ==
  ASSUME TypeInv, TypeInv', PlaceInv, NEW g \in Gens, WriterFrame,
         WriterReceive(g), NEW from \in 0..MaxGen, from = writer[g].channel,
         channel[from].buf # << >>, NEW c \in Commands, c = Head(channel[from].buf)
  PROVE  PlaceInv'
<1>a. /\ writer \in [Gens -> WriterRecords] /\ ChannelType
      /\ from \in 0..MaxGen /\ channel[from].buf \in Seq(Commands)
  BY DEF TypeInv, TypeOK, WorkerType, WriterRecords, ChannelType
<1>b. UNCHANGED <<pending, timer, reader, sender, result, attempts>>
  BY DEF WriterReceive, WriterFrame
<1>c. c \in Commands /\ 1 \in 1..Len(channel[from].buf) /\ channel[from].buf[1] = c
  BY ONLY <1>a, channel[from].buf # << >>, c = Head(channel[from].buf), c \in Commands
<1>1. /\ writer'[g].pc = "attempt" /\ writer'[g].cmd = c /\ writer'[g].attempt = 0
      /\ \A h \in Gens : h # g => writer'[h] = writer[h]
      /\ writer[g].pc = "receive"
  <2> DEFINE v == [writer[g] EXCEPT !.pc = "attempt", !.cmd = c, !.attempt = 0,
                                    !.outcome = "WriteFailed"]
  <2>1. writer' = [writer EXCEPT ![g] = v] /\ writer[g].pc = "receive"
    BY ONLY WriterReceive(g), from = writer[g].channel, channel[from].buf # << >>,
            c = Head(channel[from].buf) DEF WriterReceive
  <2>2. v.pc = "attempt" /\ v.cmd = c /\ v.attempt = 0
    BY ONLY <1>a, g \in Gens DEF WriterRecords
  <2> HIDE DEF v
  <2> QED
    BY ONLY <1>a, <2>1, <2>2, g \in Gens
<1>2. /\ channel'[from].buf = Tail(channel[from].buf)
      /\ \A h \in 0..MaxGen : h # from => channel'[h].buf = channel[h].buf
  <2>1. channel' = [channel EXCEPT ![from].buf = Tail(@)]
    BY ONLY WriterReceive(g), from = writer[g].channel, channel[from].buf # << >>
       DEF WriterReceive
  <2> QED
    BY ONLY <1>a, <2>1, from \in 0..MaxGen DEF ChannelType
<1>3. ChannelsShrink
  BY ONLY <1>2, channel[from].buf # << >> DEF ChannelsShrink
<1>4. OneSlot' /\ \A h \in 0..MaxGen, d \in Commands : Queued(h, d)' => Queued(h, d)
  BY ONLY TypeInv, PlaceInv, <1>3, ShrinkSlots DEF PlaceInv, OnePlace
<1>5. Queued(from, c)
  BY ONLY <1>c DEF Queued
<1>6. ASSUME NEW h \in 0..MaxGen PROVE ~Queued(h, c)'
  <2> SUFFICES ASSUME NEW i \in 1..Len(channel'[h].buf), channel'[h].buf[i] = c
               PROVE  FALSE
    BY DEF Queued
  <2>1. CASE h # from
    <3>1. i \in 1..Len(channel[h].buf) /\ channel[h].buf[i] = c
      BY ONLY <1>2, <2>1, h \in 0..MaxGen, i \in 1..Len(channel'[h].buf),
              channel'[h].buf[i] = c
    <3>2. OneSlot
      BY ONLY PlaceInv DEF PlaceInv, OnePlace
    <3> QED
      BY ONLY <1>a, <1>c, <2>1, <3>1, <3>2, h \in 0..MaxGen DEF OneSlot
  <2>2. CASE h = from
    <3>1. i + 1 \in 1..Len(channel[from].buf) /\ channel[from].buf[i + 1] = c
      <4>1. /\ channel[from].buf \in Seq(Commands) /\ channel[from].buf # << >>
            /\ i \in 1..Len(Tail(channel[from].buf))
            /\ Tail(channel[from].buf)[i] = c
        BY ONLY <1>a, <1>2, <2>2, i \in 1..Len(channel'[h].buf),
                channel'[h].buf[i] = c, channel[from].buf # << >>
      <4> QED
        BY ONLY <4>1
    <3>2. i + 1 = 1
      BY ONLY <1>a, <1>c, <3>1, PlaceInv DEF PlaceInv, OnePlace, OneSlot
    <3>3. i \in Nat /\ i >= 1
      OBVIOUS
    <3> QED
      BY ONLY <3>2, <3>3
  <2> QED
    BY <2>1, <2>2
<1>7. \A h \in Gens, d \in Commands : Holds(h, d)' => Holds(h, d) \/ (h = g /\ d = c)
  BY ONLY <1>1 DEF Holds
<1>8. \A h \in Gens : ~Holds(h, c)
  BY ONLY PlaceInv, <1>a, <1>c, <1>5 DEF PlaceInv, OnePlace, NotQueuedAndHeld
<1>9. \A d \in Commands : Placed(d)' => Placed(d)
  BY ONLY <1>a, <1>4, <1>5, <1>7 DEF Placed
<1>10. OneHolder' /\ NotQueuedAndHeld'
  BY ONLY PlaceInv, <1>4, <1>6, <1>7, <1>8, g \in Gens
     DEF PlaceInv, OnePlace, OneHolder, NotQueuedAndHeld
<1>11. PlacedIsAccepted' /\ UnsentIsFresh' /\ AttemptsBounded'
  BY ONLY PlaceInv, <1>b, <1>9
     DEF PlaceInv, OnePlace, PlacedIsAccepted, UnsentIsFresh, AttemptsBounded
<1>12. AnswerableIsSettled'
  BY ONLY PlaceInv, <1>b, <1>9 DEF PlaceInv, AnswerableIsSettled, Answerable
<1>13. QueuedIsUnwritten'
  BY ONLY PlaceInv, <1>b, <1>4 DEF PlaceInv, QueuedIsUnwritten
<1>14. attempts[c] = 0
  BY ONLY PlaceInv, <1>a, <1>c, <1>5 DEF PlaceInv, QueuedIsUnwritten
<1>15. HeldIsCounted'
  BY ONLY PlaceInv, <1>b, <1>1, <1>14, SessionAssumption DEF PlaceInv, HeldIsCounted
<1> QED
  BY ONLY <1>4, <1>10, <1>11, <1>12, <1>13, <1>15 DEF PlaceInv, OnePlace

\* A write begins: the count of the command and of its writer go up together,
\* and nobody else counts that command.
LEMMA WriterTryPlace ==
  ASSUME TypeInv, TypeInv', PlaceInv, NEW g \in Gens, WriterFrame, WriterAttempt(g)
  PROVE  PlaceInv'
<1> DEFINE c == writer[g].cmd
<1>a. /\ writer \in [Gens -> WriterRecords] /\ attempts \in [Commands -> Nat]
      /\ writer[g].pc = "attempt" /\ c \in Commands /\ writer[g].attempt \in Nat
  BY DEF TypeInv, TypeOK, WorkerType, HandleType, BusyHasCommand, Busy,
         WriterAttempt, WriterRecords
<1>b. UNCHANGED <<channel, pending, timer, reader, sender, result>>
  BY DEF WriterAttempt, WriterFrame
<1>1. /\ writer'[g].pc = "writing" /\ writer'[g].cmd = c
      /\ writer'[g].attempt = writer[g].attempt + 1
      /\ \A h \in Gens : h # g => writer'[h] = writer[h]
  BY ONLY <1>a, WriterAttempt(g) DEF WriterAttempt, WriterRecords
<1>2. /\ attempts'[c] = attempts[c] + 1
      /\ \A d \in Commands : d # c => attempts'[d] = attempts[d]
  BY ONLY <1>a, WriterAttempt(g) DEF WriterAttempt
<1>3. attempts[c] = writer[g].attempt /\ writer[g].attempt <= MaxRetries
  BY ONLY PlaceInv, <1>a, g \in Gens DEF PlaceInv, HeldIsCounted, Busy
<1>4. Holds(g, c) /\ Placed(c)
  BY ONLY <1>a, g \in Gens DEF Holds, Placed, Busy
<1>5. /\ \A h \in Gens, d \in Commands : Holds(h, d)' <=> Holds(h, d)
      /\ \A h \in 0..MaxGen, d \in Commands : Queued(h, d)' <=> Queued(h, d)
  BY ONLY <1>a, <1>b, <1>1 DEF Holds, Queued, Busy
<1>6. \A d \in Commands : Placed(d)' <=> Placed(d)
  BY ONLY <1>5 DEF Placed
<1>7. OneSlot' /\ OneHolder' /\ NotQueuedAndHeld' /\ PlacedIsAccepted'
  BY ONLY PlaceInv, <1>b, <1>5, <1>6
     DEF PlaceInv, OnePlace, OneSlot, OneHolder, NotQueuedAndHeld, PlacedIsAccepted
<1>8. AnswerableIsSettled'
  BY ONLY PlaceInv, <1>b, <1>6 DEF PlaceInv, AnswerableIsSettled, Answerable
<1>9. UnsentIsFresh'
  BY ONLY PlaceInv, <1>b, <1>2, <1>4, <1>a
     DEF PlaceInv, OnePlace, PlacedIsAccepted, UnsentIsFresh
<1>10. QueuedIsUnwritten'
  BY ONLY PlaceInv, <1>2, <1>4, <1>5, <1>a, g \in Gens
     DEF PlaceInv, OnePlace, NotQueuedAndHeld, QueuedIsUnwritten
<1>11. AttemptsBounded'
  <2>1. attempts'[c] <= MaxRetries + 1
    BY ONLY <1>2, <1>3, <1>a, SessionAssumption
  <2> QED
    BY ONLY PlaceInv, <1>2, <2>1 DEF PlaceInv, AttemptsBounded
<1>12. HeldIsCounted'
  <2> SUFFICES ASSUME NEW h \in Gens, writer'[h].pc \in Busy
               PROVE  /\ attempts'[writer'[h].cmd] = writer'[h].attempt
                      /\ writer'[h].pc = "attempt" => writer'[h].attempt <= MaxRetries
    BY DEF HeldIsCounted
  <2>1. CASE h = g
    BY ONLY <1>1, <1>2, <1>3, <2>1
  <2>2. CASE h # g
    <3>1. writer'[h] = writer[h] /\ writer[h].pc \in Busy
      BY ONLY <1>1, <2>2, h \in Gens, writer'[h].pc \in Busy
    <3>2. writer[h].cmd \in Commands /\ Holds(h, writer[h].cmd)
      BY ONLY TypeInv, <3>1, h \in Gens DEF TypeInv, BusyHasCommand, Holds
    <3>3. writer[h].cmd # c
      BY ONLY PlaceInv, <1>a, <1>4, <2>2, <3>2, g \in Gens, h \in Gens
         DEF PlaceInv, OnePlace, OneHolder
    <3>4. attempts'[writer[h].cmd] = attempts[writer[h].cmd]
      BY ONLY <1>2, <3>2, <3>3
    <3> QED
      BY ONLY PlaceInv, <3>1, <3>4, h \in Gens DEF PlaceInv, HeldIsCounted
  <2> QED
    BY <2>1, <2>2
<1> QED
  BY ONLY <1>7, <1>8, <1>9, <1>10, <1>11, <1>12 DEF PlaceInv, OnePlace

\* A command leaves the hands of its writer, for its result or for its wait.
LEMMA WriterSettlePlace ==
  ASSUME TypeInv, TypeInv', PlaceInv, NEW g \in Gens, WriterFrame, WriterSettle(g),
         NEW c \in Commands, c = writer[g].cmd
  PROVE  PlaceInv'
<1>a. /\ writer \in [Gens -> WriterRecords] /\ writer[g].pc = "settle"
      /\ c \in Commands /\ c = writer[g].cmd /\ timer \in [Commands -> TimerPcs]
      /\ result \in [Commands -> Results]
  BY DEF TypeInv, TypeOK, WorkerType, HandleType, CoroutineType, BusyHasCommand,
         Busy, WriterSettle
<1>b. UNCHANGED <<channel, reader, sender, attempts>>
  BY DEF WriterSettle, WriterFrame
<1>1. writer'[g].pc = "receive" /\ \A h \in Gens : h # g => writer'[h] = writer[h]
  BY ONLY <1>a, WriterSettle(g) DEF WriterSettle, WriterRecords
<1>2. \A d \in Commands : d # c => timer'[d] = timer[d] /\ result'[d] = result[d]
  BY ONLY <1>a, WriterSettle(g) DEF WriterSettle, Complete
<1>3. pending' \in {pending, c}
  BY ONLY WriterSettle(g), <1>a DEF WriterSettle
<1>4. Holds(g, c) /\ Placed(c)
  BY ONLY <1>a, g \in Gens DEF Holds, Placed, Busy
<1>5. /\ \A h \in Gens, d \in Commands : Holds(h, d)' => Holds(h, d) /\ h # g
      /\ \A h \in 0..MaxGen, d \in Commands : Queued(h, d)' <=> Queued(h, d)
  BY ONLY <1>b, <1>1 DEF Holds, Queued, Busy
<1>6. ~Placed(c)'
  BY ONLY PlaceInv, <1>a, <1>4, <1>5, g \in Gens
     DEF PlaceInv, OnePlace, OneHolder, NotQueuedAndHeld, Placed
<1>7. \A d \in Commands : Placed(d)' => Placed(d) /\ d # c
  BY ONLY <1>5, <1>6 DEF Placed
<1>8. OneSlot' /\ OneHolder' /\ NotQueuedAndHeld'
  BY ONLY PlaceInv, <1>b, <1>5
     DEF PlaceInv, OnePlace, OneSlot, OneHolder, NotQueuedAndHeld
<1>9. PlacedIsAccepted'
  BY ONLY PlaceInv, <1>b, <1>2, <1>7 DEF PlaceInv, OnePlace, PlacedIsAccepted
<1>10. sender[c] = "done"
  BY ONLY PlaceInv, <1>a, <1>4 DEF PlaceInv, OnePlace, PlacedIsAccepted
<1>11. AnswerableIsSettled'
  <2>1. \A d \in Commands : d # c => (Answerable(d)' => Answerable(d))
    BY ONLY <1>b, <1>2, <1>3 DEF Answerable
  <2> QED
    BY ONLY PlaceInv, <1>b, <1>6, <1>7, <1>10, <2>1 DEF PlaceInv, AnswerableIsSettled
<1>12. UnsentIsFresh' /\ AttemptsBounded'
  BY ONLY PlaceInv, <1>b, <1>2, <1>10 DEF PlaceInv, UnsentIsFresh, AttemptsBounded
<1>13. QueuedIsUnwritten'
  BY ONLY PlaceInv, <1>b, <1>5 DEF PlaceInv, QueuedIsUnwritten
<1>14. HeldIsCounted'
  BY ONLY PlaceInv, <1>b, <1>1 DEF PlaceInv, HeldIsCounted, Busy
<1> QED
  BY ONLY <1>8, <1>9, <1>11, <1>12, <1>13, <1>14 DEF PlaceInv, OnePlace

\* The writers keep the invariant of places.
LEMMA WriterPlace ==
  ASSUME TypeInv, TypeInv', PlaceInv, NEW g \in Gens,
         WriterStep(g) \/ WriterOutput(g) \/ WriterTimeout(g)
  PROVE  PlaceInv'
<1>1. CASE WriterReceive(g) /\ WriterFrame /\ channel[writer[g].channel].buf # << >>
  <2>1. writer[g].channel \in 0..MaxGen /\ ChannelType
    BY DEF TypeInv, TypeOK, WorkerType, WriterRecords
  <2>2. Head(channel[writer[g].channel].buf) \in Commands
    BY ONLY <1>1, <2>1, HeadIsCommand
  <2> QED
    BY ONLY TypeInv, TypeInv', PlaceInv, <1>1, <2>1, <2>2, g \in Gens, WriterTakePlace
<1>2. CASE WriterSettle(g) /\ WriterFrame
  <2>1. writer[g].cmd \in Commands
    BY <1>2 DEF TypeInv, BusyHasCommand, WriterSettle, Busy
  <2> QED
    BY ONLY TypeInv, TypeInv', PlaceInv, <1>2, <2>1, g \in Gens, WriterSettlePlace
<1> QED
  BY <1>1, <1>2, WriterQuietPlace, WriterTryPlace
     DEF WriterStep, WriterOutput, WriterTimeout

\* A stuttering step keeps the invariant of places.
LEMMA StutterPlace == PlaceInv /\ UNCHANGED vars => PlaceInv'
BY DEF vars, shared, ports, queue, coroutines, jobs, workers, handles, bounds,
       fields, PlaceInv, OnePlace, OneSlot, OneHolder, NotQueuedAndHeld,
       PlacedIsAccepted, AnswerableIsSettled, UnsentIsFresh, QueuedIsUnwritten,
       HeldIsCounted, AttemptsBounded, Placed, Answerable, Holds, Queued

\* Every step keeps the invariant of places.
LEMMA NextPlace == TypeInv /\ PlaceInv /\ [Next]_vars => PlaceInv'
<1> SUFFICES ASSUME TypeInv, PlaceInv, [Next]_vars PROVE PlaceInv'
  OBVIOUS
<1>1. TypeInv'
  BY NextType
<1> QED
  BY <1>1, CallerPlace, CloserPlace, SenderPlace, ReaderPlace, WriterPlace,
     TimerPlace, ReconnectPlace, StutterPlace DEF Next

\* The invariant of places holds throughout.
LEMMA SpecPlaceInv == Spec => []PlaceInv
<1>1. TypeInv /\ PlaceInv /\ [Next]_vars => TypeInv' /\ PlaceInv'
  BY NextType, NextPlace
<1> QED
  BY <1>1, InitType, InitPlace, PTL DEF Spec

\* Through connects, reconnections, overflows and cancellations of any number,
\* a command is in at most one slot of one channel or the hands of one writer,
\* and only between its acceptance by send and the completion of its handle
\* (send:71-77 and startWorkers:129-162).
THEOREM SessionOnePlace == Spec => []OnePlace
<1>1. PlaceInv => OnePlace
  BY DEF PlaceInv
<1> QED
  BY <1>1, SpecPlaceInv, PTL

\* However many generations of writers there are, transport.write is called at
\* most maxRetries + 1 times for a command (startWorkers:135-148).
THEOREM SessionAttemptsBounded == Spec => []AttemptsBounded
<1>1. PlaceInv => AttemptsBounded
  BY DEF PlaceInv
<1> QED
  BY <1>1, SpecPlaceInv, PTL

\* A writer only writes a command that it holds and whose handle is open.
LEMMA WriterWritesPlaced ==
  ASSUME TypeInv, PlaceInv, NEW g \in Gens,
         WriterStep(g) \/ WriterOutput(g) \/ WriterTimeout(g), NEW c \in Commands,
         attempts'[c] # attempts[c]
  PROVE  result'[c] = "none"
<1>1. WriterAttempt(g)
  BY DEF WriterStep, WriterOutput, WriterTimeout, WriterCancelled, WriterStart,
      WriterReceive, WriterWritten, WriterTimedOut, WriterThrows, WriterReport,
      WriterFailCas, WriterSettle
<1>2. attempts \in [Commands -> Nat]
  BY DEF TypeInv, TypeOK, HandleType
<1>3. writer[g].pc = "attempt" /\ writer[g].cmd = c /\ UNCHANGED result
  BY ONLY <1>1, <1>2, attempts'[c] # attempts[c], c \in Commands DEF WriterAttempt
<1>4. Placed(c)
  BY ONLY <1>3, g \in Gens DEF Placed, Holds, Busy
<1> QED
  BY ONLY PlaceInv, <1>3, <1>4, c \in Commands DEF PlaceInv, OnePlace, PlacedIsAccepted

\* Once the handle of a command is complete, transport.write is never called
\* for it again, whoever completed it (send:62-77, startWorkers:116, 152-160).
THEOREM SessionNoWriteAfterCompletion == Spec => NoWriteAfterCompletion
<1>1. ASSUME TypeInv, PlaceInv, [Next]_vars, NEW c \in Commands,
             attempts'[c] # attempts[c]
      PROVE  result'[c] = "none"
  <2>1. ASSUME UNCHANGED attempts PROVE FALSE
    BY <1>1, <2>1
  <2>2. ASSUME NEW k \in Callers, Call(k) \/ CallerStep(k) PROVE UNCHANGED attempts
    BY <2>2 DEF Call, CallerStep, CallerFrame, handles
  <2>3. ASSUME NEW d \in Commands, Submit(d) \/ SenderStep(d) \/ TimerStep(d)
        PROVE  UNCHANGED attempts
    BY <2>3 DEF Submit, SenderStep, SenderFrame, TimerStep
  <2>4. ASSUME NEW g \in Gens, ReaderStep(g) \/ ReaderInput(g)
        PROVE  UNCHANGED attempts
    BY <2>4 DEF ReaderStep, ReaderInput, ReaderFrame
  <2>5. ASSUME CloserStep \/ ReconnectStep PROVE UNCHANGED attempts
    BY <2>5 DEF CloserStep, ReconnectStep, handles
  <2>6. ASSUME UNCHANGED vars PROVE UNCHANGED attempts
    BY <2>6 DEF vars, handles
  <2> QED
    BY <1>1, <2>1, <2>2, <2>3, <2>4, <2>5, <2>6, WriterWritesPlaced DEF Next
<1>2. TypeInv /\ PlaceInv /\ [Next]_vars =>
        [\A c \in Commands : attempts'[c] # attempts[c] => result'[c] = "none"]_vars
  BY <1>1
<1> QED
  BY <1>2, SpecTypeInv, SpecPlaceInv, PTL DEF Spec, NoWriteAfterCompletion

=============================================================================
