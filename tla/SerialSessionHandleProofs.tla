--------------------- MODULE SerialSessionHandleProofs ---------------------
(***************************************************************************)
(* SerialSession implements CommandHandle: what TLAPS proves of the handles*)
(* of the commands, for any number of callers, commands, generations,      *)
(* retries and faults, and that the device gets the commands of one        *)
(* connection in the order in which the queue took them.                   *)
(***************************************************************************)
EXTENDS SerialSessionProofs

\* What a writer is about to report happened.
ReportIsHonest ==
    \A g \in Gens :
        /\ writer[g].pc \in Busy \ {"attempt"} => writer[g].attempt > 0
        /\ writer[g].pc \in {"report", "failCas", "settle"} =>
               /\ writer[g].outcome \in {"Sent", "TimedOut", "WriteFailed"}
               /\ writer[g].outcome = "Sent" => writer[g].cmd \in RangeOf(wire)

\* Only a command with a responseMatcher that was delivered awaits an answer,
\* and it has a timer, running or ended.
AwaitedIsDelivered ==
    \A c \in Commands : Answerable(c) =>
        c \in Matched /\ c \in RangeOf(wire) /\ timer[c] # "off"

HonestInv == ReportIsHonest /\ AwaitedIsDelivered /\ ResultIsHonest

\* A generation whose writer can be launched.
Launchable(g) == g \in 1..gen /\ writer[g].pc = "none"

\* Whoever is about to launch a writer has a generation of its own, whose writer
\* never ran, and no generation to come has one.
LaunchInv ==
    /\ \A g \in Gens : g > gen => writer[g].pc = "none"
    /\ \A k \in Callers : caller[k] = "reader" => Launchable(own[k])
    /\ reconnector.pc = "reader" => Launchable(reconnector.own)
    /\ \A k \in Callers : caller[k] = "reader" /\ reconnector.pc = "reader" =>
                              own[k] # reconnector.own
    /\ \A k, l \in Callers :
           caller[k] = "reader" /\ caller[l] = "reader" /\ own[k] = own[l] => k = l

HandleInv == HonestInv /\ LaunchInv

-----------------------------------------------------------------------------
(* How the steps of the session change what a handle depends on            *)

\* The hands of the writers hold the same commands before and after a step.
HandsStay ==
    \A g \in Gens :
        /\ writer'[g].pc \in Busy <=> writer[g].pc \in Busy
        /\ writer[g].pc \in Busy =>
               /\ writer'[g].pc = writer[g].pc
               /\ writer'[g].cmd = writer[g].cmd
               /\ writer'[g].attempt = writer[g].attempt
               /\ writer'[g].outcome = writer[g].outcome
BufsStay == \A g \in 0..MaxGen : channel'[g].buf = channel[g].buf
\* The readers that are about to answer a command were so before.
ReadersKeep ==
    \A g \in Gens : reader'[g].pc \in {"match", "clear"} =>
        /\ reader[g].pc \in {"match", "clear"}
        /\ reader'[g].waiting = reader[g].waiting

\* The writers go on with what they have; one that begins has written nothing.
WritersCarryOn ==
    \A g \in Gens :
        /\ writer'[g].pc \in {"none", "start"} => writer[g].pc \in {"none", "start"}
        /\ writer'[g].pc \in Busy =>
              writer[g].pc \in Busy /\ writer'[g].cmd = writer[g].cmd
        /\ writer'[g].channel = writer[g].channel \/ writer[g].pc = "start"

CancelAll ==
    /\ reader' = [g \in Gens |-> [reader[g] EXCEPT !.cancelled = TRUE]]
    /\ writer' = [g \in Gens |-> [writer[g] EXCEPT !.cancelled = TRUE]]

\* What connect, disconnect, close and the reconnection do with the workers, when
\* the writer launched is one that never ran.
WorkersMove ==
    \/ UNCHANGED workers
    \/ CancelReader /\ UNCHANGED writer
    \/ CancelWriter /\ UNCHANGED reader
    \/ CancelAll
    \/ NewChannel /\ UNCHANGED writer
    \/ \E g \in Gens : Launchable(g) /\ StoreReader(g) /\ UNCHANGED reader

\* It leaves the hands of the workers alone.
LEMMA MoveStays ==
  ASSUME TypeInv, WorkersMove
  PROVE  HandsStay /\ ReadersKeep /\ WritersCarryOn
<1>a. reader \in [Gens -> ReaderRecords] /\ writer \in [Gens -> WriterRecords]
  BY DEF TypeInv, TypeOK, WorkerType
<1>1. CASE UNCHANGED workers
  BY ONLY <1>1 DEF workers, HandsStay, ReadersKeep, WritersCarryOn
<1>2. CASE CancelReader /\ UNCHANGED writer
  BY ONLY <1>a, <1>2
     DEF ReaderRecords, CancelReader, HandsStay, ReadersKeep, WritersCarryOn
<1>3. CASE CancelWriter /\ UNCHANGED reader
  BY ONLY <1>a, <1>3
     DEF WriterRecords, CancelWriter, HandsStay, ReadersKeep, WritersCarryOn
<1>4. CASE CancelAll
  BY ONLY <1>a, <1>4
     DEF ReaderRecords, WriterRecords, CancelAll, HandsStay, ReadersKeep, WritersCarryOn
<1>5. CASE NewChannel /\ UNCHANGED writer
  BY ONLY <1>a, <1>5
     DEF ReaderRecords, NewChannel, HandsStay, ReadersKeep, WritersCarryOn
<1>6. ASSUME NEW h \in Gens, Launchable(h) /\ StoreReader(h) /\ UNCHANGED reader
      PROVE  HandsStay /\ ReadersKeep /\ WritersCarryOn
  <2>1. /\ writer[h].pc = "none" /\ writer'[h].pc = "start"
        /\ writer'[h].channel = writer[h].channel
        /\ \A g \in Gens : g # h => writer'[g] = writer[g]
    BY ONLY <1>a, <1>6 DEF StoreReader, Launchable, WriterRecords
  <2>2. HandsStay /\ WritersCarryOn
    BY ONLY <2>1 DEF HandsStay, WritersCarryOn, Busy
  <2>3. ReadersKeep
    BY ONLY <1>6 DEF ReadersKeep
  <2> QED
    BY ONLY <2>2, <2>3
<1> QED
  BY ONLY WorkersMove, <1>1, <1>2, <1>3, <1>4, <1>5, <1>6 DEF WorkersMove

\* connect, disconnect, close and the reconnection touch no handle; a
\* disconnect may take one command out of a queue.
LEMMA OutsideStep ==
  ASSUME TypeInv, LaunchInv,
         \/ \E k \in Callers : Call(k) \/ CallerStep(k)
         \/ CloserStep
         \/ ReconnectStep
  PROVE  /\ UNCHANGED <<pending, timer, sender, result, attempts, accepted, wire>>
         /\ HandsStay /\ ReadersKeep /\ WritersCarryOn
         /\ BufsStay \/ Forget
<1>a. /\ ChannelType /\ commands \in 0..MaxGen /\ gen \in 0..MaxGen
      /\ 1..gen \subseteq Gens
  BY SessionAssumption DEF TypeInv, TypeOK, SharedType, BoundType, Gens
<1>1. ASSUME NEW k \in Callers, Call(k) \/ CallerStep(k)
      PROVE  /\ UNCHANGED <<pending, timer, sender, result, attempts, accepted, wire>>
             /\ WorkersMove
             /\ BufsStay \/ Forget
  <2>a. caller[k] = "reader" => own[k] \in Gens /\ Launchable(own[k])
    BY ONLY <1>a, LaunchInv, k \in Callers DEF LaunchInv, Launchable
  <2> USE <1>1 DEF Call, CallerStep, Connect, ConnectBegin, ConnectOpen,
        ConnectChannel, ConnectReader, ConnectWriter, ConnectDone, ConnectFail,
        ConnectFailCas, Disconnect, DisconnectBegin, DisconnectCancel,
        DisconnectForget, DisconnectClosePort, DisconnectDone, Close
  <2>1. UNCHANGED <<pending, timer, sender, result, attempts, accepted, wire>>
    BY DEF CallerFrame, handles
  <2>2. WorkersMove
    BY <2>a DEF jobs, workers, WorkersMove, Goto
  <2>3. UNCHANGED channel \/ Forget
    OBVIOUS
  <2> QED
    BY ONLY <2>1, <2>2, <2>3 DEF BufsStay
<1>2. CASE CloserStep
  <2> USE <1>2 DEF CloserStep, CloserCancel, CloserClosePort, CloserCloseChannel,
        CloserClosed, CloserCancelScope
  <2>1. UNCHANGED <<pending, timer, sender, result, attempts, accepted, wire>>
    BY DEF handles
  <2>2. WorkersMove
    BY DEF WorkersMove, CancelAll, workers
  <2>3. UNCHANGED channel \/ channel' = [channel EXCEPT ![commands].closed = TRUE]
    OBVIOUS
  <2>4. BufsStay
    BY ONLY <1>a, <2>3, ChannelExcept DEF BufsStay
  <2> QED
    BY ONLY TypeInv, <2>1, <2>2, <2>4, MoveStays
<1>3. CASE ReconnectStep
  <2>a. reconnector.pc = "reader" => reconnector.own \in Gens /\ Launchable(reconnector.own)
    BY ONLY <1>a, LaunchInv DEF LaunchInv, Launchable
  <2> USE <1>3 DEF ReconnectStep, ReconnectCancelled, ReconnectCancel,
        ReconnectClosePort, ReconnectLoop, ReconnectBegin, ReconnectOpen,
        ReconnectChannel, ReconnectReader, ReconnectWriter, ReconnectDone,
        ReconnectFinally
  <2>1. UNCHANGED <<pending, timer, sender, result, attempts, accepted, wire, channel>>
    BY DEF handles, queue
  <2>2. WorkersMove
    BY <2>a DEF workers, WorkersMove, Pass
  <2> QED
    BY ONLY TypeInv, <2>1, <2>2, MoveStays DEF BufsStay
<1> QED
  BY ONLY TypeInv, <1>1, <1>2, <1>3, MoveStays,
     \/ \E k \in Callers : Call(k) \/ CallerStep(k)
     \/ CloserStep
     \/ ReconnectStep

-----------------------------------------------------------------------------
(* A writer is launched once                                               *)

\* A step that launches no writer, creates no generation and brings nobody to a
\* launch.
LEMMA LaunchKept ==
  ASSUME LaunchInv, UNCHANGED gen,
         \A g \in Gens : writer[g].pc = "none" => writer'[g].pc = "none",
         1..gen \subseteq Gens,
         \A k \in Callers : caller'[k] = "reader" => caller[k] = "reader" /\ own'[k] = own[k],
         reconnector'.pc = "reader" =>
             reconnector.pc = "reader" /\ reconnector'.own = reconnector.own
  PROVE  LaunchInv'
BY DEF LaunchInv, Launchable

\* connect and disconnect: the generation that a connect creates is its own.
LEMMA CallerLaunch ==
  ASSUME TypeInv, LaunchInv, NEW k \in Callers, Call(k) \/ CallerStep(k)
  PROVE  LaunchInv'
<1>a. /\ gen \in 0..MaxGen /\ MaxGen \in Nat /\ own \in [Callers -> 0..MaxGen]
      /\ caller \in [Callers -> CallerPcs]
      /\ reader \in [Gens -> ReaderRecords] /\ writer \in [Gens -> WriterRecords]
      /\ 1..gen \subseteq Gens
  BY SessionAssumption
     DEF TypeInv, TypeOK, BoundType, CoroutineType, WorkerType, Gens
<1>1. CASE ConnectChannel(k)
  <2>1. /\ gen' = gen + 1 /\ gen + 1 \in Gens /\ UNCHANGED <<writer, reconnector>>
        /\ caller' = [caller EXCEPT ![k] = "reader"]
        /\ own' = [own EXCEPT ![k] = gen + 1]
    BY ONLY <1>a, <1>1 DEF ConnectChannel, NewChannel, Goto, Gens
  <2>2. /\ own'[k] = gen + 1
        /\ \A l \in Callers : l # k => own'[l] = own[l] /\ caller'[l] = caller[l]
    BY ONLY <1>a, <2>1, k \in Callers
  <2>3. \A g : Launchable(g) => Launchable(g)' /\ g # gen + 1
    BY ONLY <1>a, <2>1 DEF Launchable
  <2>4. \A g : g = gen + 1 => Launchable(g)'
    <3>1. gen + 1 > gen /\ gen + 1 \in 1..gen'
      BY ONLY <1>a, <2>1
    <3>2. writer'[gen + 1].pc = "none"
      BY ONLY <2>1, <3>1, LaunchInv DEF LaunchInv
    <3> QED
      BY ONLY <3>1, <3>2 DEF Launchable
  <2>5. \A g \in Gens : g > gen' => writer'[g].pc = "none"
    <3>1. \A g \in Gens : g > gen + 1 => g > gen
      BY ONLY <1>a DEF Gens
    <3> QED
      BY ONLY <2>1, <3>1, LaunchInv DEF LaunchInv
  <2> QED
    BY ONLY <2>1, <2>2, <2>3, <2>4, <2>5, LaunchInv, k \in Callers DEF LaunchInv
<1>2. CASE ConnectReader(k)
  <2>1. /\ caller[k] = "reader" /\ UNCHANGED <<gen, own, reconnector>>
        /\ caller' = [caller EXCEPT ![k] = "writer"]
        /\ writer' = [writer EXCEPT ![own[k]].pc = "start",
                                    ![own[k]].cancelled = ~scopeActive]
    BY ONLY <1>2 DEF ConnectReader, StoreReader, Goto
  <2>2. /\ caller'[k] = "writer"
        /\ \A l \in Callers : l # k => caller'[l] = caller[l]
        /\ \A g \in Gens : g # own[k] => writer'[g] = writer[g]
    BY ONLY <1>a, <2>1, k \in Callers
  <2>3. \A g : Launchable(g) /\ g # own[k] => Launchable(g)'
    BY ONLY <1>a, <2>1, <2>2 DEF Launchable
  <2>4. Launchable(own[k])
    BY ONLY <2>1, LaunchInv, k \in Callers DEF LaunchInv
  <2>5. \A g \in Gens : g > gen' => writer'[g].pc = "none"
    BY ONLY <1>a, <2>1, <2>2, <2>4, LaunchInv DEF LaunchInv, Launchable, Gens
  <2>6. \A l \in Callers : caller'[l] = "reader" =>
          l # k /\ caller[l] = "reader" /\ own'[l] = own[l] /\ own[l] # own[k]
    BY ONLY <2>1, <2>2, LaunchInv, k \in Callers DEF LaunchInv
  <2>7. \A l \in Callers : caller'[l] = "reader" => Launchable(own[l])'
    BY ONLY <2>3, <2>6, LaunchInv DEF LaunchInv
  <2>8. reconnector'.pc = "reader" => Launchable(reconnector.own)'
    BY ONLY <2>1, <2>3, LaunchInv, k \in Callers DEF LaunchInv
  <2>9. \A l \in Callers : caller'[l] = "reader" /\ reconnector'.pc = "reader" =>
          own'[l] # reconnector'.own
    BY ONLY <2>1, <2>6, LaunchInv DEF LaunchInv
  <2>10. \A l, m \in Callers :
           caller'[l] = "reader" /\ caller'[m] = "reader" /\ own'[l] = own'[m] => l = m
    BY ONLY <2>6, LaunchInv DEF LaunchInv
  <2> QED
    BY ONLY <2>5, <2>7, <2>8, <2>9, <2>10 DEF LaunchInv
<1>3. CASE ~ConnectChannel(k) /\ ~ConnectReader(k)
  <2> USE <1>3 DEF Call, CallerStep, Connect, ConnectBegin, ConnectOpen,
        ConnectWriter, ConnectDone, ConnectFail, ConnectFailCas, Disconnect,
        DisconnectBegin, DisconnectCancel, DisconnectForget, DisconnectClosePort,
        DisconnectDone, Close
  <2>1. UNCHANGED gen
    OBVIOUS
  <2>2. UNCHANGED writer \/ CancelWriter
    BY DEF jobs, workers
  <2>3. \A g \in Gens : writer[g].pc = "none" => writer'[g].pc = "none"
    BY ONLY <1>a, <2>2 DEF CancelWriter, WriterRecords
  <2>4. /\ \A l \in Callers : l # k => caller'[l] = caller[l] /\ own'[l] = own[l]
        /\ caller'[k] # "reader" \/ UNCHANGED <<caller, own>>
    <3>1. \/ UNCHANGED <<caller, own>>
          \/ /\ \E to \in CallerPcs \ {"reader"} : caller' = [caller EXCEPT ![k] = to]
             /\ UNCHANGED own \/ own' = [own EXCEPT ![k] = 0]
      BY DEF Goto, CallerPcs
    <3> QED
      BY ONLY <1>a, <3>1, k \in Callers
  <2>5. UNCHANGED reconnector \/ FailReconnect
    BY DEF jobs
  <2>6. reconnector'.pc = "reader" =>
            reconnector.pc = "reader" /\ reconnector'.own = reconnector.own
    BY ONLY <2>5 DEF FailReconnect
  <2> QED
    BY ONLY <1>a, <2>1, <2>3, <2>4, <2>6, LaunchInv, k \in Callers, LaunchKept
<1> QED
  BY ONLY <1>1, <1>2, <1>3

\* The reconnection: the generation that it creates is its own.
LEMMA ReconnectLaunch ==
  ASSUME TypeInv, LaunchInv, ReconnectStep
  PROVE  LaunchInv'
<1>a. /\ gen \in 0..MaxGen /\ MaxGen \in Nat
      /\ reconnector \in [pc : ReconnectPcs, attempt : Nat, own : 0..MaxGen]
      /\ reader \in [Gens -> ReaderRecords] /\ writer \in [Gens -> WriterRecords]
      /\ 1..gen \subseteq Gens
  BY SessionAssumption
     DEF TypeInv, TypeOK, BoundType, CoroutineType, WorkerType, Gens
<1>b. UNCHANGED <<caller, own>>
  BY DEF ReconnectStep, ReconnectCancelled, ReconnectCancel, ReconnectClosePort,
     ReconnectLoop, ReconnectBegin, ReconnectOpen, ReconnectChannel,
     ReconnectReader, ReconnectWriter, ReconnectDone, ReconnectFinally
<1>1. CASE ReconnectChannel
  <2>1. /\ gen' = gen + 1 /\ gen + 1 \in Gens /\ UNCHANGED writer
        /\ reconnector'.pc = "reader" /\ reconnector'.own = gen + 1
    BY ONLY <1>a, <1>1 DEF ReconnectChannel, NewChannel, Gens
  <2>2. \A g : Launchable(g) => Launchable(g)' /\ g # gen + 1
    BY ONLY <1>a, <2>1 DEF Launchable
  <2>3. \A g : g = gen + 1 => Launchable(g)'
    <3>1. gen + 1 > gen /\ gen + 1 \in 1..gen'
      BY ONLY <1>a, <2>1
    <3>2. writer'[gen + 1].pc = "none"
      BY ONLY <2>1, <3>1, LaunchInv DEF LaunchInv
    <3> QED
      BY ONLY <3>1, <3>2 DEF Launchable
  <2>4. \A g \in Gens : g > gen' => writer'[g].pc = "none"
    <3>1. \A g \in Gens : g > gen + 1 => g > gen
      BY ONLY <1>a DEF Gens
    <3> QED
      BY ONLY <2>1, <3>1, LaunchInv DEF LaunchInv
  <2> QED
    BY ONLY <1>b, <2>1, <2>2, <2>3, <2>4, LaunchInv DEF LaunchInv
<1>2. CASE ReconnectReader
  <2> DEFINE h == reconnector.own
  <2>1. /\ reconnector.pc = "reader" /\ reconnector'.pc = "writer" /\ UNCHANGED gen
        /\ writer' = [writer EXCEPT ![h].pc = "start", ![h].cancelled = ~scopeActive]
    BY ONLY <1>a, <1>2 DEF ReconnectReader, StoreReader, Pass
  <2>2. \A g \in Gens : g # h => writer'[g] = writer[g]
    BY ONLY <1>a, <2>1
  <2>3. \A g : Launchable(g) /\ g # h => Launchable(g)'
    BY ONLY <1>a, <2>1, <2>2 DEF Launchable
  <2>4. Launchable(h)
    BY ONLY <2>1, LaunchInv DEF LaunchInv
  <2>5. \A g \in Gens : g > gen' => writer'[g].pc = "none"
    BY ONLY <1>a, <2>1, <2>2, <2>4, LaunchInv DEF LaunchInv, Launchable, Gens
  <2> QED
    BY ONLY <1>b, <2>1, <2>3, <2>5, LaunchInv DEF LaunchInv
<1>3. CASE ~ReconnectChannel /\ ~ReconnectReader
  <2> USE <1>3 DEF ReconnectStep, ReconnectCancelled, ReconnectCancel,
        ReconnectClosePort, ReconnectLoop, ReconnectBegin, ReconnectOpen,
        ReconnectWriter, ReconnectDone, ReconnectFinally
  <2>1. UNCHANGED gen /\ (UNCHANGED writer \/ CancelWriter)
    BY DEF workers
  <2>2. \A g \in Gens : writer[g].pc = "none" => writer'[g].pc = "none"
    BY ONLY <1>a, <2>1 DEF CancelWriter, WriterRecords
  <2>3. reconnector'.pc # "reader"
    <3>1. \/ \E pc \in ReconnectPcs \ {"reader"} :
                reconnector' = [reconnector EXCEPT !.pc = pc]
          \/ reconnector' = [reconnector EXCEPT !.pc = "loop", !.attempt = @ + 1]
          \/ reconnector' = [reconnector EXCEPT !.pc = "connected", !.own = 0]
      BY DEF Pass, ReconnectPcs
    <3> QED
      BY ONLY <1>a, <3>1
  <2> QED
    BY ONLY <1>a, <1>b, <2>1, <2>2, <2>3, LaunchInv, LaunchKept
<1> QED
  BY ONLY <1>1, <1>2, <1>3

\* The other coroutines launch no writer.
LEMMA OtherLaunch ==
  ASSUME TypeInv, LaunchInv,
         \/ \E c \in Commands : Submit(c) \/ SenderStep(c) \/ TimerStep(c)
         \/ \E g \in Gens : ReaderStep(g) \/ ReaderInput(g)
         \/ \E g \in Gens : WriterStep(g) \/ WriterOutput(g) \/ WriterTimeout(g)
         \/ CloserStep
         \/ UNCHANGED vars
  PROVE  LaunchInv'
<1>a. writer \in [Gens -> WriterRecords] /\ 1..gen \subseteq Gens
  BY SessionAssumption DEF TypeInv, TypeOK, BoundType, WorkerType, Gens
<1>1. /\ UNCHANGED <<gen, caller, own>>
      /\ \A g \in Gens : writer[g].pc = "none" => writer'[g].pc = "none"
      /\ UNCHANGED reconnector \/ FailReconnect
  <2>1. CASE \E c \in Commands : Submit(c) \/ SenderStep(c) \/ TimerStep(c)
    BY ONLY <2>1 DEF Submit, SenderStep, SenderFrame, TimerStep, coroutines, jobs,
       workers, bounds
  <2>2. CASE \E g \in Gens : ReaderStep(g) \/ ReaderInput(g)
    <3>1. UNCHANGED <<gen, caller, own, writer>>
      BY <2>2 DEF ReaderStep, ReaderInput, ReaderFrame
    <3>2. UNCHANGED reconnector \/ FailReconnect
      BY <2>2 DEF ReaderStep, ReaderInput, ReaderCancelled, ReaderStart, ReaderCall,
         ReaderData, ReaderRespond, ReaderClear, ReaderThrows, ReaderFail, ReaderFailCas
    <3> QED
      BY ONLY <3>1, <3>2
  <2>3. ASSUME NEW g \in Gens, WriterStep(g) \/ WriterOutput(g) \/ WriterTimeout(g)
        PROVE  <1>1
    <3> USE <2>3 DEF WriterStep, WriterOutput, WriterTimeout, WriterCancelled,
          WriterStart, WriterReceive, WriterAttempt, WriterWritten, WriterTimedOut,
          WriterThrows, WriterReport, WriterFailCas, WriterSettle
    <3>1. UNCHANGED <<gen, caller, own>>
      BY DEF WriterFrame
    <3>2. writer[g].pc # "none" /\ \A h \in Gens : h # g => writer'[h] = writer[h]
      BY <1>a DEF WriteGoto
    <3>3. UNCHANGED reconnector \/ FailReconnect
      OBVIOUS
    <3> QED
      BY ONLY <3>1, <3>2, <3>3
  <2>4. CASE CloserStep
    <3>1. UNCHANGED <<gen, caller, own, reconnector>>
      BY <2>4 DEF CloserStep, bounds
    <3>2. UNCHANGED writer \/ CancelWriter
          \/ writer' = [g \in Gens |-> [writer[g] EXCEPT !.cancelled = TRUE]]
      BY <2>4 DEF CloserStep, CloserCancel, CloserClosePort, CloserCloseChannel,
         CloserClosed, CloserCancelScope, workers
    <3>3. \A g \in Gens : writer[g].pc = "none" => writer'[g].pc = "none"
      BY ONLY <1>a, <3>2 DEF CancelWriter, WriterRecords
    <3> QED
      BY ONLY <3>1, <3>3
  <2>5. CASE UNCHANGED vars
    BY ONLY <2>5 DEF vars, coroutines, jobs, workers, bounds
  <2> QED
    BY ONLY <2>1, <2>2, <2>3, <2>4, <2>5,
       \/ \E c \in Commands : Submit(c) \/ SenderStep(c) \/ TimerStep(c)
       \/ \E g \in Gens : ReaderStep(g) \/ ReaderInput(g)
       \/ \E g \in Gens : WriterStep(g) \/ WriterOutput(g) \/ WriterTimeout(g)
       \/ CloserStep
       \/ UNCHANGED vars
<1>2. reconnector'.pc = "reader" =>
          reconnector.pc = "reader" /\ reconnector'.own = reconnector.own
  BY ONLY <1>1 DEF FailReconnect
<1> QED
  BY ONLY <1>a, <1>1, <1>2, LaunchInv, LaunchKept

\* LaunchInv is inductive.
LEMMA NextLaunch == TypeInv /\ LaunchInv /\ [Next]_vars => LaunchInv'
BY CallerLaunch, ReconnectLaunch, OtherLaunch DEF Next

-----------------------------------------------------------------------------
(* What a handle reports is what the device saw                            *)

\* What has gone out stays out.
LEMMA AppendRange ==
  ASSUME NEW S, NEW s \in Seq(S), NEW x \in S
  PROVE  /\ x \in RangeOf(Append(s, x))
         /\ \A y \in RangeOf(s) : y \in RangeOf(Append(s, x))
<1>1. /\ Len(s) \in Nat /\ Len(Append(s, x)) = Len(s) + 1
      /\ Append(s, x)[Len(s) + 1] = x
      /\ \A i \in 1..Len(s) : Append(s, x)[i] = s[i]
  OBVIOUS
<1>2. x \in RangeOf(Append(s, x))
  BY <1>1 DEF RangeOf
<1>3. ASSUME NEW i \in 1..Len(s) PROVE s[i] \in RangeOf(Append(s, x))
  BY <1>1 DEF RangeOf
<1> QED
  BY <1>2, <1>3 DEF RangeOf

\* A step that leaves the hands of the writers and the wire alone, starts no
\* wait and reports nothing but a refusal, a timeout or an awaited answer.
LEMMA HonestKept ==
  ASSUME HandleInv, HandsStay, AnswersKeep, UNCHANGED <<wire, attempts>>,
         \A c \in Commands : timer[c] # "off" => timer'[c] # "off",
         \A c \in Commands :
             \/ result'[c] = result[c]
             \/ result'[c] \in Refusals /\ attempts[c] = 0
             \/ result'[c] = "Response" /\ Answerable(c)
             \/ result'[c] = "TimedOut"
  PROVE  HonestInv'
<1>1. ReportIsHonest'
  BY ONLY HandleInv, HandsStay, UNCHANGED wire
     DEF HandleInv, HonestInv, ReportIsHonest, HandsStay, Busy
<1>2. AwaitedIsDelivered'
  BY DEF HandleInv, HonestInv, AwaitedIsDelivered, AnswersKeep
<1>3. ResultIsHonest'
  BY DEF HandleInv, HonestInv, ResultIsHonest, AwaitedIsDelivered, Refusals
<1> QED
  BY <1>1, <1>2, <1>3 DEF HonestInv

\* connect, disconnect, close and the reconnection report nothing.
LEMMA OutsideHonest ==
  ASSUME TypeInv, HandleInv,
         \/ \E k \in Callers : Call(k) \/ CallerStep(k)
         \/ CloserStep
         \/ ReconnectStep
  PROVE  HonestInv'
<1>1. /\ UNCHANGED <<pending, timer, sender, result, attempts, wire>>
      /\ HandsStay /\ ReadersKeep
  BY OutsideStep DEF HandleInv
<1>2. AnswersKeep
  BY ONLY <1>1 DEF AnswersKeep, Answerable, ReadersKeep
<1> QED
  BY ONLY HandleInv, <1>1, <1>2, HonestKept

\* send only refuses a command that was never tried.
LEMMA SenderHonest ==
  ASSUME TypeInv, PlaceInv, HandleInv, NEW c \in Commands, Submit(c) \/ SenderStep(c)
  PROVE  HonestInv'
<1> USE DEF Submit, SenderStep, Send, SendOffer, SendDropOldest, SendOfferAgain
<1>a. result \in [Commands -> Results] /\ sender[c] # "done"
  BY DEF TypeInv, TypeOK, HandleType, Turn
<1>b. UNCHANGED <<writer, reader, pending, timer, gen, attempts, wire>>
  BY DEF SenderFrame, shared, coroutines, jobs, workers, bounds
<1>1. UNCHANGED result \/ \E r \in Refusals : Complete(c, r)
  BY DEF Accept, Refusals
<1>2. attempts[c] = 0
  BY ONLY PlaceInv, <1>a, c \in Commands DEF PlaceInv, UnsentIsFresh
<1>3. \A d \in Commands : \/ result'[d] = result[d]
                          \/ result'[d] \in Refusals /\ attempts[d] = 0
  BY ONLY <1>a, <1>1, <1>2 DEF Complete
<1>4. HandsStay /\ AnswersKeep
  BY ONLY <1>b DEF HandsStay, AnswersKeep, Answerable
<1> QED
  BY ONLY HandleInv, <1>b, <1>3, <1>4, HonestKept

\* A reader step starts no wait.
LEMMA ReaderAnswers ==
  ASSUME TypeInv, NEW g \in Gens, ReaderStep(g) \/ ReaderInput(g)
  PROVE  AnswersKeep
<1> USE DEF ReaderStep, ReaderInput, ReaderCancelled, ReaderStart, ReaderCall,
      ReaderData, ReaderRespond, ReaderClear, ReaderThrows, ReaderFail, ReaderFailCas
<1>a. reader \in [Gens -> ReaderRecords]
  BY DEF TypeInv, TypeOK, WorkerType
<1>b. UNCHANGED timer
  BY DEF ReaderFrame
<1>1. pending' \in {pending, NoCommand}
  OBVIOUS
<1>2. /\ \A h \in Gens : h # g => reader'[h] = reader[h]
      /\ reader'[g].pc \in {"match", "clear"} =>
            \/ reader'[g].waiting = pending
            \/ /\ reader[g].pc \in {"match", "clear"}
               /\ reader'[g].waiting = reader[g].waiting
  BY <1>a DEF ReadGoto, ReaderRecords
<1> QED
  BY ONLY <1>b, <1>1, <1>2, SessionAssumption DEF AnswersKeep, Answerable

\* A reader only answers a command that awaits its response.
LEMMA ReaderHonest ==
  ASSUME TypeInv, HandleInv, NEW g \in Gens, ReaderStep(g) \/ ReaderInput(g)
  PROVE  HonestInv'
<1> USE DEF ReaderStep, ReaderInput, ReaderCancelled, ReaderStart, ReaderCall,
      ReaderData, ReaderRespond, ReaderClear, ReaderThrows, ReaderFail, ReaderFailCas
<1>a. result \in [Commands -> Results]
  BY DEF TypeInv, TypeOK, HandleType
<1>b. UNCHANGED <<writer, timer, gen, attempts, wire>>
  BY DEF ReaderFrame
<1>1. \/ UNCHANGED result
      \/ reader[g].pc = "match" /\ Complete(reader[g].waiting, "Response")
  BY DEF ReadGoto
<1>2. \A d \in Commands : \/ result'[d] = result[d]
                          \/ result'[d] = "Response" /\ Answerable(d)
  BY ONLY <1>a, <1>1, g \in Gens DEF Complete, Answerable
<1>3. HandsStay
  BY ONLY <1>b DEF HandsStay
<1> QED
  BY ONLY HandleInv, TypeInv, ReaderStep(g) \/ ReaderInput(g), g \in Gens, <1>b, <1>2,
          <1>3, ReaderAnswers, HonestKept

\* A timer only reports a timeout.
LEMMA TimerHonest ==
  ASSUME TypeInv, HandleInv, NEW c \in Commands, TimerStep(c)
  PROVE  HonestInv'
<1> USE DEF TimerStep, TimerCancelled, TimerExpires, TimerClear, TimerComplete
<1>a. timer \in [Commands -> TimerPcs] /\ result \in [Commands -> Results]
  BY DEF TypeInv, TypeOK, CoroutineType, HandleType
<1>b. UNCHANGED <<reader, writer, gen, attempts, wire>>
  BY DEF jobs, workers, bounds
<1>1. timer[c] # "off" /\ timer'[c] # "off" /\ pending' \in {pending, NoCommand}
      /\ \A d \in Commands : d # c => timer'[d] = timer[d]
  BY <1>a DEF Tick
<1>2. AnswersKeep
  BY ONLY <1>b, <1>1, SessionAssumption DEF AnswersKeep, Answerable
<1>3. \A d \in Commands : result'[d] = result[d] \/ result'[d] = "TimedOut"
  BY <1>a DEF Complete
<1>4. HandsStay /\ \A d \in Commands : timer[d] # "off" => timer'[d] # "off"
  BY ONLY <1>b, <1>1 DEF HandsStay
<1> QED
  BY ONLY HandleInv, <1>b, <1>2, <1>3, <1>4, HonestKept

\* The hands of writer g after each of its steps that leaves it busy: it has just
\* taken a command, begun an attempt, or got the outcome of one.
LEMMA WriterOutcome ==
  ASSUME TypeInv, HandleInv, NEW g \in Gens,
         WriterStep(g) \/ WriterOutput(g) \/ WriterTimeout(g)
  PROVE  /\ \A h \in Gens : h # g => writer'[h] = writer[h]
         /\ writer[g].pc # "none"
         /\ writer'[g].pc \in Busy \ {"attempt"} => writer'[g].attempt > 0
         /\ writer'[g].pc \in {"report", "failCas", "settle"} =>
                /\ writer'[g].outcome \in {"Sent", "TimedOut", "WriteFailed"}
                /\ writer'[g].outcome = "Sent" => writer'[g].cmd \in RangeOf(wire')
<1> DEFINE w == writer[g]
           v == writer'[g]
           P == /\ \A h \in Gens : h # g => writer'[h] = writer[h]
                /\ w.pc # "none"
                /\ v.pc \in Busy \ {"attempt"} => v.attempt > 0
                /\ v.pc \in {"report", "failCas", "settle"} =>
                       /\ v.outcome \in {"Sent", "TimedOut", "WriteFailed"}
                       /\ v.outcome = "Sent" => v.cmd \in RangeOf(wire')
<1>a. /\ writer \in [Gens -> WriterRecords] /\ wire \in Seq(Commands)
      /\ w.pc \in Busy => w.cmd \in Commands
  BY DEF TypeInv, TypeOK, WorkerType, HandleType, BusyHasCommand
<1>b. /\ w.pc \in Busy \ {"attempt"} => w.attempt > 0
      /\ w.pc \in {"report", "failCas", "settle"} =>
             /\ w.outcome \in {"Sent", "TimedOut", "WriteFailed"}
             /\ w.outcome = "Sent" => w.cmd \in RangeOf(wire)
  BY DEF HandleInv, HonestInv, ReportIsHonest
<1>1. CASE WriterCancelled(g) \/ WriterStart(g) \/ WriterReceive(g) \/ WriterSettle(g)
  <2>1. /\ \A h \in Gens : h # g => writer'[h] = writer[h]
        /\ w.pc # "none" /\ v.pc \notin Busy \ {"attempt"}
    <3>1. CASE WriterCancelled(g)
      BY ONLY <1>a, <3>1, g \in Gens DEF WriterCancelled, WriteGoto, WriterRecords, Busy
    <3>2. CASE WriterStart(g)
      BY ONLY <1>a, <3>2, g \in Gens DEF WriterStart, WriteGoto, WriterRecords, Busy
    <3>3. CASE WriterReceive(g)
      BY ONLY <1>a, <3>3, g \in Gens DEF WriterReceive, WriteGoto, WriterRecords, Busy
    <3>4. CASE WriterSettle(g)
      BY ONLY <1>a, <3>4, g \in Gens DEF WriterSettle, WriteGoto, WriterRecords, Busy
    <3> QED
      BY ONLY <1>1, <3>1, <3>2, <3>3, <3>4
  <2> QED
    BY ONLY <2>1 DEF Busy
<1>2. CASE WriterAttempt(g)
  BY ONLY <1>a, <1>2, g \in Gens DEF WriterAttempt, WriterRecords
<1>3. CASE WriterWritten(g)
  <2>1. /\ w.cmd \in Commands /\ w.attempt > 0
        /\ wire' = Append(wire, w.cmd) /\ w.pc = "writing"
    BY ONLY <1>a, <1>b, <1>3 DEF WriterWritten, Deliver, Busy
  <2>2. w.cmd \in RangeOf(wire')
    BY ONLY <1>a, <2>1, AppendRange
  <2>3. /\ v.pc \in {"end", "attempt", "report"} /\ v.attempt = w.attempt
        /\ v.cmd = w.cmd
        /\ v.pc = "report" => v.outcome = "Sent"
        /\ \A h \in Gens : h # g => writer'[h] = writer[h]
    BY ONLY <1>a, <1>3, g \in Gens DEF WriterWritten, AfterAttempt, WriterRecords
  <2> QED
    BY ONLY <2>1, <2>2, <2>3 DEF Busy
<1>4. CASE WriterTimedOut(g) \/ WriterThrows(g)
  <2>1. w.pc = "writing" /\ w.attempt > 0
    BY ONLY <1>b, <1>4 DEF WriterTimedOut, WriterThrows, Busy
  <2>2. ASSUME NEW outcome, writer' = [writer EXCEPT ![g] = AfterAttempt(g, outcome)]
        PROVE  /\ v.pc \in {"attempt", "report"} /\ v.attempt = w.attempt
               /\ v.outcome = outcome
               /\ \A h \in Gens : h # g => writer'[h] = writer[h]
    BY ONLY <1>a, <2>2, g \in Gens DEF AfterAttempt, WriterRecords
  <2>3. \E outcome \in {"TimedOut", "WriteFailed"} :
            writer' = [writer EXCEPT ![g] = AfterAttempt(g, outcome)]
    BY ONLY <1>4 DEF WriterTimedOut, WriterThrows
  <2> QED
    BY ONLY <2>1, <2>2, <2>3
<1>5. CASE WriterReport(g) \/ WriterFailCas(g)
  <2>1. /\ w.pc \in {"report", "failCas"} /\ v.attempt = w.attempt
        /\ v.outcome = w.outcome /\ v.cmd = w.cmd /\ UNCHANGED wire
        /\ \A h \in Gens : h # g => writer'[h] = writer[h]
    BY ONLY <1>a, <1>5, g \in Gens
       DEF WriterReport, WriterFailCas, WriteGoto, WriterRecords
  <2> QED
    BY ONLY <1>b, <2>1 DEF Busy
<1> QED
  BY ONLY WriterStep(g) \/ WriterOutput(g) \/ WriterTimeout(g), <1>1, <1>2, <1>3, <1>4,
          <1>5 DEF WriterStep, WriterOutput, WriterTimeout

\* The writers report what they did.
LEMMA WriterHonest ==
  ASSUME TypeInv, PlaceInv, HandleInv, NEW g \in Gens,
         WriterStep(g) \/ WriterOutput(g) \/ WriterTimeout(g)
  PROVE  HonestInv'
<1> USE DEF WriterStep, WriterOutput, WriterTimeout, WriterCancelled, WriterStart,
      WriterReceive, WriterAttempt, WriterWritten, WriterTimedOut, WriterThrows,
      WriterReport, WriterFailCas, WriterSettle
<1> DEFINE c == writer[g].cmd
<1>a. /\ writer[g].pc \in Busy => c \in Commands
      /\ wire \in Seq(Commands) /\ result \in [Commands -> Results]
      /\ attempts \in [Commands -> Nat] /\ timer \in [Commands -> TimerPcs]
  BY DEF TypeInv, TypeOK, HandleType, CoroutineType, BusyHasCommand
<1>b. UNCHANGED <<reader, gen>>
  BY DEF WriterFrame
<1>1. /\ \A h \in Gens : h # g => writer'[h] = writer[h]
      /\ writer[g].pc # "none"
      /\ writer'[g].pc \in Busy \ {"attempt"} => writer'[g].attempt > 0
      /\ writer'[g].pc \in {"report", "failCas", "settle"} =>
             /\ writer'[g].outcome \in {"Sent", "TimedOut", "WriteFailed"}
             /\ writer'[g].outcome = "Sent" => writer'[g].cmd \in RangeOf(wire')
  BY ONLY TypeInv, HandleInv, g \in Gens, WriterOutcome,
          WriterStep(g) \/ WriterOutput(g) \/ WriterTimeout(g)
<1>2. \A d \in RangeOf(wire) : d \in RangeOf(wire')
  <2>1. UNCHANGED wire \/ (writer[g].pc = "writing" /\ wire' = Append(wire, c))
    BY DEF Deliver
  <2> QED
    BY ONLY <1>a, <2>1, AppendRange DEF Busy
<1>3. ReportIsHonest'
  BY ONLY <1>1, <1>2, HandleInv DEF HandleInv, HonestInv, ReportIsHonest
<1>5. CASE ~WriterSettle(g)
  <2>1. UNCHANGED <<pending, timer, result>>
    BY <1>5
  <2>2. AwaitedIsDelivered'
    BY ONLY <1>b, <1>2, <2>1, HandleInv DEF HandleInv, HonestInv, AwaitedIsDelivered, Answerable
  <2>3. \A d \in Commands : attempts'[d] # attempts[d] => result[d] = "none"
    <3>1. \/ UNCHANGED attempts
          \/ writer[g].pc = "attempt" /\ attempts' = [attempts EXCEPT ![c] = @ + 1]
      OBVIOUS
    <3>2. writer[g].pc = "attempt" => c \in Commands /\ result[c] = "none"
      BY ONLY PlaceInv, <1>a, g \in Gens
         DEF PlaceInv, OnePlace, PlacedIsAccepted, Placed, Holds, Busy
    <3> QED
      BY ONLY <1>a, <3>1, <3>2
  <2>4. ResultIsHonest'
    BY ONLY <1>2, <2>1, <2>3, HandleInv DEF HandleInv, HonestInv, ResultIsHonest, Refusals
  <2> QED
    BY ONLY <1>3, <2>2, <2>4 DEF HonestInv
<1>6. CASE WriterSettle(g)
  <2>1. /\ c \in Commands /\ UNCHANGED <<attempts, wire>>
        /\ writer[g].outcome \in {"Sent", "TimedOut", "WriteFailed"}
        /\ writer[g].outcome = "Sent" => c \in RangeOf(wire)
    BY ONLY <1>6, <1>a, HandleInv, g \in Gens
       DEF WriterSettle, HandleInv, HonestInv, ReportIsHonest, Busy
  <2>2. CASE writer[g].outcome = "Sent" /\ c \in Matched
    <3>1. /\ pending' = c /\ UNCHANGED result /\ timer'[c] # "off"
          /\ \A d \in Commands : d # c => timer'[d] = timer[d]
      BY ONLY <1>6, <1>a, <2>1, <2>2 DEF WriterSettle
    <3>2. AwaitedIsDelivered'
      BY ONLY <1>b, <2>1, <2>2, <3>1, HandleInv
         DEF HandleInv, HonestInv, AwaitedIsDelivered, Answerable
    <3>3. ResultIsHonest'
      BY ONLY <2>1, <3>1, HandleInv DEF HandleInv, HonestInv, ResultIsHonest
    <3> QED
      BY ONLY <1>3, <3>2, <3>3 DEF HonestInv
  <2>3. CASE ~(writer[g].outcome = "Sent" /\ c \in Matched)
    <3>1. UNCHANGED <<pending, timer>> /\ Complete(c, writer[g].outcome)
      BY ONLY <1>6, <2>3 DEF WriterSettle
    <3>2. AwaitedIsDelivered'
      BY ONLY <1>b, <2>1, <3>1, HandleInv DEF HandleInv, HonestInv, AwaitedIsDelivered, Answerable
    <3>3. ResultIsHonest'
      BY ONLY <1>a, <2>1, <3>1, HandleInv DEF HandleInv, HonestInv, ResultIsHonest, Complete, Refusals
    <3> QED
      BY ONLY <1>3, <3>2, <3>3 DEF HonestInv
  <2> QED
    BY <2>2, <2>3
<1> QED
  BY <1>5, <1>6

\* The handles are honest at the start.
LEMMA InitHonest == Init => HandleInv
<1> SUFFICES ASSUME Init PROVE HandleInv
  OBVIOUS
<1> USE SessionAssumption DEF Init
<1>1. \A g \in Gens : writer[g].pc = "none" /\ reader[g].pc = "none"
  BY DEF Writer0, Reader0
<1>2. ReportIsHonest
  BY ONLY <1>1 DEF ReportIsHonest, Busy
<1>3. AwaitedIsDelivered
  BY <1>1 DEF AwaitedIsDelivered, Answerable
<1>4. ResultIsHonest
  BY DEF ResultIsHonest, Refusals
<1>5. LaunchInv
  BY <1>1 DEF LaunchInv
<1> QED
  BY ONLY <1>2, <1>3, <1>4, <1>5 DEF HandleInv, HonestInv

\* A stuttering step changes nothing the handles depend on.
LEMMA StutterHonest == HandleInv /\ UNCHANGED vars => HonestInv'
BY DEF vars, shared, coroutines, jobs, workers, handles, bounds, HandleInv, HonestInv,
       ReportIsHonest, AwaitedIsDelivered, ResultIsHonest, Answerable

\* Every step keeps the handles honest.
LEMMA NextHonest == TypeInv /\ PlaceInv /\ HandleInv /\ [Next]_vars => HandleInv'
<1>1. TypeInv /\ PlaceInv /\ HandleInv /\ [Next]_vars => HonestInv'
  BY OutsideHonest, SenderHonest, ReaderHonest, WriterHonest, TimerHonest,
     StutterHonest DEF Next
<1> QED
  BY <1>1, NextLaunch DEF HandleInv

\* The handles are honest throughout.
LEMMA SpecHonest == Spec => []HandleInv
<1> QED
  BY InitHonest, NextHonest, SpecTypeInv, SpecPlaceInv, PTL DEF Spec

\* Whatever the interleaving of callers, readers, writers, timers and
\* reconnections, a handle reports what the device saw: Sent or a response only
\* for a command that was delivered, a refusal only for one never tried, and a
\* response only with a matcher (send:61-77, startWorkers:116 and 152-160).
THEOREM SessionResultIsHonest == Spec => []ResultIsHonest
<1>1. HandleInv => ResultIsHonest
  BY DEF HandleInv, HonestInv
<1> QED
  BY <1>1, SpecHonest, PTL

-----------------------------------------------------------------------------
(* A command that waits has a timer                                        *)

\* The wait of a command is armed with its timer and ends with it; only close
\* ends timers otherwise.
LEMMA NextTimer ==
  ASSUME TypeInv, PendingHasTimer, [Next]_vars
  PROVE  PendingHasTimer'
<1>a. timer \in [Commands -> TimerPcs] /\ pending \in Commands \cup {NoCommand}
      /\ NoCommand \notin Commands
  BY SessionAssumption DEF TypeInv, TypeOK, CoroutineType, SharedType
<1>1. CASE \/ \E k \in Callers : Call(k) \/ CallerStep(k)
           \/ \E c \in Commands : Submit(c) \/ SenderStep(c)
           \/ ReconnectStep \/ UNCHANGED vars
  <2>1. UNCHANGED <<pending, timer, scopeActive>>
    BY <1>1 DEF Call, CallerStep, CallerFrame, Submit, SenderStep, SenderFrame,
       shared, coroutines, ReconnectStep, vars
  <2> QED
    BY ONLY <2>1, PendingHasTimer DEF PendingHasTimer
<1>2. CASE CloserStep
  <2>1. UNCHANGED <<pending, timer>> /\ (scopeActive' = FALSE \/ UNCHANGED scopeActive)
    BY ONLY <1>2 DEF CloserStep, CloserCancel, CloserClosePort, CloserCloseChannel,
       CloserClosed, CloserCancelScope
  <2>2. UNCHANGED <<pending, timer>>
    BY ONLY <2>1
  <2> QED
    BY ONLY <2>1, <2>2, PendingHasTimer DEF PendingHasTimer
<1>3. ASSUME NEW c \in Commands, TimerStep(c) PROVE PendingHasTimer'
  <2>1. /\ UNCHANGED scopeActive
        /\ \A d \in Commands : d # c => timer'[d] = timer[d]
        /\ \/ pending' = NoCommand
           \/ /\ UNCHANGED pending
              /\ pending = c => timer'[c] = "clear" \/ ~scopeActive
                                \/ timer[c] = "complete"
    BY ONLY <1>a, <1>3 DEF TimerStep, TimerCancelled, TimerExpires, TimerClear,
       TimerComplete, Tick
  <2> QED
    BY ONLY <1>a, <2>1, PendingHasTimer DEF PendingHasTimer
<1>4. ASSUME NEW g \in Gens, ReaderStep(g) \/ ReaderInput(g) PROVE PendingHasTimer'
  <2>1. pending' \in {pending, NoCommand} /\ UNCHANGED <<timer, scopeActive>>
    BY ONLY <1>4 DEF ReaderStep, ReaderInput, ReaderCancelled, ReaderStart,
       ReaderCall, ReaderData, ReaderRespond, ReaderClear, ReaderThrows, ReaderFail,
       ReaderFailCas, ReaderFrame
  <2> QED
    BY ONLY <1>a, <2>1, PendingHasTimer DEF PendingHasTimer
<1>5. ASSUME NEW g \in Gens, WriterStep(g) \/ WriterOutput(g) \/ WriterTimeout(g)
      PROVE  PendingHasTimer'
  <2> DEFINE c == writer[g].cmd
  <2>1. /\ UNCHANGED scopeActive
        /\ \/ UNCHANGED <<pending, timer>>
           \/ /\ writer[g].pc = "settle" /\ pending' = c
              /\ timer' = [timer EXCEPT ![c] = IF scopeActive THEN "armed" ELSE "end"]
    BY ONLY <1>5 DEF WriterStep, WriterOutput, WriterTimeout, WriterCancelled,
       WriterStart, WriterReceive, WriterAttempt, WriterWritten, WriterTimedOut,
       WriterThrows, WriterReport, WriterFailCas, WriterSettle, WriterFrame
  <2>2. writer[g].pc = "settle" => c \in Commands
    BY DEF TypeInv, BusyHasCommand, Busy
  <2>3. scopeActive \in BOOLEAN
    BY DEF TypeInv, TypeOK, SharedType
  <2> QED
    BY ONLY <1>a, <2>1, <2>2, <2>3, PendingHasTimer DEF PendingHasTimer
<1> QED
  BY <1>1, <1>2, <1>3, <1>4, <1>5 DEF Next

\* A command that waits for its response always has a timer that will end the
\* wait, until close cancels the scope (startWorkers:154-162, close:101).
THEOREM SessionPendingHasTimer == Spec => []PendingHasTimer
<1>1. Init => PendingHasTimer
  BY DEF Init, PendingHasTimer
<1> QED
  BY <1>1, NextTimer, SpecTypeInv, PTL DEF Spec

-----------------------------------------------------------------------------
(* The session implements the abstract handles                             *)

\* A step leaves the place of c and its result alone.
Still(c) ==
    /\ result'[c] = result[c]
    /\ (sender'[c] = "done") <=> (sender[c] = "done")
    /\ (timer'[c] = "off") <=> (timer[c] = "off")
    /\ \A g \in 0..MaxGen : Queued(g, c)' <=> Queued(g, c)
    /\ \A g \in Gens : Holds(g, c)' <=> Holds(g, c)

\* A step of the session is a step of the abstract handles or a stutter.
HandleStep ==
    [Handle!HandleNext]_<<[c \in Commands |-> Phase(c)], attempts, result>>

\* What is left alone stays in its phase.
LEMMA StillPhase ==
  ASSUME NEW c, Still(c)
  PROVE  Phase(c)' = Phase(c)
BY DEF Still, Phase

\* The step of one command between two phases.
LEMMA StillMove ==
  ASSUME NEW c \in Commands, NEW from, NEW to, Phase(c) = from, Phase(c)' = to,
         \A d \in Commands : d # c => Still(d)
  PROVE  Handle!Move(c, from, to)
<1>1. \A d \in Commands : Phase(d)' = IF d = c THEN to ELSE Phase(d)
  BY StillPhase
<1>2. [d \in Commands |-> Phase(d)][c] = from
  OBVIOUS
<1>3. [d \in Commands |-> Phase(d)]' =
          [[d \in Commands |-> Phase(d)] EXCEPT ![c] = to]
  BY ONLY <1>1, c \in Commands
<1> QED
  BY <1>2, <1>3 DEF Handle!Move

\* Where nothing moves the handles stutter.
LEMMA StillStutters ==
  ASSUME \A c \in Commands : Still(c), UNCHANGED <<attempts, result>>
  PROVE  HandleStep
<1>1. \A c \in Commands : Phase(c)' = Phase(c)
  BY StillPhase
<1>2. UNCHANGED [c \in Commands |-> Phase(c)]
  BY ONLY <1>1
<1> QED
  BY ONLY <1>2, UNCHANGED <<attempts, result>> DEF HandleStep

\* The head of a channel leaves it, and nothing else does.
LEMMA HeadLeaves ==
  ASSUME TypeInv, OneSlot, NEW from \in 0..MaxGen, channel[from].buf # << >>,
         channel'[from].buf = Tail(channel[from].buf),
         \A h \in 0..MaxGen : h # from => channel'[h].buf = channel[h].buf,
         NEW c, c = Head(channel[from].buf)
  PROVE  /\ c \in Commands /\ Queued(from, c)
         /\ \A h \in 0..MaxGen : ~Queued(h, c)'
         /\ \A d \in Commands, h \in 0..MaxGen : d # c =>
                (Queued(h, d)' <=> Queued(h, d))
<1> DEFINE s == channel[from].buf
<1>1. s \in Seq(Commands) /\ s # << >>
  BY DEF TypeInv, TypeOK, ChannelType
<1>2. /\ 1 \in 1..Len(s) /\ s[1] = c /\ c \in Commands
      /\ \A i \in 1..Len(Tail(s)) : i + 1 \in 1..Len(s) /\ Tail(s)[i] = s[i + 1]
      /\ \A i \in 1..Len(s) : i # 1 => i - 1 \in 1..Len(Tail(s)) /\ Tail(s)[i - 1] = s[i]
  BY ONLY <1>1, c = Head(s)
<1>3. Queued(from, c)
  BY ONLY <1>2 DEF Queued
<1>4. ASSUME NEW h \in 0..MaxGen PROVE ~Queued(h, c)'
  <2> SUFFICES ASSUME NEW i \in 1..Len(channel'[h].buf), channel'[h].buf[i] = c
               PROVE  FALSE
    BY DEF Queued
  <2>1. CASE h # from
    BY <1>2, <2>1 DEF OneSlot
  <2>2. CASE h = from
    <3>1. i \in 1..Len(Tail(s)) /\ Tail(s)[i] = c
      BY <2>2
    <3>2. i + 1 \in 1..Len(s) /\ s[i + 1] = s[1]
      BY ONLY <1>2, <3>1
    <3>3. i + 1 = 1
      BY ONLY <1>2, <3>2, OneSlot, from \in 0..MaxGen DEF OneSlot
    <3>4. i \in Nat /\ i >= 1
      OBVIOUS
    <3> QED
      BY ONLY <3>3, <3>4
  <2> QED
    BY <2>1, <2>2
<1>5. ASSUME NEW d \in Commands, NEW h \in 0..MaxGen, d # c
      PROVE  Queued(h, d)' <=> Queued(h, d)
  <2>1. CASE h # from
    BY <2>1 DEF Queued
  <2>2. CASE h = from
    <3>1. Queued(h, d)' <=> \E i \in 1..Len(Tail(s)) : Tail(s)[i] = d
      BY <2>2 DEF Queued
    <3>2. Queued(h, d) <=> \E i \in 1..Len(s) : s[i] = d
      BY <2>2 DEF Queued
    <3> HIDE DEF s
    <3>3. ASSUME NEW i \in 1..Len(s), s[i] = d
          PROVE  \E j \in 1..Len(Tail(s)) : Tail(s)[j] = d
      <4>1. i # 1
        BY ONLY <1>2, <1>5, <3>3
      <4> QED
        BY ONLY <1>2, <3>3, <4>1
    <3>4. ASSUME NEW i \in 1..Len(Tail(s)), Tail(s)[i] = d
          PROVE  \E j \in 1..Len(s) : s[j] = d
      BY ONLY <1>2, <3>4
    <3> QED
      BY ONLY <3>1, <3>2, <3>3, <3>4
  <2> QED
    BY <2>1, <2>2
<1> QED
  BY <1>2, <1>3, <1>4, <1>5

\* A disconnect or an overflow drops the head of the current channel.
LEMMA ForgetDrops ==
  ASSUME TypeInv, PlaceInv, BufsStay \/ Forget, UNCHANGED <<timer, result, attempts>>,
         \A c \in Commands : (sender'[c] = "done") <=> (sender[c] = "done"),
         \A c \in Commands, g \in Gens : Holds(g, c)' <=> Holds(g, c)
  PROVE  HandleStep
<1>a. commands \in 0..MaxGen
      /\ channel \in [0..MaxGen -> [buf : Seq(Commands), closed : BOOLEAN]]
  BY DEF TypeInv, TypeOK, SharedType, ChannelType
<1>1. CASE BufsStay \/ (Forget /\ channel[commands].buf = << >>)
  <2>1. \A g \in 0..MaxGen : channel'[g].buf = channel[g].buf
    BY ONLY <1>a, <1>1 DEF BufsStay, Forget
  <2>2. \A d \in Commands : Still(d)
    BY <2>1 DEF Still, Queued
  <2> QED
    BY ONLY <2>2, UNCHANGED <<result, attempts>>, StillStutters
<1>2. CASE Forget /\ channel[commands].buf # << >>
  <2>1. /\ channel'[commands].buf = Tail(channel[commands].buf)
        /\ \A h \in 0..MaxGen : h # commands => channel'[h].buf = channel[h].buf
    BY ONLY <1>a, <1>2 DEF Forget
  <2> PICK c : c = Head(channel[commands].buf)
    OBVIOUS
  <2>2. /\ c \in Commands /\ Queued(commands, c)
        /\ \A h \in 0..MaxGen : ~Queued(h, c)'
        /\ \A d \in Commands, h \in 0..MaxGen : d # c =>
               (Queued(h, d)' <=> Queued(h, d))
    BY ONLY TypeInv, PlaceInv, <1>a, <1>2, <2>1,
            c = Head(channel[commands].buf), HeadLeaves DEF PlaceInv, OnePlace
  <2>3. /\ sender[c] = "done" /\ result[c] = "none" /\ timer[c] = "off"
        /\ \A g \in Gens : ~Holds(g, c)
    BY ONLY PlaceInv, <1>a, <2>2
       DEF PlaceInv, OnePlace, PlacedIsAccepted, NotQueuedAndHeld,
           AnswerableIsSettled, Answerable, Placed
  <2>4. Phase(c) = "queued"
    BY ONLY <1>a, <2>2, <2>3 DEF Phase
  <2>5. Phase(c)' = "lost"
    BY <2>2, <2>3 DEF Phase
  <2>6. \A d \in Commands : d # c => Still(d)
    BY <2>2 DEF Still
  <2>7. Handle!Move(c, "queued", "lost")
    BY ONLY <2>2, <2>4, <2>5, <2>6, StillMove
  <2> QED
    BY ONLY <2>2, <2>7, UNCHANGED <<result, attempts>>
       DEF HandleStep, Handle!HandleNext, Handle!Drop
<1> QED
  BY <1>1, <1>2

\* connect, disconnect, close and the reconnection drop at most one command.
LEMMA OutsideHandle ==
  ASSUME TypeInv, PlaceInv, HandleInv,
         \/ \E k \in Callers : Call(k) \/ CallerStep(k)
         \/ CloserStep
         \/ ReconnectStep
  PROVE  HandleStep
<1>1. /\ UNCHANGED <<pending, timer, sender, result, attempts, wire>>
      /\ HandsStay /\ (BufsStay \/ Forget)
  BY OutsideStep DEF HandleInv
<1>2. \A c \in Commands, g \in Gens : Holds(g, c)' <=> Holds(g, c)
  BY ONLY <1>1 DEF Holds, HandsStay
<1> QED
  BY ONLY TypeInv, PlaceInv, <1>1, <1>2, ForgetDrops

\* send refuses a command or puts it into a queue, where the overflow may first
\* drop another.
LEMMA SenderHandle ==
  ASSUME TypeInv, PlaceInv, NEW c \in Commands, Submit(c) \/ SenderStep(c)
  PROVE  HandleStep
<1> USE DEF Submit, SenderStep, Send, SendOffer, SendDropOldest, SendOfferAgain
<1>a. /\ result \in [Commands -> Results] /\ sender \in [Commands -> SenderPcs]
      /\ channel \in [0..MaxGen -> [buf : Seq(Commands), closed : BOOLEAN]]
      /\ commands \in 0..MaxGen
  BY DEF TypeInv, TypeOK, HandleType, ChannelType, SharedType
<1>b. UNCHANGED <<writer, timer, attempts>>
  BY DEF SenderFrame, coroutines, jobs, workers
<1>1. /\ sender[c] # "done"
      /\ \A d \in Commands : d # c => sender'[d] = sender[d]
  BY <1>a DEF Turn
<1>2. result[c] = "none" /\ ~Placed(c) /\ timer[c] = "off" /\ Phase(c) = "new"
  BY ONLY PlaceInv, <1>1, c \in Commands
     DEF PlaceInv, OnePlace, PlacedIsAccepted, AnswerableIsSettled, UnsentIsFresh,
         Answerable, Phase
<1>3. \A d \in Commands, g \in Gens : Holds(g, d)' <=> Holds(g, d)
  BY ONLY <1>b DEF Holds
<1>4. CASE UNCHANGED result /\ sender'[c] # "done" /\ (UNCHANGED channel \/ Forget)
  <2>1. \A d \in Commands : (sender'[d] = "done") <=> (sender[d] = "done")
    BY ONLY <1>1, <1>4
  <2> QED
    BY ONLY TypeInv, PlaceInv, <1>b, <1>3, <1>4, <2>1, ForgetDrops DEF BufsStay
<1>5. CASE \E r \in Refusals : UNCHANGED channel /\ Complete(c, r) /\ sender'[c] = "done"
  <2>1. PICK r \in Refusals : result' = [result EXCEPT ![c] = r]
    BY ONLY <1>2, <1>5 DEF Complete
  <2>2. \A d \in Commands : d # c => Still(d)
    BY ONLY <1>a, <1>b, <1>1, <1>3, <1>5, <2>1 DEF Still, Queued
  <2>3. Phase(c)' = "done"
    BY ONLY <1>a, <2>1, c \in Commands DEF Phase, Refusals
  <2>4. Handle!Move(c, "new", "done")
    BY ONLY <1>2, <2>2, <2>3, c \in Commands, StillMove
  <2>5. Handle!Refuse(c)
    BY ONLY <1>b, <2>1, <2>4 DEF Handle!Refuse, Handle!Report, Refusals
  <2> QED
    BY ONLY <2>5, c \in Commands DEF HandleStep, Handle!HandleNext
<1>6. CASE Accept(c) /\ sender'[c] = "done"
  <2> PICK n \in 0..MaxGen : n = commands
    BY <1>a
  <2>1. /\ UNCHANGED result
        /\ \A h \in 0..MaxGen : h # n => channel'[h].buf = channel[h].buf
        /\ channel'[n].buf = Append(channel[n].buf, c)
    BY ONLY <1>a, <1>6, n = commands DEF Accept
  <2>2. channel[n].buf \in Seq(Commands)
    BY ONLY <1>a, n \in 0..MaxGen
  <2>3. /\ Queued(n, c)'
        /\ \A d \in Commands : d # c => (Queued(n, d)' <=> Queued(n, d))
    <3> PICK s \in Seq(Commands) : s = channel[n].buf
      BY ONLY <2>2
    <3>1. /\ Len(Append(s, c)) = Len(s) + 1 /\ Append(s, c)[Len(s) + 1] = c
          /\ Len(s) \in Nat
          /\ \A i \in 1..Len(s) : Append(s, c)[i] = s[i]
      BY ONLY s \in Seq(Commands), c \in Commands
    <3>2. \E i \in 1..Len(Append(s, c)) : Append(s, c)[i] = c
      BY ONLY <3>1
    <3>3. ASSUME NEW d \in Commands, d # c
          PROVE  (\E i \in 1..Len(Append(s, c)) : Append(s, c)[i] = d)
                     <=> \E i \in 1..Len(s) : s[i] = d
      <4>1. ASSUME NEW i \in 1..Len(Append(s, c)), Append(s, c)[i] = d
            PROVE  i \in 1..Len(s) /\ s[i] = d
        BY ONLY <3>1, <3>3, <4>1
      <4>2. ASSUME NEW i \in 1..Len(s) PROVE i \in 1..Len(Append(s, c))
        BY ONLY <3>1, <4>2
      <4> QED
        BY ONLY <3>1, <4>1, <4>2
    <3> QED
      BY ONLY <2>1, <3>2, <3>3, s = channel[n].buf DEF Queued
  <2>4. ASSUME NEW d \in Commands, d # c PROVE Still(d)
    <3>1. \A g \in 0..MaxGen : Queued(g, d)' <=> Queued(g, d)
      BY ONLY <2>1, <2>3, <2>4 DEF Queued
    <3>2. /\ (sender'[d] = "done") <=> (sender[d] = "done")
          /\ (timer'[d] = "off") <=> (timer[d] = "off")
          /\ \A g \in Gens : Holds(g, d)' <=> Holds(g, d)
      BY ONLY <1>b, <1>1, <1>3, <2>4
    <3> QED
      BY ONLY <2>1, <3>1, <3>2 DEF Still
  <2>5. Phase(c)' = "queued"
    BY ONLY <1>2, <1>6, <2>1, <2>3, n \in 0..MaxGen DEF Phase
  <2>6. Handle!Move(c, "new", "queued")
    BY ONLY <1>2, <2>4, <2>5, c \in Commands, StillMove
  <2> QED
    BY ONLY <1>b, <2>1, <2>6, c \in Commands DEF HandleStep, Handle!HandleNext, Handle!Enqueue
<1>7. \/ UNCHANGED result /\ sender'[c] # "done" /\ (UNCHANGED channel \/ Forget)
      \/ \E r \in Refusals : UNCHANGED channel /\ Complete(c, r) /\ sender'[c] = "done"
      \/ Accept(c) /\ sender'[c] = "done"
  BY <1>a DEF Turn, queue, Refusals
<1> QED
  BY ONLY <1>4, <1>5, <1>6, <1>7

\* A command that awaits its response is answered, or was already.
LEMMA AnswerHandle ==
  ASSUME TypeInv, PlaceInv, HandleInv, NEW w, w \in Commands => Answerable(w),
         NEW r \in {"Response", "TimedOut"}, Complete(w, r),
         UNCHANGED <<channel, writer, sender, attempts>>,
         \A c \in Commands : (timer'[c] = "off") <=> (timer[c] = "off")
  PROVE  HandleStep
<1>a. result \in [Commands -> Results]
  BY DEF TypeInv, TypeOK, HandleType
<1>1. \A c \in Commands : result'[c] = result[c] => Still(c)
  BY DEF Still, Queued, Holds
<1>2. CASE w \notin Commands \/ result[w] # "none"
  <2>1. UNCHANGED result
    BY ONLY <1>a, <1>2, Complete(w, r) DEF Complete
  <2> QED
    BY <1>1, <2>1, StillStutters
<1>3. CASE w \in Commands /\ result[w] = "none"
  <2>1. result' = [result EXCEPT ![w] = r]
    BY ONLY <1>3, Complete(w, r) DEF Complete
  <2>2. Answerable(w) /\ timer[w] # "off" /\ sender[w] = "done" /\ ~Placed(w)
    BY <1>3 DEF PlaceInv, AnswerableIsSettled, HandleInv, HonestInv, AwaitedIsDelivered
  <2>3. Phase(w) = "awaiting"
    BY ONLY <1>3, <2>2 DEF Phase, Placed
  <2>4. Phase(w)' = "done"
    BY ONLY <1>a, <1>3, <2>1, r \in {"Response", "TimedOut"} DEF Phase
  <2>5. \A c \in Commands : c # w => Still(c)
    BY ONLY <1>a, <1>1, <2>1
  <2>6. Handle!Move(w, "awaiting", "done")
    BY ONLY <1>3, <2>3, <2>4, <2>5, StillMove
  <2>7. Handle!Answer(w)
    BY ONLY <2>1, <2>6, r \in {"Response", "TimedOut"}, UNCHANGED attempts
       DEF Handle!Answer, Handle!Report
  <2> QED
    BY ONLY <1>3, <2>7 DEF HandleStep, Handle!HandleNext
<1> QED
  BY ONLY <1>2, <1>3

\* The readers answer commands.
LEMMA ReaderHandle ==
  ASSUME TypeInv, PlaceInv, HandleInv, NEW g \in Gens, ReaderStep(g) \/ ReaderInput(g)
  PROVE  HandleStep
<1> USE DEF ReaderStep, ReaderInput, ReaderCancelled, ReaderStart, ReaderCall,
      ReaderData, ReaderRespond, ReaderClear, ReaderThrows, ReaderFail, ReaderFailCas
<1>b. UNCHANGED <<channel, writer, sender, timer, attempts>>
  BY DEF ReaderFrame, queue
<1>1. \/ UNCHANGED result
      \/ reader[g].pc = "match" /\ Complete(reader[g].waiting, "Response")
  BY DEF ReadGoto
<1>2. CASE UNCHANGED result
  BY ONLY <1>b, <1>2, StillStutters DEF Still, Queued, Holds
<1>3. CASE reader[g].pc = "match" /\ Complete(reader[g].waiting, "Response")
  <2>1. PICK w : w = reader[g].waiting
    OBVIOUS
  <2>2. w \in Commands => Answerable(w)
    BY ONLY <1>3, <2>1, g \in Gens DEF Answerable
  <2>3. Complete(w, "Response")
    BY ONLY <1>3, <2>1 DEF Complete
  <2> QED
    BY ONLY TypeInv, PlaceInv, HandleInv, <1>b, <2>2, <2>3, AnswerHandle
<1> QED
  BY ONLY <1>1, <1>2, <1>3

\* The timers answer the commands they time out.
LEMMA TimerHandle ==
  ASSUME TypeInv, PlaceInv, HandleInv, NEW c \in Commands, TimerStep(c)
  PROVE  HandleStep
<1> USE DEF TimerStep, TimerCancelled, TimerExpires, TimerClear, TimerComplete
<1>a. timer \in [Commands -> TimerPcs]
  BY DEF TypeInv, TypeOK, CoroutineType
<1>b. UNCHANGED <<channel, writer, sender, attempts>>
  BY DEF queue, jobs, workers
<1>1. /\ timer[c] # "off"
      /\ \A d \in Commands : (timer'[d] = "off") <=> (timer[d] = "off")
  BY <1>a DEF Tick
<1>2. UNCHANGED result \/ Complete(c, "TimedOut")
  OBVIOUS
<1>3. CASE UNCHANGED result
  BY ONLY <1>b, <1>1, <1>3, StillStutters DEF Still, Queued, Holds
<1>4. CASE Complete(c, "TimedOut")
  BY ONLY TypeInv, PlaceInv, HandleInv, <1>b, <1>1, <1>4, c \in Commands, AnswerHandle
     DEF Answerable
<1> QED
  BY ONLY <1>2, <1>3, <1>4

\* What a writer holds is taken.
LEMMA HeldIsTaken ==
  ASSUME PlaceInv, NEW g \in Gens, NEW c \in Commands, Holds(g, c)
  PROVE  /\ result[c] = "none" /\ sender[c] = "done" /\ timer[c] = "off"
         /\ \A h \in 0..MaxGen : ~Queued(h, c)
         /\ \A h \in Gens : Holds(h, c) => h = g
         /\ Phase(c) = "taken"
<1>1. /\ result[c] = "none" /\ sender[c] = "done" /\ timer[c] = "off"
      /\ \A h \in 0..MaxGen : ~Queued(h, c)
      /\ \A h \in Gens : Holds(h, c) => h = g
  BY DEF PlaceInv, OnePlace, OneHolder, NotQueuedAndHeld, PlacedIsAccepted,
         AnswerableIsSettled, Answerable, Placed
<1> QED
  BY <1>1 DEF Phase

\* A writer lets go of the command it holds.
LEMMA LetGo ==
  ASSUME PlaceInv, NEW g \in Gens, NEW c \in Commands, Holds(g, c),
         writer'[g].pc \notin Busy, \A h \in Gens : h # g => writer'[h] = writer[h],
         UNCHANGED channel
  PROVE  /\ \A h \in 0..MaxGen : ~Queued(h, c)'
         /\ \A h \in Gens : ~Holds(h, c)'
         /\ \A d \in Commands, h \in Gens : d # c => (Holds(h, d)' <=> Holds(h, d))
         /\ \A d \in Commands, h \in 0..MaxGen : Queued(h, d)' <=> Queued(h, d)
<1>1. /\ \A h \in 0..MaxGen : ~Queued(h, c)
      /\ \A h \in Gens : Holds(h, c) => h = g
  BY HeldIsTaken
<1>2. \A d \in Commands, h \in 0..MaxGen : Queued(h, d)' <=> Queued(h, d)
  BY ONLY UNCHANGED channel DEF Queued
<1> QED
  BY <1>1, <1>2 DEF Holds

\* A writer that ends with a command in its hands loses it.
LEMMA WriterLoses ==
  ASSUME PlaceInv, NEW g \in Gens, NEW c \in Commands, Holds(g, c),
         writer'[g].pc \notin Busy, \A h \in Gens : h # g => writer'[h] = writer[h],
         UNCHANGED <<channel, sender, timer, result, attempts>>
  PROVE  HandleStep
<1>1. /\ result[c] = "none" /\ sender[c] = "done" /\ timer[c] = "off"
      /\ Phase(c) = "taken"
  BY HeldIsTaken
<1>2. /\ \A h \in 0..MaxGen : ~Queued(h, c)'
      /\ \A h \in Gens : ~Holds(h, c)'
      /\ \A d \in Commands, h \in Gens : d # c => (Holds(h, d)' <=> Holds(h, d))
      /\ \A d \in Commands, h \in 0..MaxGen : Queued(h, d)' <=> Queued(h, d)
  BY LetGo
<1>3. Phase(c)' = "lost"
  BY <1>1, <1>2 DEF Phase
<1>4. \A d \in Commands : d # c => Still(d)
  BY <1>2 DEF Still
<1>5. Handle!Move(c, "taken", "lost")
  BY ONLY <1>1, <1>3, <1>4, c \in Commands, StillMove
<1> QED
  BY <1>5 DEF HandleStep, Handle!HandleNext, Handle!Lose

\* A writer takes the head of its channel.
LEMMA WriterTakes ==
  ASSUME TypeInv, PlaceInv, NEW g \in Gens, WriterReceive(g), WriterFrame,
         NEW from \in 0..MaxGen, from = writer[g].channel, channel[from].buf # << >>
  PROVE  HandleStep
<1> PICK c : c = Head(channel[from].buf)
  OBVIOUS
<1>a. /\ writer \in [Gens -> WriterRecords]
      /\ channel \in [0..MaxGen -> [buf : Seq(Commands), closed : BOOLEAN]]
  BY DEF TypeInv, TypeOK, WorkerType, ChannelType
<1>b. UNCHANGED <<sender, timer, result, attempts>>
  BY DEF WriterReceive, WriterFrame
<1>1. /\ channel'[from].buf = Tail(channel[from].buf)
      /\ \A h \in 0..MaxGen : h # from => channel'[h].buf = channel[h].buf
  <2>1. channel' = [channel EXCEPT ![from].buf = Tail(@)]
    BY ONLY WriterReceive(g), from = writer[g].channel, channel[from].buf # << >>
       DEF WriterReceive
  <2> QED
    BY ONLY <1>a, <2>1, from \in 0..MaxGen
<1>2. /\ c \in Commands /\ Queued(from, c)
      /\ \A h \in 0..MaxGen : ~Queued(h, c)'
      /\ \A d \in Commands, h \in 0..MaxGen : d # c => (Queued(h, d)' <=> Queued(h, d))
  BY ONLY TypeInv, PlaceInv, <1>1, from \in 0..MaxGen, channel[from].buf # << >>,
          c = Head(channel[from].buf), HeadLeaves DEF PlaceInv, OnePlace
<1>3. /\ writer[g].pc = "receive" /\ writer'[g].pc = "attempt" /\ writer'[g].cmd = c
      /\ \A h \in Gens : h # g => writer'[h] = writer[h]
  BY ONLY <1>a, WriterReceive(g), from = writer[g].channel, channel[from].buf # << >>,
          c = Head(channel[from].buf), g \in Gens DEF WriterReceive, WriterRecords
<1>4. /\ Holds(g, c)'
      /\ \A d \in Commands, h \in Gens : d # c => (Holds(h, d)' <=> Holds(h, d))
  BY ONLY <1>3 DEF Holds, Busy
<1>5. sender[c] = "done" /\ result[c] = "none"
  BY ONLY PlaceInv, <1>2, from \in 0..MaxGen
     DEF PlaceInv, OnePlace, PlacedIsAccepted, Placed
<1>6. Phase(c) = "queued"
  BY ONLY <1>2, <1>5, from \in 0..MaxGen DEF Phase
<1>7. Phase(c)' = "taken"
  BY ONLY <1>b, <1>2, <1>4, <1>5, g \in Gens DEF Phase
<1>8. \A d \in Commands : d # c => Still(d)
  BY ONLY <1>b, <1>2, <1>4 DEF Still
<1>9. Handle!Move(c, "queued", "taken")
  BY ONLY <1>2, <1>6, <1>7, <1>8, StillMove
<1> QED
  BY ONLY <1>b, <1>2, <1>9 DEF HandleStep, Handle!HandleNext, Handle!Take

\* A writer begins another write, at most maxRetries + 1 of them.
LEMMA WriterTries ==
  ASSUME TypeInv, PlaceInv, NEW g \in Gens, WriterAttempt(g), WriterFrame
  PROVE  HandleStep
<1> PICK c : c = writer[g].cmd
  OBVIOUS
<1>a. /\ writer \in [Gens -> WriterRecords] /\ attempts \in [Commands -> Nat]
      /\ writer[g].pc = "attempt" /\ c \in Commands
  BY DEF TypeInv, TypeOK, WorkerType, HandleType, BusyHasCommand, Busy, WriterAttempt
<1>b. UNCHANGED <<channel, sender, timer, result>>
  BY DEF WriterAttempt, WriterFrame
<1>1. /\ writer'[g].pc = "writing" /\ writer'[g].cmd = c
      /\ \A h \in Gens : h # g => writer'[h] = writer[h]
      /\ attempts' = [attempts EXCEPT ![c] = @ + 1]
  BY ONLY <1>a, WriterAttempt(g), c = writer[g].cmd, g \in Gens
     DEF WriterAttempt, WriterRecords
<1>2. Holds(g, c) /\ Phase(c) = "taken"
  BY <1>a, HeldIsTaken DEF Holds, Busy
<1>3. attempts[c] <= MaxRetries
  BY ONLY PlaceInv, <1>a, c = writer[g].cmd, g \in Gens DEF PlaceInv, HeldIsCounted, Busy
<1>4. \A d \in Commands : Still(d)
  BY ONLY <1>a, <1>b, <1>1, c = writer[g].cmd DEF Still, Queued, Holds, Busy
<1>5. UNCHANGED [d \in Commands |-> Phase(d)]
  BY ONLY <1>4, StillPhase
<1>6. Handle!Try(c)
  BY ONLY <1>a, <1>b, <1>1, <1>2, <1>3, <1>5 DEF Handle!Try
<1> QED
  BY ONLY <1>a, <1>6 DEF HandleStep, Handle!HandleNext

\* A writer reports the outcome of a command, or leaves it waiting.
LEMMA WriterSettles ==
  ASSUME TypeInv, PlaceInv, HandleInv, NEW g \in Gens, WriterSettle(g), WriterFrame
  PROVE  HandleStep
<1> PICK c : c = writer[g].cmd
  OBVIOUS
<1>a. /\ writer \in [Gens -> WriterRecords] /\ result \in [Commands -> Results]
      /\ timer \in [Commands -> TimerPcs]
      /\ writer[g].pc = "settle" /\ c \in Commands /\ attempts[c] \in Nat
  BY DEF TypeInv, TypeOK, WorkerType, HandleType, CoroutineType, BusyHasCommand, Busy,
         WriterSettle
<1>b. UNCHANGED <<channel, sender, attempts>>
  BY DEF WriterSettle, WriterFrame
<1>1. Holds(g, c)
  BY ONLY <1>a, c = writer[g].cmd DEF Holds, Busy
<1>2. /\ writer'[g].pc \notin Busy
      /\ \A h \in Gens : h # g => writer'[h] = writer[h]
  BY ONLY <1>a, WriterSettle(g), g \in Gens DEF WriterSettle, WriterRecords, Busy
<1>3. /\ \A h \in 0..MaxGen : ~Queued(h, c)'
      /\ \A h \in Gens : ~Holds(h, c)'
      /\ \A d \in Commands, h \in Gens : d # c => (Holds(h, d)' <=> Holds(h, d))
      /\ \A d \in Commands, h \in 0..MaxGen : Queued(h, d)' <=> Queued(h, d)
  BY ONLY PlaceInv, <1>a, <1>b, <1>1, <1>2, g \in Gens, LetGo
<1>4. result[c] = "none" /\ sender[c] = "done" /\ Phase(c) = "taken"
  BY ONLY PlaceInv, <1>a, <1>1, g \in Gens, HeldIsTaken
<1>5. /\ writer[g].outcome \in {"Sent", "TimedOut", "WriteFailed"}
      /\ attempts[c] > 0
  BY ONLY HandleInv, PlaceInv, <1>a, g \in Gens, c = writer[g].cmd
     DEF HandleInv, HonestInv, ReportIsHonest, PlaceInv, HeldIsCounted, Busy
<1>6. CASE writer[g].outcome = "Sent" /\ c \in Matched
  <2>1. /\ UNCHANGED result /\ timer'[c] # "off"
        /\ \A d \in Commands : d # c => timer'[d] = timer[d]
    BY ONLY <1>6, <1>a, WriterSettle(g), c = writer[g].cmd DEF WriterSettle
  <2>2. \A d \in Commands : d # c => Still(d)
    BY ONLY <1>b, <1>3, <2>1 DEF Still
  <2>3. Phase(c)' = "awaiting"
    BY ONLY <1>b, <1>3, <1>4, <2>1 DEF Phase
  <2>4. Handle!Move(c, "taken", "awaiting")
    BY ONLY <1>a, <1>4, <2>2, <2>3, StillMove
  <2> QED
    BY ONLY <1>a, <1>b, <1>5, <1>6, <2>1, <2>4
       DEF HandleStep, Handle!HandleNext, Handle!Await
<1>7. CASE ~(writer[g].outcome = "Sent" /\ c \in Matched)
  <2>1. UNCHANGED timer /\ result' = [result EXCEPT ![c] = writer[g].outcome]
    BY ONLY <1>7, <1>4, WriterSettle(g), c = writer[g].cmd DEF WriterSettle, Complete
  <2>2. \A d \in Commands : d # c => Still(d)
    BY ONLY <1>a, <1>b, <1>3, <2>1 DEF Still
  <2>3. Phase(c)' = "done"
    BY ONLY <1>a, <1>5, <2>1 DEF Phase
  <2>4. Handle!Move(c, "taken", "done")
    BY ONLY <1>a, <1>4, <2>2, <2>3, StillMove
  <2>5. Handle!Settle(c)
    <3>1. writer[g].outcome \in {"WriteFailed", "TimedOut"} \cup
              (IF c \in Matched THEN {} ELSE {"Sent"})
      BY ONLY <1>5, <1>7
    <3> QED
      BY ONLY <1>b, <1>5, <2>1, <2>4, <3>1 DEF Handle!Settle, Handle!Report
  <2> QED
    BY ONLY <1>a, <2>5 DEF HandleStep, Handle!HandleNext
<1> QED
  BY ONLY <1>6, <1>7

\* The other writer steps leave the hands of the writer alone, or let go.
LEMMA WriterRest ==
  ASSUME TypeInv, PlaceInv, NEW g \in Gens, WriterFrame,
         \/ WriterCancelled(g) \/ WriterStart(g) \/ WriterWritten(g)
         \/ WriterTimedOut(g) \/ WriterThrows(g) \/ WriterReport(g)
         \/ WriterFailCas(g)
         \/ WriterReceive(g) /\ channel[writer[g].channel].buf = << >>
  PROVE  HandleStep
<1> USE DEF WriterCancelled, WriterStart, WriterWritten, WriterTimedOut,
      WriterThrows, WriterReport, WriterFailCas, WriterReceive
<1> DEFINE w == writer[g]
           v == writer'[g]
<1>a. writer \in [Gens -> WriterRecords] /\ (w.pc \in Busy => w.cmd \in Commands)
  BY DEF TypeInv, TypeOK, WorkerType, BusyHasCommand
<1>b. UNCHANGED <<channel, sender, timer, result, attempts>>
  BY DEF WriterFrame
<1>1. \A h \in Gens : h # g => writer'[h] = writer[h]
  BY <1>a DEF WriteGoto
<1>2. \/ v.pc \in Busy /\ w.pc \in Busy /\ v.cmd = w.cmd
      \/ v.pc \notin Busy
  <2>1. ASSUME NEW pc, writer' = [writer EXCEPT ![g].pc = pc], w.pc \in Busy
        PROVE  v.cmd = w.cmd /\ v.pc = pc
    BY ONLY <1>a, <2>1, g \in Gens DEF WriterRecords
  <2>2. ASSUME NEW outcome, writer' = [writer EXCEPT ![g] = AfterAttempt(g, outcome)]
        PROVE  v.cmd = w.cmd /\ v.pc \in {"attempt", "report"}
    BY ONLY <1>a, <2>2, g \in Gens DEF AfterAttempt, WriterRecords
  <2>3. CASE \/ WriterStart(g) \/ WriterCancelled(g)
             \/ WriterReceive(g) /\ channel[writer[g].channel].buf = << >>
    <3>1. CASE WriterStart(g)
      BY ONLY <1>a, <3>1, g \in Gens DEF WriterStart, WriteGoto, WriterRecords, Busy
    <3>2. CASE WriterCancelled(g)
      BY ONLY <1>a, <3>2, g \in Gens DEF WriterCancelled, WriteGoto, WriterRecords, Busy
    <3>3. CASE WriterReceive(g) /\ channel[writer[g].channel].buf = << >>
      BY ONLY <1>a, <3>3, g \in Gens DEF WriterReceive, WriteGoto, WriterRecords, Busy
    <3> QED
      BY ONLY <2>3, <3>1, <3>2, <3>3
  <2>4. CASE WriterReport(g) \/ WriterFailCas(g)
    BY ONLY <2>1, <2>4 DEF WriterReport, WriterFailCas, WriteGoto, Busy
  <2>5. CASE WriterTimedOut(g) \/ WriterThrows(g)
    BY ONLY <2>2, <2>5 DEF WriterTimedOut, WriterThrows, Busy
  <2>6. CASE WriterWritten(g)
    <3>1. w.pc = "writing"
      BY ONLY <2>6 DEF WriterWritten
    <3>2. CASE w.cancelled
      BY ONLY <1>a, <2>6, <3>2, g \in Gens DEF WriterWritten, WriterRecords, Busy
    <3>3. CASE ~w.cancelled
      BY ONLY <2>2, <2>6, <3>1, <3>3 DEF WriterWritten, Busy
    <3> QED
      BY ONLY <3>2, <3>3
  <2> QED
    BY ONLY <2>3, <2>4, <2>5, <2>6,
       \/ WriterCancelled(g) \/ WriterStart(g) \/ WriterWritten(g)
       \/ WriterTimedOut(g) \/ WriterThrows(g) \/ WriterReport(g)
       \/ WriterFailCas(g)
       \/ WriterReceive(g) /\ channel[writer[g].channel].buf = << >>
<1>3. CASE w.pc \in Busy /\ v.pc \notin Busy
  <2> PICK c : c = w.cmd
    OBVIOUS
  <2>1. c \in Commands /\ Holds(g, c)
    BY ONLY <1>a, <1>3, c = w.cmd DEF Holds
  <2> QED
    BY ONLY PlaceInv, <1>b, <1>1, <1>3, <2>1, g \in Gens, WriterLoses
<1>4. CASE ~(w.pc \in Busy /\ v.pc \notin Busy)
  <2>1. \A c \in Commands, h \in Gens : Holds(h, c)' <=> Holds(h, c)
    BY ONLY <1>1, <1>2, <1>4 DEF Holds
  <2> QED
    BY ONLY <1>b, <2>1, StillStutters DEF Still, Queued
<1> QED
  BY ONLY <1>3, <1>4

\* The writers move commands as the handles allow.
LEMMA WriterHandle ==
  ASSUME TypeInv, PlaceInv, HandleInv, NEW g \in Gens,
         WriterStep(g) \/ WriterOutput(g) \/ WriterTimeout(g)
  PROVE  HandleStep
<1>1. writer[g].channel \in 0..MaxGen
  BY DEF TypeInv, TypeOK, WorkerType, WriterRecords
<1> QED
  BY <1>1, WriterTakes, WriterTries, WriterSettles, WriterRest
     DEF WriterStep, WriterOutput, WriterTimeout

\* Nothing happens to the handles in a stuttering step.
LEMMA StutterHandle == UNCHANGED vars => HandleStep
<1>1. UNCHANGED vars => \A c \in Commands : Still(c)
  BY DEF vars, queue, coroutines, jobs, workers, handles, Still, Queued, Holds
<1>2. UNCHANGED vars => UNCHANGED <<attempts, result>>
  BY DEF vars, handles
<1> QED
  BY <1>1, <1>2, StillStutters

\* Every step of the session is a step of the handles.
LEMMA NextHandle == TypeInv /\ PlaceInv /\ HandleInv /\ [Next]_vars => HandleStep
BY OutsideHandle, SenderHandle, ReaderHandle, WriterHandle, TimerHandle,
   StutterHandle DEF Next

\* The handles start new.
LEMMA InitHandle == Init => Handle!HandleInit
<1> SUFFICES ASSUME Init PROVE Handle!HandleInit
  OBVIOUS
<1>1. \A c \in Commands : Phase(c) = "new"
  BY DEF Init, Phase
<1> QED
  BY <1>1 DEF Init, Handle!HandleInit

\* The coroutines of SerialSession, with all their channels, generations,
\* cancellations and timers, implement the life of a CommandHandle: each command
\* goes through the phases of CommandHandle one step at a time and gets at most
\* one result, which its phase allows (send:61-77, startWorkers:107-163,
\* disconnect:82-91, close:94-103, reconnect:178-208).
THEOREM SessionImplementsHandle == Spec => ImplementsHandle
<1>1. TypeInv /\ PlaceInv /\ HandleInv /\ [Next]_vars =>
        [Handle!HandleNext]_<<[c \in Commands |-> Phase(c)], attempts, result>>
  BY NextHandle DEF HandleStep
<1> QED
  BY <1>1, InitHandle, SpecTypeInv, SpecPlaceInv, SpecHonest, PTL
     DEF Spec, ImplementsHandle, Handle!HandleSpec

-----------------------------------------------------------------------------
(* The commands of one connection reach the device in the order of the     *)
(* queue                                                                   *)

\* The pairs of commands of which the queues took the first before the second,
\* or which are the same command.
Order ==
    {p \in Commands \X Commands :
        \E m, n \in 1..Len(accepted) :
            m <= n /\ accepted[m] = p[1] /\ accepted[n] = p[2]}

Sorted(s, order) ==
    \A i, j \in 1..Len(s) : i <= j => <<s[i], s[j]>> \in order

\* send is over for what a queue took, so it takes no command twice.
AcceptedOnce ==
    /\ \A n \in 1..Len(accepted) : sender[accepted[n]] = "done"
    /\ \A m, n \in 1..Len(accepted) : accepted[m] = accepted[n] => m = n

\* What is written came before what is in the writer's hands, and that before
\* what is left in its channel.
InOrder(w, rest, written, order) ==
    /\ w.pc \in {"none", "start"} => written = {}
    /\ w.pc \in Busy =>
          /\ <<w.cmd, w.cmd>> \in order
          /\ \A x \in written : <<x, w.cmd>> \in order
          /\ \A d \in rest : <<w.cmd, d>> \in order
    /\ \A x \in written, d \in rest : <<x, d>> \in order

OrderInv ==
    /\ AcceptedOnce
    /\ Sorted(wire, Order)
    /\ \A n \in 0..MaxGen : Sorted(channel[n].buf, Order)
    /\ \A g \in Gens : InOrder(writer[g], RangeOf(channel[writer[g].channel].buf),
                               RangeOf(wire), Order)

-----------------------------------------------------------------------------
(* The order and the sequences in it                                       *)

\* The order is transitive, because no command is taken twice.
LEMMA OrderTransitive ==
  ASSUME TypeInv, AcceptedOnce, NEW c, NEW d, NEW e,
         <<c, d>> \in Order, <<d, e>> \in Order
  PROVE  <<c, e>> \in Order
<1>1. Len(accepted) \in Nat
  BY DEF TypeInv, TypeOK, ChannelType
<1>2. PICK m, n \in 1..Len(accepted) : m <= n /\ accepted[m] = c /\ accepted[n] = d
  BY DEF Order
<1>3. PICK k, l \in 1..Len(accepted) : k <= l /\ accepted[k] = d /\ accepted[l] = e
  BY DEF Order
<1>4. n = k
  BY <1>2, <1>3 DEF AcceptedOnce
<1>5. m <= l
  BY <1>1, <1>2, <1>3, <1>4
<1> QED
  BY <1>2, <1>3, <1>5 DEF Order

\* What a queue takes comes after all it took, whose order stays.
LEMMA OrderGrows ==
  ASSUME TypeInv, NEW c \in Commands, accepted' = Append(accepted, c)
  PROVE  /\ Order \subseteq Order' /\ <<c, c>> \in Order'
         /\ \A d : <<d, d>> \in Order => <<d, c>> \in Order'
<1>1. /\ Len(accepted) \in Nat /\ Len(accepted') = Len(accepted) + 1
      /\ accepted'[Len(accepted) + 1] = c
      /\ \A n \in 1..Len(accepted) : accepted'[n] = accepted[n]
  <2>1. accepted \in Seq(Commands)
    BY DEF TypeInv, TypeOK, ChannelType
  <2> QED
    BY ONLY <2>1, c \in Commands, accepted' = Append(accepted, c)
<1>2. \A n \in 1..Len(accepted) : n \in 1..Len(accepted') /\ n <= Len(accepted) + 1
  BY ONLY <1>1
<1>3. Len(accepted) + 1 \in 1..Len(accepted')
  BY ONLY <1>1
<1> QED
  BY ONLY <1>1, <1>2, <1>3, c \in Commands DEF Order

\* A sequence that loses at most its head stays sorted and gains nothing.
LEMMA SortedShrinks ==
  ASSUME NEW order, NEW s \in Seq(Commands), Sorted(s, order),
         NEW t, t = s \/ (s # << >> /\ t = Tail(s))
  PROVE  Sorted(t, order) /\ RangeOf(t) \subseteq RangeOf(s)
<1>1. CASE t = s
  BY <1>1
<1>2. CASE s # << >> /\ t = Tail(s)
  <2>1. \A i \in 1..Len(t) : i + 1 \in 1..Len(s) /\ t[i] = s[i + 1]
    BY <1>2
  <2>2. Len(t) \in Nat
    BY <1>2
  <2>3. Sorted(t, order)
    BY ONLY <2>1, <2>2, Sorted(s, order) DEF Sorted
  <2> QED
    BY ONLY <2>1, <2>3 DEF RangeOf
<1> QED
  BY <1>1, <1>2

\* The head of a sorted sequence comes before the rest.
LEMMA HeadIsFirst ==
  ASSUME NEW order, NEW s \in Seq(Commands), Sorted(s, order), s # << >>
  PROVE  /\ Head(s) \in RangeOf(s) /\ <<Head(s), Head(s)>> \in order
         /\ \A d \in RangeOf(Tail(s)) : <<Head(s), d>> \in order
<1>1. Len(s) \in Nat \ {0} /\ Head(s) = s[1] /\ 1 \in 1..Len(s)
  OBVIOUS
<1>2. \A d \in RangeOf(Tail(s)) : \E i \in 1..Len(s) : d = s[i]
  <2>1. \A i \in 1..Len(Tail(s)) : i + 1 \in 1..Len(s) /\ Tail(s)[i] = s[i + 1]
    OBVIOUS
  <2> QED
    BY ONLY <2>1 DEF RangeOf
<1>3. \A i \in 1..Len(s) : <<s[1], s[i]>> \in order
  BY ONLY <1>1, Sorted(s, order) DEF Sorted
<1> QED
  BY ONLY <1>1, <1>2, <1>3 DEF RangeOf

\* A sorted sequence stays sorted if what is appended comes last.
LEMMA SortedGrows ==
  ASSUME NEW order, NEW s \in Seq(Commands), NEW c \in Commands, Sorted(s, order),
         <<c, c>> \in order, \A d \in RangeOf(s) : <<d, c>> \in order
  PROVE  /\ Sorted(Append(s, c), order)
         /\ RangeOf(Append(s, c)) = RangeOf(s) \cup {c}
<1>1. /\ Len(s) \in Nat /\ Len(Append(s, c)) = Len(s) + 1
      /\ Append(s, c)[Len(s) + 1] = c
      /\ \A i \in 1..Len(s) : Append(s, c)[i] = s[i]
  OBVIOUS
<1>2. \A i \in 1..Len(s) : <<s[i], c>> \in order
  BY DEF RangeOf
<1>3. ASSUME NEW i \in 1..Len(s) + 1, NEW j \in 1..Len(s) + 1, i <= j
      PROVE  <<Append(s, c)[i], Append(s, c)[j]>> \in order
  <2>1. CASE j \in 1..Len(s)
    <3>1. i \in 1..Len(s)
      BY <1>1, <1>3, <2>1
    <3> QED
      BY <1>1, <1>3, <2>1, <3>1 DEF Sorted
  <2>2. CASE j = Len(s) + 1
    <3>1. i \in 1..Len(s) \/ i = Len(s) + 1
      BY <1>1
    <3> QED
      BY <1>1, <1>2, <2>2, <3>1
  <2> QED
    BY <1>1, <2>1, <2>2
<1>4. RangeOf(Append(s, c)) = RangeOf(s) \cup {c}
  <2>1. \A i \in 1..Len(s) : i \in 1..Len(s) + 1
    BY <1>1
  <2>2. \A i \in 1..Len(s) + 1 : i \in 1..Len(s) \/ i = Len(s) + 1
    BY <1>1
  <2>3. Len(s) + 1 \in 1..Len(s) + 1
    BY <1>1
  <2> QED
    BY ONLY <1>1, <2>1, <2>2, <2>3 DEF RangeOf
<1>5. Sorted(Append(s, c), order)
  BY ONLY <1>1, <1>3 DEF Sorted
<1> QED
  BY <1>4, <1>5

\* A sequence sorted by an order is sorted by a larger one.
LEMMA SortedStays ==
  ASSUME NEW order, NEW larger, order \subseteq larger, NEW s, Sorted(s, order)
  PROVE  Sorted(s, larger)
BY DEF Sorted

-----------------------------------------------------------------------------
(* The steps that neither take nor write a command                         *)

QuietStep ==
    /\ UNCHANGED <<accepted, wire>>
    /\ \A c \in Commands : sender[c] = "done" => sender'[c] = "done"
    /\ ChannelsShrink /\ WritersCarryOn

\* A quiet step keeps the order.
LEMMA QuietKeeps == TypeInv /\ OrderInv /\ QuietStep => OrderInv'
<1> SUFFICES ASSUME TypeInv, OrderInv, QuietStep PROVE OrderInv'
  OBVIOUS
<1>a. /\ \A n \in 0..MaxGen : channel[n].buf \in Seq(Commands)
      /\ accepted \in Seq(Commands)
      /\ \A g \in Gens : writer[g].channel \in 0..MaxGen
  BY DEF TypeInv, TypeOK, ChannelType, WorkerType, WriterRecords
<1>1. Order' = Order /\ wire' = wire
  BY DEF QuietStep, Order
<1>2. AcceptedOnce'
  <2>1. \A n \in 1..Len(accepted) : accepted[n] \in Commands
    BY ONLY <1>a
  <2> QED
    BY ONLY <2>1, OrderInv, QuietStep DEF OrderInv, QuietStep, AcceptedOnce
<1>3. ASSUME NEW n \in 0..MaxGen
      PROVE  /\ Sorted(channel'[n].buf, Order)
             /\ RangeOf(channel'[n].buf) \subseteq RangeOf(channel[n].buf)
  <2>1. channel[n].buf \in Seq(Commands) /\ Sorted(channel[n].buf, Order)
    BY ONLY <1>a, OrderInv DEF OrderInv
  <2>2. \/ channel'[n].buf = channel[n].buf
        \/ channel[n].buf # << >> /\ channel'[n].buf = Tail(channel[n].buf)
    BY ONLY QuietStep DEF QuietStep, ChannelsShrink
  <2> QED
    BY ONLY <2>1, <2>2, SortedShrinks
<1>4. ASSUME NEW g \in Gens
      PROVE  InOrder(writer'[g], RangeOf(channel'[writer'[g].channel].buf),
                     RangeOf(wire), Order)
  <2>1. InOrder(writer[g], RangeOf(channel[writer[g].channel].buf), RangeOf(wire), Order)
    BY DEF OrderInv
  <2>2. /\ writer'[g].pc \in {"none", "start"} => writer[g].pc \in {"none", "start"}
        /\ writer'[g].pc \in Busy =>
              writer[g].pc \in Busy /\ writer'[g].cmd = writer[g].cmd
        /\ \/ writer[g].pc = "start"
           \/ RangeOf(channel'[writer'[g].channel].buf)
                \subseteq RangeOf(channel[writer[g].channel].buf)
    BY ONLY <1>a, <1>3, QuietStep DEF QuietStep, WritersCarryOn
  <2> QED
    BY ONLY <2>1, <2>2 DEF InOrder, Busy
<1> QED
  BY ONLY <1>1, <1>2, <1>3, <1>4, OrderInv DEF OrderInv

\* connect, disconnect, close and the reconnection are quiet.
LEMMA OutsideQuiet ==
  ASSUME TypeInv, LaunchInv,
         \/ \E k \in Callers : Call(k) \/ CallerStep(k)
         \/ CloserStep
         \/ ReconnectStep
  PROVE  QuietStep
<1>a. ChannelType /\ commands \in 0..MaxGen
  BY DEF TypeInv, TypeOK, SharedType
<1>1. UNCHANGED <<accepted, sender, wire>> /\ WritersCarryOn /\ (BufsStay \/ Forget)
  BY OutsideStep
<1>2. ChannelsShrink
  BY ONLY <1>a, <1>1, ForgetShrinks DEF BufsStay, ChannelsShrink
<1> QED
  BY ONLY <1>1, <1>2 DEF QuietStep

\* The readers and the timers are quiet.
LEMMA AnswerQuiet ==
  ASSUME \/ \E g \in Gens : ReaderStep(g) \/ ReaderInput(g)
         \/ \E c \in Commands : TimerStep(c)
  PROVE  QuietStep
<1>1. UNCHANGED <<accepted, channel, wire, sender, writer>>
  BY DEF ReaderStep, ReaderInput, ReaderFrame, TimerStep, queue, jobs, workers
<1> QED
  BY ONLY <1>1 DEF QuietStep, ChannelsShrink, WritersCarryOn

-----------------------------------------------------------------------------
(* The steps of send                                                       *)

\* A queue takes a command: it comes after all that were taken before.
LEMMA AcceptOrder ==
  ASSUME TypeInv, OrderInv, NEW c \in Commands, Accept(c), sender[c] # "done",
         sender' = [sender EXCEPT ![c] = "done"], UNCHANGED <<writer, wire>>
  PROVE  OrderInv'
<1>a. /\ channel \in [0..MaxGen -> [buf : Seq(Commands), closed : BOOLEAN]]
      /\ commands \in 0..MaxGen /\ accepted \in Seq(Commands) /\ wire \in Seq(Commands)
      /\ sender \in [Commands -> SenderPcs]
      /\ \A g \in Gens : writer[g].channel \in 0..MaxGen
  BY DEF TypeInv, TypeOK, ChannelType, SharedType, WorkerType, WriterRecords, HandleType
<1>b. accepted' = Append(accepted, c)
  BY DEF Accept
<1>1. /\ Order \subseteq Order' /\ <<c, c>> \in Order'
      /\ \A d : <<d, d>> \in Order => <<d, c>> \in Order'
  BY ONLY TypeInv, c \in Commands, <1>b, OrderGrows
<1>2. AcceptedOnce'
  <2>1. /\ Len(accepted) \in Nat /\ Len(accepted') = Len(accepted) + 1
        /\ accepted'[Len(accepted) + 1] = c
        /\ \A n \in 1..Len(accepted) : accepted'[n] = accepted[n] /\ accepted[n] \in Commands
    BY <1>a, <1>b
  <2>2. /\ \A n \in 1..Len(accepted) : sender[accepted[n]] = "done" /\ accepted[n] # c
        /\ \A m, n \in 1..Len(accepted) : accepted[m] = accepted[n] => m = n
    BY DEF OrderInv, AcceptedOnce
  <2>3. \A d \in Commands : sender[d] = "done" \/ d = c => sender'[d] = "done"
    BY <1>a
  <2>4. \A n \in 1..Len(accepted') : n \in 1..Len(accepted) \/ n = Len(accepted) + 1
    BY ONLY <2>1
  <2> QED
    BY ONLY <2>1, <2>2, <2>3, <2>4, c \in Commands DEF AcceptedOnce
<1>3. Sorted(wire, Order') /\ \A x \in RangeOf(wire) : <<x, c>> \in Order'
  <2>1. Len(wire) \in Nat /\ Sorted(wire, Order)
    BY <1>a DEF OrderInv
  <2>2. \A x \in RangeOf(wire) : <<x, x>> \in Order
    BY ONLY <2>1 DEF Sorted, RangeOf
  <2> QED
    BY ONLY <1>1, <2>1, <2>2 DEF Sorted
<1>4. ASSUME NEW n \in 0..MaxGen
      PROVE  /\ Sorted(channel'[n].buf, Order')
             /\ RangeOf(channel'[n].buf) \subseteq RangeOf(channel[n].buf) \cup {c}
  <2> DEFINE s == channel[n].buf
  <2>1. s \in Seq(Commands) /\ Len(s) \in Nat /\ Sorted(s, Order)
    BY <1>a DEF OrderInv
  <2>2. Sorted(s, Order') /\ \A d \in RangeOf(s) : <<d, c>> \in Order'
    <3>1. \A d \in RangeOf(s) : <<d, d>> \in Order
      BY ONLY <2>1 DEF Sorted, RangeOf
    <3>2. Sorted(s, Order')
      BY ONLY <1>1, <2>1 DEF Sorted
    <3> QED
      BY ONLY <1>1, <3>1, <3>2
  <2>3. channel'[n].buf = s \/ channel'[n].buf = Append(s, c)
    BY <1>a DEF Accept
  <2> HIDE DEF s
  <2>4. Sorted(Append(s, c), Order') /\ RangeOf(Append(s, c)) = RangeOf(s) \cup {c}
    BY ONLY <1>1, <2>1, <2>2, c \in Commands, SortedGrows
  <2>5. /\ Sorted(channel'[n].buf, Order')
        /\ RangeOf(channel'[n].buf) \subseteq RangeOf(s) \cup {c}
    BY ONLY <2>2, <2>3, <2>4
  <2> QED
    BY ONLY <2>5 DEF s
<1>5. ASSUME NEW g \in Gens
      PROVE  InOrder(writer[g], RangeOf(channel'[writer[g].channel].buf),
                     RangeOf(wire), Order')
  <2>1. InOrder(writer[g], RangeOf(channel[writer[g].channel].buf), RangeOf(wire), Order)
    BY DEF OrderInv
  <2>2. RangeOf(channel'[writer[g].channel].buf)
            \subseteq RangeOf(channel[writer[g].channel].buf) \cup {c}
    BY ONLY <1>a, <1>4, g \in Gens
  <2> QED
    BY ONLY <1>1, <1>3, <2>1, <2>2 DEF InOrder
<1> QED
  BY ONLY <1>2, <1>3, <1>4, <1>5, UNCHANGED <<writer, wire>> DEF OrderInv

\* send keeps the order.
LEMMA SenderOrder ==
  ASSUME TypeInv, OrderInv, NEW c \in Commands, Submit(c) \/ SenderStep(c)
  PROVE  OrderInv'
<1> USE DEF Submit, SenderStep, Send, SendOffer, SendDropOldest, SendOfferAgain
<1>a. sender \in [Commands -> SenderPcs] /\ ChannelType /\ commands \in 0..MaxGen
  BY DEF TypeInv, TypeOK, HandleType, SharedType
<1>b. UNCHANGED <<writer, wire>>
  BY DEF SenderFrame, coroutines, jobs, workers
<1>1. CASE Accept(c) /\ (Turn(c, "offer", "done") \/ Turn(c, "offerAgain", "done"))
  <2>1. sender[c] # "done" /\ sender' = [sender EXCEPT ![c] = "done"]
    BY ONLY <1>1 DEF Turn
  <2> QED
    BY ONLY TypeInv, OrderInv, c \in Commands, <1>b, <1>1, <2>1, AcceptOrder
<1>2. CASE UNCHANGED accepted /\ (UNCHANGED channel \/ Forget)
  <2>1. ChannelsShrink
    BY ONLY <1>a, <1>2, ForgetShrinks
  <2>2. \A d \in Commands : sender[d] = "done" => sender'[d] = "done"
    BY <1>a DEF Turn
  <2>3. QuietStep
    BY ONLY <1>b, <1>2, <2>1, <2>2 DEF QuietStep, WritersCarryOn
  <2> QED
    BY ONLY TypeInv, OrderInv, <2>3, QuietKeeps
<1> QED
  BY <1>1, <1>2 DEF queue

-----------------------------------------------------------------------------
(* The steps of the writer                                                 *)

\* A writer that takes no command and delivers none is quiet.
LEMMA WriterQuiet ==
  ASSUME TypeInv, NEW g \in Gens, UNCHANGED <<accepted, sender, channel, wire>>,
         NEW v, writer' = [writer EXCEPT ![g] = v],
         v.pc \notin {"none", "start"},
         v.pc \in Busy => writer[g].pc \in Busy /\ v.cmd = writer[g].cmd,
         v.channel = writer[g].channel \/ writer[g].pc = "start"
  PROVE  QuietStep
<1>1. \A h \in Gens : writer'[h] = IF h = g THEN v ELSE writer[h]
  BY DEF TypeInv, TypeOK, WorkerType
<1>2. WritersCarryOn
  BY ONLY <1>1, v.pc \notin {"none", "start"},
          v.pc \in Busy => writer[g].pc \in Busy /\ v.cmd = writer[g].cmd,
          v.channel = writer[g].channel \/ writer[g].pc = "start"
     DEF WritersCarryOn
<1> QED
  BY ONLY <1>2, UNCHANGED <<accepted, sender, channel, wire>>
     DEF QuietStep, ChannelsShrink

\* The only writer takes the oldest command of its channel.
LEMMA WriterTakesFirst ==
  ASSUME TypeInv, OrderInv, NEW g \in Gens, \A h \in Gens : h = g,
         WriterReceive(g), channel[writer[g].channel].buf # << >>, WriterFrame
  PROVE  OrderInv'
<1> DEFINE from == writer[g].channel
           s == channel[from].buf
<1>a. /\ channel \in [0..MaxGen -> [buf : Seq(Commands), closed : BOOLEAN]]
      /\ from \in 0..MaxGen /\ writer \in [Gens -> WriterRecords]
  BY DEF TypeInv, TypeOK, ChannelType, WorkerType, WriterRecords
<1>b. UNCHANGED <<accepted, sender, wire>>
  BY DEF WriterReceive, WriterFrame
<1>1. Order' = Order /\ AcceptedOnce'
  BY ONLY <1>b, OrderInv DEF Order, OrderInv, AcceptedOnce
<1>2. /\ writer[g].pc = "receive" /\ writer'[g].pc = "attempt"
      /\ writer'[g].cmd = Head(s) /\ writer'[g].channel = from
  BY <1>a DEF WriterReceive, WriterRecords
<1>3. /\ channel'[from].buf = Tail(s)
      /\ \A n \in 0..MaxGen : n # from => channel'[n] = channel[n]
  <2>1. channel' = [channel EXCEPT ![from].buf = Tail(@)]
    BY DEF WriterReceive
  <2> QED
    BY ONLY <1>a, <2>1
<1>4. s \in Seq(Commands) /\ s # << >> /\ Sorted(s, Order)
  BY <1>a DEF OrderInv
<1>5. InOrder(writer[g], RangeOf(s), RangeOf(wire), Order)
  BY DEF OrderInv
<1> HIDE DEF s
<1>6. /\ Head(s) \in RangeOf(s) /\ <<Head(s), Head(s)>> \in Order
      /\ \A d \in RangeOf(Tail(s)) : <<Head(s), d>> \in Order
  BY ONLY <1>4, HeadIsFirst
<1>7. Sorted(Tail(s), Order) /\ RangeOf(Tail(s)) \subseteq RangeOf(s)
  BY ONLY <1>4, SortedShrinks
<1>8. InOrder(writer'[g], RangeOf(Tail(s)), RangeOf(wire), Order)
  BY ONLY <1>2, <1>5, <1>6, <1>7 DEF InOrder, Busy
<1>9. \A n \in 0..MaxGen : Sorted(channel'[n].buf, Order)
  BY ONLY <1>3, <1>7, OrderInv DEF OrderInv
<1>10. \A h \in Gens : InOrder(writer'[h], RangeOf(channel'[writer'[h].channel].buf),
                              RangeOf(wire), Order)
  BY ONLY <1>2, <1>3, <1>8, \A h \in Gens : h = g
<1>11. Sorted(wire, Order)
  BY ONLY OrderInv DEF OrderInv
<1> QED
  BY ONLY <1>b, <1>1, <1>9, <1>10, <1>11 DEF OrderInv

\* The device gets the command the only writer holds.
LEMMA DeliverOrder ==
  ASSUME TypeInv, OrderInv, NEW g \in Gens, \A h \in Gens : h = g,
         UNCHANGED <<accepted, sender, channel>>, Deliver(g),
         writer[g].pc = "writing",
         writer'[g].channel = writer[g].channel,
         writer'[g].pc \in {"attempt", "report", "end"},
         writer'[g].cmd = writer[g].cmd
  PROVE  OrderInv'
<1> DEFINE c == writer[g].cmd
           rest == RangeOf(channel[writer[g].channel].buf)
<1>a. wire \in Seq(Commands) /\ c \in Commands /\ writer[g].pc \in Busy
  BY DEF TypeInv, TypeOK, HandleType, BusyHasCommand, Busy
<1>1. Order' = Order /\ AcceptedOnce'
  BY ONLY UNCHANGED <<accepted, sender>>, OrderInv DEF Order, OrderInv, AcceptedOnce
<1>2. Sorted(wire, Order) /\ InOrder(writer[g], rest, RangeOf(wire), Order)
  BY DEF OrderInv
<1>3. wire' = Append(wire, c)
  BY DEF Deliver
<1>4. /\ <<c, c>> \in Order
      /\ \A x \in RangeOf(wire) : <<x, c>> \in Order
      /\ \A d \in rest : <<c, d>> \in Order
      /\ \A x \in RangeOf(wire), d \in rest : <<x, d>> \in Order
  BY ONLY <1>a, <1>2 DEF InOrder
<1> HIDE DEF c, rest
<1>5. Sorted(wire', Order) /\ RangeOf(wire') = RangeOf(wire) \cup {c}
  BY ONLY <1>a, <1>2, <1>3, <1>4, SortedGrows
<1>6. writer'[g].cmd = c
  BY DEF c
<1>7. InOrder(writer'[g], rest, RangeOf(wire'), Order)
  BY ONLY <1>4, <1>5, <1>6, writer'[g].pc \in {"attempt", "report", "end"}
     DEF InOrder
<1>8. \A h \in Gens : InOrder(writer'[h], RangeOf(channel'[writer'[h].channel].buf),
                              RangeOf(wire'), Order)
  BY ONLY <1>7, \A h \in Gens : h = g, UNCHANGED channel,
          writer'[g].channel = writer[g].channel DEF rest
<1>9. \A n \in 0..MaxGen : Sorted(channel'[n].buf, Order)
  BY ONLY OrderInv, UNCHANGED channel DEF OrderInv
<1> QED
  BY ONLY <1>1, <1>5, <1>8, <1>9 DEF OrderInv

\* The only writer keeps the order.
LEMMA WriterOrder ==
  ASSUME TypeInv, OrderInv, NEW g \in Gens, \A h \in Gens : h = g,
         WriterStep(g) \/ WriterOutput(g) \/ WriterTimeout(g)
  PROVE  OrderInv'
<1> DEFINE w == writer[g]
<1>a. writer \in [Gens -> WriterRecords] /\ w \in WriterRecords
  BY DEF TypeInv, TypeOK, WorkerType
<1>b. UNCHANGED <<accepted, sender>> /\ WriterFrame
  BY DEF WriterStep, WriterOutput, WriterTimeout, WriterFrame
<1>1. CASE WriterReceive(g) /\ channel[w.channel].buf # << >>
  BY ONLY TypeInv, OrderInv, g \in Gens, \A h \in Gens : h = g, <1>b, <1>1, WriterTakesFirst
<1>2. CASE (WriterWritten(g) \/ WriterTimedOut(g)) /\ Deliver(g)
  <2>1. w.pc = "writing" /\ UNCHANGED channel
    BY <1>2 DEF WriterWritten, WriterTimedOut
  <2>2. /\ writer'[g].pc \in {"attempt", "report", "end"}
        /\ writer'[g].cmd = w.cmd /\ writer'[g].channel = w.channel
    <3>1. \/ writer'[g] = [w EXCEPT !.pc = "end"]
          \/ \E r \in {"Sent", "TimedOut"} : writer'[g] = AfterAttempt(g, r)
      BY <1>a, <1>2 DEF WriterWritten, WriterTimedOut
    <3>2. \A r : /\ AfterAttempt(g, r).pc \in {"attempt", "report"}
                 /\ AfterAttempt(g, r).cmd = w.cmd
                 /\ AfterAttempt(g, r).channel = w.channel
      BY ONLY <1>a DEF AfterAttempt, WriterRecords
    <3>3. LET v == [w EXCEPT !.pc = "end"]
          IN  v.pc = "end" /\ v.cmd = w.cmd /\ v.channel = w.channel
      BY ONLY <1>a DEF WriterRecords
    <3> QED
      BY ONLY <3>1, <3>2, <3>3
  <2> QED
    BY ONLY TypeInv, OrderInv, g \in Gens, \A h \in Gens : h = g, <1>b, <1>2, <2>1, <2>2,
            DeliverOrder
<1>3. CASE /\ UNCHANGED <<channel, wire>>
           /\ \E v : /\ writer' = [writer EXCEPT ![g] = v]
                     /\ v.pc \notin {"none", "start"}
                     /\ v.pc \in Busy => w.pc \in Busy /\ v.cmd = w.cmd
                     /\ v.channel = w.channel \/ w.pc = "start"
  <2>1. PICK v : /\ writer' = [writer EXCEPT ![g] = v]
                 /\ v.pc \notin {"none", "start"}
                 /\ v.pc \in Busy => w.pc \in Busy /\ v.cmd = w.cmd
                 /\ v.channel = w.channel \/ w.pc = "start"
    BY <1>3
  <2>2. QuietStep
    BY ONLY TypeInv, g \in Gens, <1>b, <1>3, <2>1, WriterQuiet
  <2> QED
    BY ONLY TypeInv, OrderInv, <2>2, QuietKeeps
<1>4. CASE WriterCancelled(g) \/ WriterStart(g)
           \/ (WriterReceive(g) /\ channel[w.channel].buf = << >>)
  <2>1. UNCHANGED <<channel, wire>>
    BY <1>4 DEF WriterCancelled, WriterStart, WriterReceive
  <2>2. writer' = [writer EXCEPT ![g].pc = "end"]
        \/ /\ w.pc = "start"
           /\ writer' = [writer EXCEPT ![g].pc = "receive", ![g].channel = commands]
    BY <1>4 DEF WriterCancelled, WriteGoto, WriterStart, WriterReceive
  <2>3. CASE writer' = [writer EXCEPT ![g].pc = "end"]
    <3> DEFINE v == [w EXCEPT !.pc = "end"]
    <3>1. writer' = [writer EXCEPT ![g] = v]
      BY ONLY <1>a, <2>3, g \in Gens
    <3>2. v.pc = "end" /\ v.channel = w.channel
      BY ONLY <1>a DEF WriterRecords
    <3> HIDE DEF v
    <3> QED
      BY ONLY <2>1, <3>1, <3>2, <1>3 DEF Busy
  <2>4. CASE /\ w.pc = "start"
             /\ writer' = [writer EXCEPT ![g].pc = "receive", ![g].channel = commands]
    <3> DEFINE v == [w EXCEPT !.pc = "receive", !.channel = commands]
    <3>1. writer' = [writer EXCEPT ![g] = v]
      BY ONLY <1>a, <2>4, g \in Gens
    <3>2. v.pc = "receive"
      BY ONLY <1>a DEF WriterRecords
    <3> HIDE DEF v
    <3> QED
      BY ONLY <2>1, <2>4, <3>1, <3>2, <1>3 DEF Busy
  <2> QED
    BY ONLY <2>2, <2>3, <2>4
<1>5. CASE WriterAttempt(g) \/ WriterReport(g) \/ WriterFailCas(g) \/ WriterSettle(g)
  <2>1. UNCHANGED <<channel, wire>> /\ w.pc \in Busy
    BY <1>5 DEF WriterAttempt, WriterReport, WriterFailCas, WriterSettle, WriteGoto, Busy
  <2>2. writer' = [writer EXCEPT ![g] = writer'[g]]
        /\ writer'[g].pc \in WriterPcs \ {"none", "start"}
        /\ writer'[g].channel = w.channel
        /\ (writer'[g].pc \in Busy => writer'[g].cmd = w.cmd)
    BY ONLY <1>a, <1>5, g \in Gens
       DEF WriterAttempt, WriterReport, WriterFailCas, WriterSettle, WriteGoto, Busy,
           WriterRecords, WriterPcs
  <2> QED
    BY ONLY <2>1, <2>2, <1>3
<1>6. CASE WriterThrows(g) \/ (WriterTimedOut(g) /\ UNCHANGED wire)
  <2>1. UNCHANGED <<channel, wire>> /\ w.pc = "writing"
    BY <1>6 DEF WriterThrows, WriterTimedOut
  <2>2. \E r \in {"TimedOut", "WriteFailed"} :
            writer' = [writer EXCEPT ![g] = AfterAttempt(g, r)]
    BY <1>6 DEF WriterThrows, WriterTimedOut
  <2>3. \A r : /\ AfterAttempt(g, r).pc \in {"attempt", "report"}
               /\ AfterAttempt(g, r).cmd = w.cmd
               /\ AfterAttempt(g, r).channel = w.channel
    BY ONLY <1>a DEF AfterAttempt, WriterRecords
  <2> QED
    BY ONLY <2>1, <2>2, <2>3, <1>3 DEF Busy
<1> QED
  <2>1. WriterWritten(g) => Deliver(g)
    BY DEF WriterWritten
  <2>2. WriterTimedOut(g) => UNCHANGED wire \/ Deliver(g)
    BY DEF WriterTimedOut
  <2> QED
    BY <1>1, <1>2, <1>4, <1>5, <1>6, <2>1, <2>2
       DEF WriterStep, WriterOutput, WriterTimeout

-----------------------------------------------------------------------------
(* The invariant and the order of the commands                             *)

\* At first no queue has taken a command.
LEMMA InitOrder == Init => OrderInv
<1> SUFFICES ASSUME Init PROVE OrderInv
  OBVIOUS
<1> USE DEF Init
<1>1. /\ Len(wire) = 0 /\ RangeOf(wire) = {} /\ Len(accepted) = 0
      /\ \A n \in 0..MaxGen : channel[n].buf = << >>
  BY DEF RangeOf
<1>2. \A g \in Gens : writer[g].pc = "none" /\ writer[g].channel = 0
  BY DEF Writer0
<1>3. Len(<< >>) = 0 /\ RangeOf(<< >>) = {} /\ 0 \in 0..MaxGen
  BY SessionAssumption DEF RangeOf
<1>4. AcceptedOnce /\ Sorted(wire, Order) /\ \A n \in 0..MaxGen : Sorted(channel[n].buf, Order)
  BY ONLY <1>1, <1>3 DEF AcceptedOnce, Sorted
<1>5. \A g \in Gens : InOrder(writer[g], RangeOf(channel[writer[g].channel].buf),
                             RangeOf(wire), Order)
  BY ONLY <1>1, <1>2, <1>3 DEF InOrder, Busy
<1> QED
  BY ONLY <1>4, <1>5 DEF OrderInv

\* Every step of a session with one generation of workers keeps the order.
LEMMA NextOrder ==
  ASSUME MaxGen = 1
  PROVE  TypeInv /\ HandleInv /\ OrderInv /\ [Next]_vars => OrderInv'
<1> SUFFICES ASSUME TypeInv, HandleInv, OrderInv, [Next]_vars PROVE OrderInv'
  OBVIOUS
<1>1. \A g, h \in Gens : h = g
  BY DEF Gens
<1>2. CASE \/ \E k \in Callers : Call(k) \/ CallerStep(k)
           \/ CloserStep
           \/ ReconnectStep
  BY ONLY TypeInv, HandleInv, OrderInv, <1>2, OutsideQuiet, QuietKeeps DEF HandleInv
<1>3. CASE \/ \E g \in Gens : ReaderStep(g) \/ ReaderInput(g)
           \/ \E c \in Commands : TimerStep(c)
  BY ONLY TypeInv, OrderInv, <1>3, AnswerQuiet, QuietKeeps
<1>4. ASSUME NEW c \in Commands, Submit(c) \/ SenderStep(c) PROVE OrderInv'
  BY ONLY TypeInv, OrderInv, <1>4, SenderOrder
<1>5. ASSUME NEW g \in Gens, WriterStep(g) \/ WriterOutput(g) \/ WriterTimeout(g)
      PROVE  OrderInv'
  BY ONLY TypeInv, OrderInv, <1>1, <1>5, WriterOrder
<1>6. CASE UNCHANGED vars
  <2>1. QuietStep
    BY <1>6 DEF vars, queue, coroutines, jobs, workers, handles, QuietStep,
           ChannelsShrink, WritersCarryOn
  <2> QED
    BY ONLY TypeInv, OrderInv, <2>1, QuietKeeps
<1> QED
  BY <1>2, <1>3, <1>4, <1>5, <1>6 DEF Next

\* A session that opens its port once, with any number of callers and commands
\* and every capacity, overflow and number of retries, writes the commands in
\* the order in which the queue took them (send:71, startWorkers:129-146).
THEOREM SessionWriteOrder == ASSUME MaxGen = 1 PROVE Spec => []WriteOrder
<1>1. OrderInv => WriteOrder
  <2> SUFFICES ASSUME OrderInv, NEW i \in 1..Len(wire), NEW j \in 1..Len(wire), i < j
               PROVE  \E m, n \in 1..Len(accepted) :
                          m <= n /\ accepted[m] = wire[i] /\ accepted[n] = wire[j]
    BY DEF WriteOrder
  <2>1. <<wire[i], wire[j]>> \in Order
    BY DEF OrderInv, Sorted
  <2> QED
    BY <2>1 DEF Order
<1>2. TypeInv /\ HandleInv /\ OrderInv /\ [Next]_vars => OrderInv'
  BY NextOrder
<1> QED
  BY <1>1, <1>2, InitOrder, SpecTypeInv, SpecHonest, PTL DEF Spec
=============================================================================
