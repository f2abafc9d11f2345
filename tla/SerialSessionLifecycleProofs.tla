-------------------- MODULE SerialSessionLifecycleProofs --------------------
(***************************************************************************)
(* What TLAPS proves of the life of a session: who works for it, when it   *)
(* can be used, how it ends and what it holds open.                        *)
(***************************************************************************)
EXTENDS SerialSessionProofs, FiniteSetTheorems

-----------------------------------------------------------------------------
(* Who works                                                               *)

\* A step that lets no worker begin.
NoneBegins ==
    \A g \in Gens : /\ Live(reader'[g]) => Live(reader[g])
                    /\ Live(writer'[g]) => Live(writer[g])

\* The job of the field is cancelled, and every worker goes on where it was.
LEMMA ReaderCancel ==
  ASSUME reader \in [Gens -> ReaderRecords], CancelReader, NEW g \in Gens
  PROVE  /\ reader'[g].pc = reader[g].pc /\ reader'[g].on = reader[g].on
         /\ reader'[g].cancelled <=> reader[g].cancelled \/ g = readerJob
<1> DEFINE r == [reader[g] EXCEPT !.cancelled = reader[g].cancelled \/ g = readerJob]
<1>1. reader'[g] = r /\ reader[g] \in ReaderRecords
  BY DEF CancelReader
<1>2. /\ r.pc = reader[g].pc /\ r.on = reader[g].on
      /\ r.cancelled <=> reader[g].cancelled \/ g = readerJob
  BY ONLY <1>1 DEF ReaderRecords
<1> QED
  BY ONLY <1>1, <1>2

LEMMA WriterCancel ==
  ASSUME writer \in [Gens -> WriterRecords], CancelWriter, NEW g \in Gens
  PROVE  /\ writer'[g].pc = writer[g].pc /\ writer'[g].on = writer[g].on
         /\ writer'[g].outcome = writer[g].outcome
         /\ writer'[g].cancelled <=> writer[g].cancelled \/ g = writerJob
<1> DEFINE w == [writer[g] EXCEPT !.cancelled = writer[g].cancelled \/ g = writerJob]
<1>1. writer'[g] = w /\ writer[g] \in WriterRecords
  BY DEF CancelWriter
<1>2. /\ w.pc = writer[g].pc /\ w.on = writer[g].on
      /\ w.outcome = writer[g].outcome
      /\ w.cancelled <=> writer[g].cancelled \/ g = writerJob
  BY ONLY <1>1 DEF WriterRecords
<1> QED
  BY ONLY <1>1, <1>2

\* Cancelling lets no worker begin, and ends the job that the field holds.
LEMMA CancelLive ==
  ASSUME TypeInv,
         \/ CancelReader /\ UNCHANGED writer
         \/ CancelWriter /\ UNCHANGED reader
  PROVE  /\ NoneBegins
         /\ CancelReader => \A g \in Gens : Live(reader'[g]) => g # readerJob
         /\ CancelWriter => \A g \in Gens : Live(writer'[g]) => g # writerJob
<1>1. reader \in [Gens -> ReaderRecords] /\ writer \in [Gens -> WriterRecords]
  BY DEF TypeInv, TypeOK, WorkerType
<1>2. CancelReader => \A g \in Gens :
        /\ reader'[g].pc = reader[g].pc
        /\ reader'[g].cancelled <=> reader[g].cancelled \/ g = readerJob
  BY ONLY <1>1, ReaderCancel
<1>3. CancelWriter => \A g \in Gens :
        /\ writer'[g].pc = writer[g].pc
        /\ writer'[g].cancelled <=> writer[g].cancelled \/ g = writerJob
  BY ONLY <1>1, WriterCancel
<1> QED
  BY <1>2, <1>3 DEF NoneBegins, Live

\* A new channel begins one reader.
LEMMA ChannelBegins ==
  ASSUME TypeInv, NewChannel
  PROVE  \A g \in Gens : g # gen + 1 => reader'[g] = reader[g]
BY DEF TypeInv, TypeOK, WorkerType, NewChannel

\* Storing the reader's job begins one writer.
LEMMA ReaderBegins ==
  ASSUME TypeInv, NEW g, StoreReader(g)
  PROVE  \A h \in Gens : h # g => writer'[h] = writer[h]
BY DEF TypeInv, TypeOK, WorkerType, StoreReader

\* A step of a reader lets none begin, and leaves those that never were.
LEMMA ReaderLive ==
  ASSUME TypeInv, NEW g \in Gens, ReaderStep(g) \/ ReaderInput(g)
  PROVE  /\ NoneBegins /\ writer' = writer /\ reader[g].pc # "none"
         /\ \A h \in Gens : /\ h # g => reader'[h] = reader[h]
                            /\ reader'[h].cancelled = reader[h].cancelled
                            /\ reader[h].pc = "none" => reader'[h].pc = "none"
<1> USE DEF ReaderStep, ReaderInput, ReaderCancelled, ReaderStart, ReaderCall,
      ReaderRespond, ReaderClear, ReaderFail, ReaderFailCas, ReaderData,
      ReaderThrows, ReaderFrame, ReadGoto
<1>1. reader \in [Gens -> ReaderRecords]
  BY DEF TypeInv, TypeOK, WorkerType
<1>2. writer' = writer /\ reader[g].pc \notin {"none", "end"}
  OBVIOUS
<1>3. \A h \in Gens : /\ h # g => reader'[h] = reader[h]
                      /\ reader'[h].cancelled = reader[h].cancelled
  BY <1>1 DEF ReaderRecords
<1> QED
  BY ONLY <1>2, <1>3 DEF NoneBegins, Live

\* A step of a writer lets none begin, and leaves those that never were.
LEMMA WriterLive ==
  ASSUME TypeInv, NEW g \in Gens, WriterStep(g) \/ WriterOutput(g) \/ WriterTimeout(g)
  PROVE  /\ NoneBegins /\ reader' = reader /\ writer[g].pc # "none"
         /\ \A h \in Gens : /\ h # g => writer'[h] = writer[h]
                            /\ writer'[h].cancelled = writer[h].cancelled
                            /\ writer[h].pc = "none" => writer'[h].pc = "none"
<1> USE DEF WriterStep, WriterOutput, WriterTimeout, WriterCancelled, WriterStart,
      WriterReceive, WriterAttempt, WriterReport, WriterFailCas, WriterSettle,
      WriterWritten, WriterThrows, WriterTimedOut, WriterFrame, WriteGoto, AfterAttempt
<1>1. writer \in [Gens -> WriterRecords]
  BY DEF TypeInv, TypeOK, WorkerType
<1>2. reader' = reader /\ writer[g].pc \notin {"none", "end"}
  OBVIOUS
<1>3. \E w : writer' = [writer EXCEPT ![g] = w] /\ w.cancelled = writer[g].cancelled
  <2>1. writer[g] \in WriterRecords
    BY ONLY <1>1, g \in Gens
  <2>2. CASE WriterCancelled(g) \/ WriterReport(g) \/ WriterFailCas(g)
    <3>1. PICK pc : writer' = [writer EXCEPT ![g].pc = pc]
      BY ONLY <2>2 DEF WriterCancelled, WriterReport, WriterFailCas, WriteGoto
    <3> DEFINE w == [writer[g] EXCEPT !.pc = pc]
    <3>2. writer' = [writer EXCEPT ![g] = w]
      BY ONLY <1>1, <3>1
    <3>3. w.cancelled = writer[g].cancelled
      BY ONLY <2>1 DEF WriterRecords
    <3> HIDE DEF w
    <3> QED
      BY ONLY <3>2, <3>3
  <2>3. CASE WriterStart(g) \/ WriterAttempt(g) \/ WriterSettle(g)
    BY ONLY <2>1, <2>3 DEF WriterStart, WriterAttempt, WriterSettle, WriterRecords
  <2>4. CASE WriterReceive(g)
    BY ONLY <2>1, <2>4 DEF WriterReceive, WriterRecords
  <2>5. CASE WriterWritten(g) \/ WriterThrows(g) \/ WriterTimedOut(g)
    <3>1. \E w : /\ writer' = [writer EXCEPT ![g] = w]
                 /\ \/ w = [writer[g] EXCEPT !.pc = "end"]
                    \/ \E o : w = AfterAttempt(g, o)
      BY ONLY <2>5 DEF WriterWritten, WriterThrows, WriterTimedOut
    <3>2. [writer[g] EXCEPT !.pc = "end"].cancelled = writer[g].cancelled
      BY ONLY <2>1 DEF WriterRecords
    <3>3. \A o : AfterAttempt(g, o).cancelled = writer[g].cancelled
      BY ONLY <2>1 DEF WriterRecords, AfterAttempt
    <3> QED
      BY ONLY <3>1, <3>2, <3>3
  <2> QED
    BY ONLY <2>2, <2>3, <2>4, <2>5, WriterStep(g) \/ WriterOutput(g) \/ WriterTimeout(g)
       DEF WriterStep, WriterOutput, WriterTimeout
<1>4. \A h \in Gens : /\ h # g => writer'[h] = writer[h]
                      /\ writer'[h].cancelled = writer[h].cancelled
  BY ONLY <1>1, <1>3
<1> QED
  BY ONLY <1>2, <1>4 DEF NoneBegins, Live

\* The closer lets none begin.
LEMMA CloserLive ==
  ASSUME TypeInv, CloserStep
  PROVE  NoneBegins
<1>1. reader \in [Gens -> ReaderRecords] /\ writer \in [Gens -> WriterRecords]
  BY DEF TypeInv, TypeOK, WorkerType
<1>2. CASE UNCHANGED workers
  BY ONLY <1>2 DEF workers, NoneBegins
<1>3. CASE CloserCancel
  BY ONLY TypeInv, <1>3, CancelLive DEF CloserCancel
<1>4. CASE CloserCancelScope
  BY ONLY <1>1, <1>4
     DEF CloserCancelScope, NoneBegins, Live, ReaderRecords, WriterRecords
<1> QED
  BY ONLY <1>2, <1>3, <1>4, CloserStep
     DEF CloserStep, CloserClosePort, CloserCloseChannel, CloserClosed

-----------------------------------------------------------------------------
(* One connect: at most one writer and one reader run on without a field   *)

\* The workers that run and are not the ones the session works with.  While the
\* reconnection installs a worker, that is its own; else it is the field's job,
\* which is cancelled before.
Replacing ==
    {"closePort", "loop", "delay", "open", "channel", "reader", "writer"}
Spare(worker, job, replaced, launched) ==
    {g \in Gens :
        /\ Live(worker[g])
        /\ g = job => reconnector.pc \in replaced
        /\ g = reconnector.own => reconnector.pc # launched}
SpareWriters == Spare(writer, writerJob, Replacing, "writer")
SpareReaders ==
    Spare(reader, readerJob, (Replacing \ {"writer"}) \cup {"cancelWriter"}, "reader")

\* There is none before the one connect launches its worker, then at most that
\* one until its job is stored, then at most one.
Few(spare, before, stored) ==
    /\ calls = 0 \/ (\E k \in Callers : caller[k] \in before) => spare = {}
    /\ \A k \in Callers : caller[k] = stored => spare \subseteq {own[k]}
    /\ \A g, h \in spare : g = h
FewWriters == Few(SpareWriters, {"connect", "open", "channel", "reader"}, "writer")
FewReaders == Few(SpareReaders, {"connect", "open", "channel"}, "reader")

\* One caller is anywhere, and none before its call.
OneCalls ==
    \A k \in Callers : caller[k] # "ready" =>
        calls # 0 /\ \A j \in Callers : j # k => caller[j] = "ready"

Reconnects == reconnector.pc # "off" => reconnecting

OnceInv == calls <= 1 => OneCalls /\ Reconnects /\ FewWriters /\ FewReaders

\* A step that lets no worker begin and leaves the fields, and starts at most a
\* reconnection, adds no spare worker.
LEMMA SpareKept ==
  ASSUME TypeInv, Reconnects, NoneBegins, UNCHANGED <<readerJob, writerJob>>,
         FailReconnect \/ UNCHANGED <<reconnector, reconnecting>>
  PROVE  /\ Reconnects'
         /\ SpareReaders' \subseteq SpareReaders
         /\ SpareWriters' \subseteq SpareWriters
<1>1. Reconnects'
  BY DEF Reconnects, FailReconnect
<1>2. \/ reconnector' = reconnector
      \/ reconnector.pc = "off" /\ reconnector'.pc = "cancel"
  BY DEF Reconnects, FailReconnect
<1>3. SpareReaders' \subseteq SpareReaders
  BY ONLY <1>2, NoneBegins, UNCHANGED readerJob
     DEF SpareReaders, Spare, Replacing, NoneBegins, Gens
<1>4. SpareWriters' \subseteq SpareWriters
  BY ONLY <1>2, NoneBegins, UNCHANGED writerJob
     DEF SpareWriters, Spare, Replacing, NoneBegins, Gens
<1> QED
  BY ONLY <1>1, <1>3, <1>4

\* A step that adds no spare worker and leaves the callers.
LEMMA OnceKept ==
  ASSUME OnceInv, UNCHANGED <<caller, calls, own>>,
         calls <= 1 /\ Reconnects =>
            /\ Reconnects'
            /\ SpareReaders' \subseteq SpareReaders
            /\ SpareWriters' \subseteq SpareWriters
  PROVE  OnceInv'
<1> SUFFICES ASSUME calls <= 1 PROVE (OneCalls /\ Reconnects /\ FewWriters /\ FewReaders)'
  BY DEF OnceInv
<1>1. /\ OneCalls /\ FewWriters /\ FewReaders /\ Reconnects'
      /\ SpareReaders' \subseteq SpareReaders /\ SpareWriters' \subseteq SpareWriters
  BY DEF OnceInv
<1>2. OneCalls'
  BY ONLY <1>1, UNCHANGED <<caller, calls>> DEF OneCalls
<1>3. FewWriters'
  BY ONLY <1>1, UNCHANGED <<caller, calls, own>> DEF FewWriters, Few
<1>4. FewReaders'
  BY ONLY <1>1, UNCHANGED <<caller, calls, own>> DEF FewReaders, Few
<1> QED
  BY ONLY <1>1, <1>2, <1>3, <1>4

\* Readers, writers, the closer, send and the timers.
LEMMA OtherOnce ==
  ASSUME TypeInv, OnceInv,
         \/ \E c \in Commands : Submit(c) \/ SenderStep(c) \/ TimerStep(c)
         \/ \E g \in Gens : ReaderStep(g) \/ ReaderInput(g)
         \/ \E g \in Gens : WriterStep(g) \/ WriterOutput(g) \/ WriterTimeout(g)
         \/ CloserStep
         \/ UNCHANGED vars
  PROVE  OnceInv'
<1>1. /\ NoneBegins /\ UNCHANGED <<readerJob, writerJob, caller, calls, own>>
      /\ FailReconnect \/ UNCHANGED <<reconnector, reconnecting>>
  <2>1. ASSUME NEW c \in Commands, Submit(c) \/ SenderStep(c) \/ TimerStep(c)
        PROVE  <1>1
    <3>1. UNCHANGED <<reader, writer, readerJob, writerJob, caller, calls, own,
                      reconnector, reconnecting>>
      BY <2>1 DEF Submit, SenderStep, SenderFrame, TimerStep, shared, fields,
         coroutines, jobs, workers, bounds
    <3> QED
      BY ONLY <3>1 DEF NoneBegins
  <2>2. ASSUME NEW g \in Gens, ReaderStep(g) \/ ReaderInput(g) PROVE <1>1
    <3>1. NoneBegins
      BY <2>2, ReaderLive
    <3>2. UNCHANGED <<readerJob, writerJob, caller, calls, own>>
      BY <2>2 DEF ReaderStep, ReaderInput, ReaderFrame
    <3>3. FailReconnect \/ UNCHANGED <<reconnector, reconnecting>>
      BY <2>2 DEF ReaderStep, ReaderInput, ReaderCancelled, ReaderStart, ReaderCall,
         ReaderRespond, ReaderClear, ReaderFail, ReaderFailCas, ReaderData, ReaderThrows
    <3> QED
      BY ONLY <3>1, <3>2, <3>3
  <2>3. ASSUME NEW g \in Gens, WriterStep(g) \/ WriterOutput(g) \/ WriterTimeout(g)
        PROVE  <1>1
    <3>1. NoneBegins
      BY <2>3, WriterLive
    <3>2. UNCHANGED <<readerJob, writerJob, caller, calls, own>>
      BY <2>3 DEF WriterStep, WriterOutput, WriterTimeout, WriterFrame
    <3>3. FailReconnect \/ UNCHANGED <<reconnector, reconnecting>>
      BY <2>3 DEF WriterStep, WriterOutput, WriterTimeout, WriterCancelled,
         WriterStart, WriterReceive, WriterAttempt, WriterReport, WriterFailCas,
         WriterSettle, WriterWritten, WriterThrows, WriterTimedOut
    <3> QED
      BY ONLY <3>1, <3>2, <3>3
  <2>4. CASE CloserStep
    <3>1. UNCHANGED <<readerJob, writerJob, caller, calls, own, reconnector, reconnecting>>
      BY <2>4 DEF CloserStep, bounds, fields
    <3>2. NoneBegins
      BY ONLY TypeInv, <2>4, CloserLive
    <3> QED
      BY ONLY <3>1, <3>2
  <2>5. CASE UNCHANGED vars
    BY ONLY <2>5 DEF vars, shared, fields, coroutines, jobs, workers, bounds, NoneBegins
  <2> QED
    BY ONLY <2>1, <2>2, <2>3, <2>4, <2>5,
       \/ \E c \in Commands : Submit(c) \/ SenderStep(c) \/ TimerStep(c)
       \/ \E g \in Gens : ReaderStep(g) \/ ReaderInput(g)
       \/ \E g \in Gens : WriterStep(g) \/ WriterOutput(g) \/ WriterTimeout(g)
       \/ CloserStep
       \/ UNCHANGED vars
<1> QED
  BY ONLY TypeInv, OnceInv, <1>1, SpareKept, OnceKept

\* The reconnection cancels the job of the field before it installs its own, which
\* the field then holds.
LEMMA ReconnectOnce ==
  ASSUME TypeInv, OnceInv, ReconnectStep
  PROVE  OnceInv'
<1>a. /\ reconnector \in [pc : ReconnectPcs, attempt : Nat, own : 0..MaxGen]
      /\ gen \in 0..MaxGen
  BY DEF TypeInv, TypeOK, CoroutineType, BoundType
<1>1. UNCHANGED <<caller, calls, own>> /\ reconnector.pc # "off"
  BY DEF ReconnectStep, ReconnectCancelled, ReconnectCancel, ReconnectClosePort,
     ReconnectLoop, ReconnectBegin, ReconnectOpen, ReconnectChannel,
     ReconnectReader, ReconnectWriter, ReconnectDone, ReconnectFinally, Pass
<1>2. reconnecting' = reconnecting \/ reconnector'.pc = "off"
  BY <1>a DEF ReconnectStep, ReconnectCancelled, ReconnectCancel, ReconnectClosePort,
     ReconnectLoop, ReconnectBegin, ReconnectOpen, ReconnectChannel,
     ReconnectReader, ReconnectWriter, ReconnectDone, ReconnectFinally, Pass
<1>3. Reconnects => Reconnects'
  BY ONLY <1>1, <1>2 DEF Reconnects
<1>4. /\ SpareReaders' \subseteq SpareReaders
      /\ SpareWriters' \subseteq SpareWriters
  <2>1. CASE ReconnectCancel
    <3>1. NoneBegins /\ UNCHANGED <<readerJob, writerJob>>
      BY ONLY TypeInv, <2>1, CancelLive DEF ReconnectCancel
    <3>2. \/ /\ reconnector.pc = "cancel" /\ reconnector'.pc = "cancelWriter"
             /\ \A g \in Gens : Live(reader'[g]) => g # readerJob
             /\ UNCHANGED writer
          \/ /\ reconnector.pc = "cancelWriter" /\ reconnector'.pc = "closePort"
             /\ \A g \in Gens : Live(writer'[g]) => g # writerJob
             /\ UNCHANGED reader
      BY ONLY <1>a, TypeInv, <2>1, CancelLive DEF ReconnectCancel, Pass
    <3>3. SpareReaders' \subseteq SpareReaders
      BY ONLY <3>1, <3>2 DEF SpareReaders, Spare, Replacing, NoneBegins, Gens
    <3>4. SpareWriters' \subseteq SpareWriters
      BY ONLY <3>1, <3>2 DEF SpareWriters, Spare, Replacing, NoneBegins, Gens
    <3> QED
      BY ONLY <3>3, <3>4
  <2>2. CASE ReconnectChannel
    <3>1. /\ reconnector.pc = "channel" /\ reconnector'.pc = "reader"
          /\ reconnector'.own = gen + 1 /\ UNCHANGED <<readerJob, writerJob, writer>>
          /\ \A g \in Gens : g # gen + 1 => reader'[g] = reader[g]
      BY ONLY <1>a, TypeInv, <2>2, ChannelBegins DEF ReconnectChannel
    <3>2. SpareReaders' \subseteq SpareReaders
      BY ONLY <3>1 DEF SpareReaders, Spare, Replacing, Gens
    <3>3. SpareWriters' \subseteq SpareWriters
      BY ONLY <3>1 DEF SpareWriters, Spare, Replacing, Gens
    <3> QED
      BY ONLY <3>2, <3>3
  <2>3. CASE ReconnectReader
    <3>1. /\ reconnector.pc = "reader" /\ reconnector'.pc = "writer"
          /\ reconnector'.own = reconnector.own /\ readerJob' = reconnector.own
          /\ UNCHANGED <<writerJob, reader>>
          /\ \A g \in Gens : g # reconnector.own => writer'[g] = writer[g]
      <4>1. StoreReader(reconnector.own) /\ UNCHANGED <<writerJob, reader>>
        BY ONLY <2>3 DEF ReconnectReader
      <4>2. \A g \in Gens : g # reconnector.own => writer'[g] = writer[g]
        BY ONLY TypeInv, <4>1, ReaderBegins
      <4>3. /\ reconnector.pc = "reader" /\ reconnector'.pc = "writer"
            /\ reconnector'.own = reconnector.own
        BY ONLY <1>a, <2>3 DEF ReconnectReader, Pass
      <4> QED
        BY ONLY <4>1, <4>2, <4>3 DEF StoreReader
    <3>2. SpareReaders' \subseteq SpareReaders
      BY ONLY <3>1 DEF SpareReaders, Spare, Replacing, Gens
    <3>3. SpareWriters' \subseteq SpareWriters
      BY ONLY <3>1 DEF SpareWriters, Spare, Replacing, Gens
    <3> QED
      BY ONLY <3>2, <3>3
  <2>4. CASE ReconnectWriter
    <3>1. /\ reconnector.pc = "writer" /\ reconnector'.pc = "connected"
          /\ writerJob' = reconnector.own /\ UNCHANGED <<readerJob, reader, writer>>
      BY ONLY <1>a, <2>4 DEF ReconnectWriter, StoreWriter, workers
    <3>2. SpareReaders' \subseteq SpareReaders
      BY ONLY <3>1 DEF SpareReaders, Spare, Replacing, Gens
    <3>3. SpareWriters' \subseteq SpareWriters
      BY ONLY <3>1 DEF SpareWriters, Spare, Replacing, Gens
    <3> QED
      BY ONLY <3>2, <3>3
  <2>5. CASE \/ ReconnectCancelled \/ ReconnectClosePort \/ ReconnectLoop
             \/ ReconnectBegin \/ ReconnectOpen \/ ReconnectDone \/ ReconnectFinally
    <3>1. /\ UNCHANGED <<readerJob, writerJob, reader, writer>>
          /\ reconnector.pc \notin {"reader", "writer"}
          /\ \/ reconnector.pc \in Replacing /\ reconnector'.pc \in {"loop", "delay",
                    "open", "channel", "finally"}
             \/ reconnector.pc \notin Replacing \cup {"cancelWriter"}
                /\ reconnector'.pc \in {"finally", "off"}
      <4>1. UNCHANGED <<readerJob, writerJob, reader, writer>>
        BY ONLY <2>5
           DEF ReconnectCancelled, ReconnectClosePort, ReconnectLoop, ReconnectBegin,
               ReconnectOpen, ReconnectDone, ReconnectFinally, workers
      <4>2. \A from, to : Pass(from, to) => reconnector.pc = from /\ reconnector'.pc = to
        BY ONLY <1>a DEF Pass
      <4>3. \/ Pass("cancel", "off") \/ Pass("delay", "finally")
            \/ Pass("closePort", "loop") \/ Pass("loop", "finally")
            \/ Pass("loop", "delay") \/ Pass("delay", "open")
            \/ Pass("open", "channel") \/ Pass("connected", "finally")
            \/ Pass("finally", "off")
            \/ /\ reconnector.pc = "open"
               /\ reconnector' = [reconnector EXCEPT !.pc = "loop", !.attempt = @ + 1]
        BY ONLY <2>5
           DEF ReconnectCancelled, ReconnectClosePort, ReconnectLoop, ReconnectBegin,
               ReconnectOpen, ReconnectDone, ReconnectFinally
      <4>4. reconnector' = [reconnector EXCEPT !.pc = "loop", !.attempt = @ + 1] =>
                reconnector'.pc = "loop"
        BY ONLY <1>a
      <4> QED
        BY ONLY <4>1, <4>2, <4>3, <4>4 DEF Replacing
    <3>2. SpareReaders' \subseteq SpareReaders
      BY ONLY <3>1 DEF SpareReaders, Spare, Replacing, Gens
    <3>3. SpareWriters' \subseteq SpareWriters
      BY ONLY <3>1 DEF SpareWriters, Spare, Replacing, Gens
    <3> QED
      BY ONLY <3>2, <3>3
  <2> QED
    BY ONLY <2>1, <2>2, <2>3, <2>4, <2>5, ReconnectStep DEF ReconnectStep
<1> QED
  BY ONLY OnceInv, <1>1, <1>3, <1>4, OnceKept

\* Storing a job lets at most the job stored before run on.
LEMMA StoreSpares ==
  ASSUME NEW worker, NEW old, NEW new, NEW replaced, NEW launched,
         Spare(worker, old, replaced, launched) \subseteq {new}
  PROVE  \A g, h \in Spare(worker, new, replaced, launched) : g = h
<1>1. CASE reconnector.pc \in replaced
  BY <1>1 DEF Spare
<1>2. CASE reconnector.pc \notin replaced
  <2>1. Spare(worker, new, replaced, launched) \subseteq {old}
    BY <1>2 DEF Spare
  <2> QED
    BY ONLY <2>1
<1> QED
  BY <1>1, <1>2

\* The one call of connect or disconnect.
LEMMA CallOnce ==
  ASSUME TypeInv, OnceInv, NEW k \in Callers, Call(k)
  PROVE  OnceInv'
<1>1. CASE Close(k)
  <2>1. /\ UNCHANGED <<readerJob, writerJob, reconnector, reconnecting, caller,
                       calls, own>>
        /\ NoneBegins
    BY <1>1 DEF Close, workers, NoneBegins
  <2> QED
    BY ONLY TypeInv, OnceInv, <2>1, SpareKept, OnceKept
<1>2. CASE Connect(k) \/ Disconnect(k)
  <2> SUFFICES ASSUME calls' <= 1
               PROVE  (OneCalls /\ Reconnects /\ FewWriters /\ FewReaders)'
    BY DEF OnceInv
  <2>1. /\ calls \in Nat /\ caller \in [Callers -> CallerPcs]
        /\ UNCHANGED <<reader, writer, readerJob, writerJob, reconnector, reconnecting>>
        /\ calls' = calls + 1 /\ \E pc : caller' = [caller EXCEPT ![k] = pc]
    BY <1>2 DEF Connect, Disconnect, Goto, fields, jobs, workers, TypeInv, TypeOK,
       BoundType, CoroutineType
  <2>2. calls = 0 /\ calls' = 1
    BY ONLY <2>1, calls' <= 1
  <2>3. OneCalls /\ Reconnects /\ SpareWriters = {} /\ SpareReaders = {}
    BY <2>2 DEF OnceInv, FewWriters, FewReaders, Few
  <2>4. OneCalls'
    BY ONLY <2>1, <2>2, <2>3 DEF OneCalls
  <2>5. SpareWriters' = {} /\ SpareReaders' = {}
    BY ONLY <2>1, <2>3 DEF SpareWriters, SpareReaders, Spare
  <2>6. Reconnects'
    BY ONLY <2>1, <2>3 DEF Reconnects
  <2> QED
    BY ONLY <2>4, <2>5, <2>6 DEF FewWriters, FewReaders, Few
<1> QED
  BY <1>1, <1>2 DEF Call

\* The steps of the one connect or disconnect.
LEMMA CallerOnce ==
  ASSUME TypeInv, OnceInv, NEW k \in Callers, CallerStep(k)
  PROVE  OnceInv'
<1> SUFFICES ASSUME calls <= 1
             PROVE  (OneCalls /\ Reconnects /\ FewWriters /\ FewReaders)'
  <2>1. calls' = calls
    BY DEF CallerStep, ConnectBegin, ConnectOpen, ConnectChannel, ConnectReader,
       ConnectWriter, ConnectDone, ConnectFail, ConnectFailCas, DisconnectBegin,
       DisconnectCancel, DisconnectForget, DisconnectClosePort, DisconnectDone
  <2> QED
    BY <2>1 DEF OnceInv
<1>1. OneCalls /\ Reconnects /\ FewWriters /\ FewReaders
  BY DEF OnceInv
<1>2. caller \in [Callers -> CallerPcs] /\ own \in [Callers -> 0..MaxGen]
  BY DEF TypeInv, TypeOK, CoroutineType, BoundType
<1>3. ASSUME NEW from, NEW to, Goto(k, from, to), from # "ready"
      PROVE  /\ caller[k] = from /\ caller'[k] = to
             /\ \A j \in Callers : j # k => caller[j] = "ready" /\ caller'[j] = "ready"
             /\ calls # 0
  BY ONLY <1>1, <1>2, <1>3, k \in Callers DEF Goto, OneCalls
<1>4. CASE ConnectChannel(k)
  <2>1. /\ NewChannel /\ Goto(k, "channel", "reader")
        /\ own' = [own EXCEPT ![k] = gen + 1]
        /\ UNCHANGED <<calls, writer, writerJob, readerJob, reconnector, reconnecting>>
    BY <1>4 DEF ConnectChannel
  <2>2. /\ caller[k] = "channel" /\ caller'[k] = "reader"
        /\ \A j \in Callers : j # k => caller[j] = "ready" /\ caller'[j] = "ready"
        /\ calls' # 0
    BY ONLY <1>3, <2>1
  <2>3. SpareWriters' = {} /\ SpareReaders = {}
    BY ONLY <1>1, <2>1, <2>2
       DEF FewWriters, FewReaders, Few, SpareWriters, Spare
  <2>4. SpareReaders' \subseteq {own'[k]}
    <3>1. \A g \in Gens : g # gen + 1 => reader'[g] = reader[g]
      BY ONLY TypeInv, <2>1, ChannelBegins
    <3>2. own'[k] = gen + 1
      BY ONLY <1>2, <2>1
    <3> QED
      BY ONLY <2>1, <2>3, <3>1, <3>2 DEF SpareReaders, Spare, Gens
  <2>5. FewReaders'
    BY ONLY <2>2, <2>4 DEF FewReaders, Few
  <2>6. FewWriters'
    BY ONLY <2>3 DEF FewWriters, Few
  <2>7. OneCalls' /\ Reconnects'
    BY ONLY <1>1, <2>1, <2>2 DEF OneCalls, Reconnects
  <2> QED
    BY ONLY <2>5, <2>6, <2>7
<1>5. CASE ConnectReader(k)
  <2>1. /\ StoreReader(own[k]) /\ Goto(k, "reader", "writer")
        /\ UNCHANGED <<calls, own, reader, writerJob, reconnector, reconnecting>>
    BY <1>5 DEF ConnectReader
  <2>2. /\ caller[k] = "reader" /\ caller'[k] = "writer"
        /\ \A j \in Callers : j # k => caller[j] = "ready" /\ caller'[j] = "ready"
        /\ calls' # 0
    BY ONLY <1>3, <2>1
  <2>3. SpareWriters = {} /\ SpareReaders \subseteq {own[k]}
    BY ONLY <1>1, <2>2 DEF FewWriters, FewReaders, Few
  <2>4. \A g, h \in SpareReaders' : g = h
    <3>1. SpareReaders' = Spare(reader, own[k],
                                (Replacing \ {"writer"}) \cup {"cancelWriter"}, "reader")
      BY ONLY <2>1 DEF StoreReader, SpareReaders, Spare, Replacing
    <3> QED
      BY ONLY <2>3, <3>1, StoreSpares DEF SpareReaders
  <2>5. SpareWriters' \subseteq {own'[k]}
    <3>1. \A g \in Gens : g # own[k] => writer'[g] = writer[g]
      BY ONLY TypeInv, <2>1, ReaderBegins
    <3> QED
      BY ONLY <2>1, <2>3, <3>1 DEF SpareWriters, Spare, Gens
  <2>6. FewReaders'
    BY ONLY <2>2, <2>4 DEF FewReaders, Few
  <2>7. FewWriters'
    BY ONLY <2>2, <2>5 DEF FewWriters, Few
  <2>8. OneCalls' /\ Reconnects'
    BY ONLY <1>1, <2>1, <2>2 DEF OneCalls, Reconnects
  <2> QED
    BY ONLY <2>6, <2>7, <2>8
<1>6. CASE ConnectWriter(k)
  <2>1. /\ StoreWriter(own[k]) /\ Goto(k, "writer", "connected")
        /\ UNCHANGED <<calls, reader, writer, readerJob, reconnector, reconnecting>>
    BY <1>6 DEF ConnectWriter, jobs, workers
  <2>2. /\ caller[k] = "writer" /\ caller'[k] = "connected"
        /\ \A j \in Callers : j # k => caller[j] = "ready" /\ caller'[j] = "ready"
        /\ calls' # 0
    BY ONLY <1>3, <2>1
  <2>3. SpareWriters \subseteq {own[k]} /\ \A g, h \in SpareReaders : g = h
    BY ONLY <1>1, <2>2 DEF FewWriters, FewReaders, Few
  <2>4. SpareReaders' = SpareReaders
    BY ONLY <2>1 DEF SpareReaders, Spare
  <2>5. \A g, h \in SpareWriters' : g = h
    <3>1. SpareWriters' = Spare(writer, own[k], Replacing, "writer")
      BY ONLY <2>1 DEF StoreWriter, SpareWriters, Spare, Replacing
    <3> QED
      BY ONLY <2>3, <3>1, StoreSpares DEF SpareWriters
  <2>6. FewReaders'
    BY ONLY <2>2, <2>3, <2>4 DEF FewReaders, Few
  <2>7. FewWriters'
    BY ONLY <2>2, <2>5 DEF FewWriters, Few
  <2>8. OneCalls' /\ Reconnects'
    BY ONLY <1>1, <2>1, <2>2 DEF OneCalls, Reconnects
  <2> QED
    BY ONLY <2>6, <2>7, <2>8
<1>7. CASE \/ ConnectBegin(k) \/ ConnectOpen(k) \/ ConnectDone(k) \/ ConnectFail(k)
           \/ ConnectFailCas(k) \/ DisconnectBegin(k) \/ DisconnectCancel(k)
           \/ DisconnectForget(k) \/ DisconnectClosePort(k) \/ DisconnectDone(k)
  <2>1. /\ NoneBegins /\ UNCHANGED <<readerJob, writerJob, calls>>
        /\ FailReconnect \/ UNCHANGED <<reconnector, reconnecting>>
    <3>1. CASE DisconnectCancel(k)
      BY ONLY TypeInv, <3>1, CancelLive DEF DisconnectCancel, fields
    <3> QED
      BY <1>7, <3>1
         DEF ConnectBegin, ConnectOpen, ConnectDone, ConnectFail, ConnectFailCas,
             DisconnectBegin, DisconnectForget, DisconnectClosePort, DisconnectDone,
             fields, jobs, workers, NoneBegins
  <2>2. \/ Goto(k, "connect", "open") \/ Goto(k, "open", "channel")
        \/ \E from, to : /\ Goto(k, from, to) /\ from # "ready"
                         /\ to \notin {"connect", "open", "channel", "reader", "writer"}
    BY ONLY <1>7
       DEF ConnectBegin, ConnectOpen, ConnectDone, ConnectFail, ConnectFailCas,
           DisconnectBegin, DisconnectCancel, DisconnectForget, DisconnectClosePort,
           DisconnectDone
  <2>3. /\ \A j \in Callers : j # k => caller[j] = "ready" /\ caller'[j] = "ready"
        /\ \/ caller[k] = "connect" /\ caller'[k] = "open"
           \/ caller[k] = "open" /\ caller'[k] = "channel"
           \/ caller'[k] \notin {"connect", "open", "channel", "reader", "writer"}
        /\ calls' # 0
    BY ONLY <1>3, <2>1, <2>2
  <2>4. /\ Reconnects' /\ SpareReaders' \subseteq SpareReaders
        /\ SpareWriters' \subseteq SpareWriters
    BY ONLY TypeInv, <1>1, <2>1, SpareKept
  <2>5. OneCalls'
    BY ONLY <2>3 DEF OneCalls
  <2>6. FewWriters'
    BY ONLY <1>1, <2>3, <2>4 DEF FewWriters, Few
  <2>7. FewReaders'
    BY ONLY <1>1, <2>3, <2>4 DEF FewReaders, Few
  <2> QED
    BY ONLY <2>4, <2>5, <2>6, <2>7
<1> QED
  BY <1>4, <1>5, <1>6, <1>7 DEF CallerStep

\* Before the first call nothing runs.
LEMMA InitOnce ==
  ASSUME Init
  PROVE  OnceInv
<1>1. /\ calls = 0 /\ reconnector.pc = "off"
      /\ \A k \in Callers : caller[k] = "ready"
      /\ \A g \in Gens : ~Live(reader[g]) /\ ~Live(writer[g])
  BY DEF Init, Live, Reader0, Writer0
<1>2. SpareWriters = {} /\ SpareReaders = {}
  BY ONLY <1>1 DEF SpareWriters, SpareReaders, Spare
<1> QED
  BY ONLY <1>1, <1>2 DEF OnceInv, OneCalls, Reconnects, FewWriters, FewReaders, Few

\* Every step keeps the count of the spare workers.
LEMMA NextOnce ==
  ASSUME TypeInv, OnceInv, [Next]_vars
  PROVE  OnceInv'
<1>1. ASSUME NEW k \in Callers, Call(k) \/ CallerStep(k) PROVE OnceInv'
  BY ONLY TypeInv, OnceInv, k \in Callers, <1>1, CallOnce, CallerOnce
<1>2. CASE ReconnectStep
  BY ONLY TypeInv, OnceInv, <1>2, ReconnectOnce
<1>3. CASE \/ \E c \in Commands : Submit(c) \/ SenderStep(c) \/ TimerStep(c)
           \/ \E g \in Gens : ReaderStep(g) \/ ReaderInput(g)
           \/ \E g \in Gens : WriterStep(g) \/ WriterOutput(g) \/ WriterTimeout(g)
           \/ CloserStep
           \/ UNCHANGED vars
  BY ONLY TypeInv, OnceInv, <1>3, OtherOnce
<1> QED
  BY ONLY <1>1, <1>2, <1>3, [Next]_vars DEF Next

\* However often the session reconnects, one connect leaves at most one writer and
\* one reader that no field holds (startWorkers:107 and 128, reconnect:180).
THEOREM SessionOneStray == Spec => []OneStray
<1>1. Init => OnceInv
  BY InitOnce
<1>2. TypeInv /\ OnceInv /\ [Next]_vars => OnceInv'
  BY NextOnce
<1>3. OnceInv => OneStray
  <2> SUFFICES ASSUME FewWriters, FewReaders, NEW g \in Gens, NEW h \in Gens
               PROVE  /\ Stray(writer, writerJob, g) /\ Stray(writer, writerJob, h) => g = h
                      /\ Stray(reader, readerJob, g) /\ Stray(reader, readerJob, h) => g = h
    BY DEF OnceInv, OneStray
  <2>1. \A i \in Gens : /\ Stray(writer, writerJob, i) => i \in SpareWriters
                        /\ Stray(reader, readerJob, i) => i \in SpareReaders
    BY DEF Stray, SpareWriters, SpareReaders, Spare
  <2> QED
    BY <2>1 DEF FewWriters, FewReaders, Few
<1> QED
  BY <1>1, <1>2, <1>3, SpecTypeInv, PTL DEF Spec

-----------------------------------------------------------------------------
(* The sole caller of a session with the default policy                    *)

\* A worker whose calls of the transport can throw: one that is cancelled in a
\* suspending transport cannot.
Works(worker) == worker.pc \notin {"none", "end"} /\ (Blocking \/ ~worker.cancelled)

\* A step of reader g, of which only what can fail it is said.
ReaderMoves(g) ==
    /\ reader[g].pc \notin {"none", "end"} /\ reader'[g].pc # "none"
    /\ reader'[g].cancelled = reader[g].cancelled
    /\ reader'[g].pc = "blocked" => reader'[g].on = port
    /\ reader'[g].pc = "fail" =>
          /\ Works(reader[g])
          /\ \/ reader[g].pc = "call" /\ port = 0
             \/ /\ reader[g].pc = "blocked"
                /\ reader[g].on \notin openPorts \/ faults' > 0
    /\ reader'[g].pc = "failCas" => reader[g].pc = "fail"
    /\ reader'[g].pc = "end" => reader[g].cancelled \/ reader[g].pc = "failCas"
    /\ state' = state \/ (reader[g].pc = "fail" /\ state' = "Failed")

\* A step of writer g, likewise.
WriterMoves(g) ==
    /\ writer[g].pc \notin {"none", "end"} /\ writer'[g].pc # "none"
    /\ writer'[g].cancelled = writer[g].cancelled
    /\ writer'[g].pc = "writing" => writer'[g].on = port
    /\ writer'[g].pc = "report" /\ writer'[g].outcome = "WriteFailed" =>
          /\ Works(writer[g]) /\ writer[g].pc = "writing"
          /\ writer[g].on \notin openPorts \/ faults' > 0
    /\ writer'[g].pc = "failCas" =>
          writer[g].pc = "report" /\ writer[g].outcome = "WriteFailed"
    /\ writer'[g].pc = "end" =>
          writer[g].cancelled \/ \E h \in 0..MaxGen : channel[h].closed
    /\ \/ state' = state
       \/ /\ writer[g].pc = "report" /\ writer[g].outcome = "WriteFailed"
          /\ state' = "Failed"

\* What no step of a worker changes, when there is no reconnection.
WorkerFrame ==
    /\ UNCHANGED <<terminal, configured, commands, readerJob, writerJob, scopeActive,
                   ports, closer, caller, own, reconnector>>
    /\ \A g \in 0..MaxGen : channel'[g].closed = channel[g].closed
    /\ faults' \in {faults, faults + 1}

\* Without a reconnection policy a failure starts nothing.
LEMMA FailQuietly ==
  ASSUME SoleCaller, FailReconnect
  PROVE  UNCHANGED <<reconnecting, reconnector>>
BY DEF SoleCaller, FailReconnect

\* The steps of a reader.
LEMMA ReaderMove ==
  ASSUME TypeInv, SoleCaller, NEW g \in Gens, ReaderStep(g) \/ ReaderInput(g)
  PROVE  /\ ReaderMoves(g) /\ WorkerFrame /\ writer' = writer
         /\ \A h \in Gens : h # g => reader'[h] = reader[h]
<1>1. reader \in [Gens -> ReaderRecords] /\ faults \in Nat
  BY SessionAssumption DEF TypeInv, TypeOK, WorkerType, BoundType
<1>2. reader[g] \in ReaderRecords
  BY ONLY <1>1, g \in Gens
<1>3. ASSUME NEW from, NEW to, ReadGoto(g, from, to)
      PROVE  /\ reader[g].pc = from /\ reader'[g].pc = to
             /\ reader'[g].cancelled = reader[g].cancelled
             /\ \A h \in Gens : h # g => reader'[h] = reader[h]
  BY ONLY <1>1, <1>3, g \in Gens DEF ReadGoto, ReaderRecords
<1>4. /\ writer' = writer
      /\ \A h \in Gens : h # g => reader'[h] = reader[h]
      /\ reader[g].pc \notin {"none", "end"}
  BY ReaderLive DEF ReaderStep, ReaderInput, ReaderCancelled, ReaderStart, ReaderCall,
     ReaderRespond, ReaderClear, ReaderFail, ReaderFailCas, ReaderData, ReaderThrows,
     ReadGoto
<1>5. WorkerFrame
  <2>1. faults' \in {faults, faults + 1}
    BY <1>1 DEF ReaderStep, ReaderInput, ReaderCancelled, ReaderStart, ReaderCall,
       ReaderRespond, ReaderClear, ReaderFail, ReaderFailCas, ReaderData, ReaderThrows,
       IOThrows, Fault
  <2>2. UNCHANGED reconnector
    BY FailQuietly
       DEF ReaderStep, ReaderInput, ReaderCancelled, ReaderStart, ReaderCall,
       ReaderRespond, ReaderClear, ReaderFail, ReaderFailCas, ReaderData, ReaderThrows
  <2> QED
    BY <2>1, <2>2 DEF ReaderStep, ReaderInput, ReaderFrame, WorkerFrame, queue
<1>6. ReaderMoves(g)
  <2>1. CASE ReaderCancelled(g)
    <3>1. /\ reader[g].pc \in {"start", "call", "blocked"} /\ reader'[g].pc = "end"
          /\ reader'[g].cancelled = reader[g].cancelled
      BY ONLY <1>3, <2>1 DEF ReaderCancelled
    <3>2. reader[g].cancelled /\ state' = state
      BY ONLY <2>1 DEF ReaderCancelled
    <3> QED
      BY ONLY <3>1, <3>2 DEF ReaderMoves
  <2>2. CASE ReaderStart(g) \/ ReaderRespond(g) \/ ReaderFail(g) \/ ReaderFailCas(g)
    BY ONLY <1>3, <1>4, <2>2
       DEF ReaderMoves, ReaderStart, ReaderRespond, ReaderFail, ReaderFailCas
  <2>3. CASE ReaderCall(g)
    <3>1. /\ reader'[g].pc = IF port = 0 THEN "fail" ELSE "blocked"
          /\ reader'[g].on = port /\ reader'[g].cancelled = reader[g].cancelled
      BY ONLY <1>1, <2>3, g \in Gens DEF ReaderCall, ReaderRecords
    <3>2. reader[g].pc = "call" /\ Works(reader[g]) /\ state' = state
      BY ONLY <2>3 DEF ReaderCall, Works
    <3> QED
      BY ONLY <3>1, <3>2 DEF ReaderMoves
  <2>4. CASE ReaderClear(g)
    <3>1. reader'[g].pc = "call" /\ reader'[g].cancelled = reader[g].cancelled
      BY ONLY <1>1, <2>4, g \in Gens DEF ReaderClear, ReaderRecords
    <3>2. reader[g].pc = "clear" /\ state' = state
      BY ONLY <2>4 DEF ReaderClear
    <3> QED
      BY ONLY <3>1, <3>2 DEF ReaderMoves
  <2>5. CASE ReaderData(g)
    <3>1. /\ reader'[g].pc \in {"call", "match"}
          /\ reader'[g].cancelled = reader[g].cancelled
      <4>1. CASE ReadGoto(g, "blocked", "call")
        BY ONLY <1>3, <4>1
      <4>2. CASE reader' = [reader EXCEPT ![g].pc = "match", ![g].waiting = pending]
        BY ONLY <1>1, <4>2, g \in Gens DEF ReaderRecords
      <4> QED
        BY ONLY <2>5, <4>1, <4>2 DEF ReaderData
    <3>2. state' = state
      BY ONLY <2>5 DEF ReaderData
    <3> QED
      BY ONLY <1>4, <3>1, <3>2 DEF ReaderMoves
  <2>6. CASE ReaderThrows(g)
    <3>1. /\ reader[g].pc = "blocked" /\ reader'[g].pc = "fail"
          /\ reader'[g].cancelled = reader[g].cancelled /\ state' = state
      BY ONLY <1>3, <2>6 DEF ReaderThrows
    <3>2. Works(reader[g]) /\ (reader[g].on \notin openPorts \/ faults' > 0)
      BY ONLY <1>1, <2>6, <3>1 DEF ReaderThrows, IOThrows, Fault, Works
    <3> QED
      BY ONLY <3>1, <3>2 DEF ReaderMoves
  <2> QED
    BY ONLY <2>1, <2>2, <2>3, <2>4, <2>5, <2>6, ReaderStep(g) \/ ReaderInput(g)
       DEF ReaderStep, ReaderInput
<1> QED
  BY ONLY <1>4, <1>5, <1>6

\* The steps of a writer.
LEMMA WriterMove ==
  ASSUME TypeInv, SoleCaller, NEW g \in Gens,
         WriterStep(g) \/ WriterOutput(g) \/ WriterTimeout(g)
  PROVE  /\ WriterMoves(g) /\ WorkerFrame /\ reader' = reader
         /\ \A h \in Gens : h # g => writer'[h] = writer[h]
<1>1. writer \in [Gens -> WriterRecords] /\ faults \in Nat
  BY SessionAssumption DEF TypeInv, TypeOK, WorkerType, BoundType
<1>2. writer[g] \in WriterRecords
  BY ONLY <1>1, g \in Gens
<1>3. ASSUME NEW from, NEW to, WriteGoto(g, from, to)
      PROVE  /\ writer[g].pc = from /\ writer'[g].pc = to
             /\ writer'[g].outcome = writer[g].outcome
  BY ONLY <1>1, <1>3, g \in Gens DEF WriteGoto, WriterRecords
<1>4. /\ reader' = reader
      /\ \A h \in Gens : /\ h # g => writer'[h] = writer[h]
                         /\ writer'[h].cancelled = writer[h].cancelled
  BY WriterLive
<1>5. WorkerFrame
  <2>1. faults' \in {faults, faults + 1}
    BY <1>1 DEF WriterStep, WriterOutput, WriterTimeout, WriterCancelled, WriterStart,
       WriterReceive, WriterAttempt, WriterReport, WriterFailCas, WriterSettle,
       WriterWritten, WriterThrows, WriterTimedOut, IOThrows, Fault
  <2>2. UNCHANGED reconnector
    BY FailQuietly
       DEF WriterStep, WriterOutput, WriterTimeout, WriterCancelled, WriterStart,
       WriterReceive, WriterAttempt, WriterReport, WriterFailCas, WriterSettle,
       WriterWritten, WriterThrows, WriterTimedOut
  <2>3. \A h \in 0..MaxGen : channel'[h].closed = channel[h].closed
    <3>1. ChannelType
      BY DEF TypeInv, TypeOK
    <3>2. CASE WriterReceive(g)
      <4>1. \/ channel' = channel
            \/ \E b : channel' = [channel EXCEPT ![writer[g].channel].buf = b]
        BY ONLY <3>2 DEF WriterReceive
      <4> QED
        BY ONLY <3>1, <4>1, ChannelExcept
    <3>3. CASE UNCHANGED channel
      BY ONLY <3>3
    <3> QED
      BY <3>2, <3>3
         DEF WriterStep, WriterOutput, WriterTimeout, WriterCancelled, WriterStart,
             WriterAttempt, WriterReport, WriterFailCas, WriterSettle, WriterWritten,
             WriterThrows, WriterTimedOut
  <2> QED
    BY <2>1, <2>2, <2>3 DEF WriterStep, WriterOutput, WriterTimeout, WriterFrame, WorkerFrame
<1>a. ASSUME NEW o, writer' = [writer EXCEPT ![g] = AfterAttempt(g, o)]
      PROVE  writer'[g].pc \in {"attempt", "report"} /\ writer'[g].outcome = o
  <2>1. writer'[g] = AfterAttempt(g, o)
    BY ONLY <1>1, <1>a, g \in Gens
  <2> QED
    BY ONLY <1>2, <2>1 DEF AfterAttempt, WriterRecords
<1>6. WriterMoves(g)
  <2>1. CASE WriterCancelled(g)
    <3>1. writer[g].pc \in {"start", "receive", "attempt", "writing"} /\ writer'[g].pc = "end"
      BY ONLY <1>3, <2>1 DEF WriterCancelled
    <3>2. writer[g].cancelled /\ state' = state
      BY ONLY <2>1 DEF WriterCancelled
    <3> QED
      BY ONLY <1>4, <3>1, <3>2, g \in Gens DEF WriterMoves
  <2>2. CASE WriterStart(g) \/ WriterAttempt(g) \/ WriterSettle(g)
    <3>1. /\ writer[g].pc \in {"start", "attempt", "settle"}
          /\ writer'[g].pc \in {"receive", "writing"}
      BY ONLY <1>1, <2>2, g \in Gens
         DEF WriterStart, WriterAttempt, WriterSettle, WriterRecords
    <3>2. writer'[g].pc = "writing" => writer'[g].on = port
      BY ONLY <1>1, <2>2, g \in Gens
         DEF WriterStart, WriterAttempt, WriterSettle, WriterRecords
    <3>3. state' = state
      BY ONLY <2>2 DEF WriterStart, WriterAttempt, WriterSettle
    <3> QED
      BY ONLY <1>4, <3>1, <3>2, <3>3, g \in Gens DEF WriterMoves
  <2>3. CASE WriterReceive(g)
    <3>1. /\ writer[g].pc = "receive" /\ state' = state
          /\ \/ writer'[g].pc = "end" /\ channel[writer[g].channel].closed
             \/ writer'[g].pc = "attempt"
      BY ONLY <1>1, <2>3, g \in Gens DEF WriterReceive, WriterRecords
    <3>2. writer[g].channel \in 0..MaxGen
      BY ONLY <1>2 DEF WriterRecords
    <3> QED
      BY ONLY <1>4, <3>1, <3>2, g \in Gens DEF WriterMoves
  <2>4. CASE WriterWritten(g)
    <3>1. /\ writer[g].pc = "writing" /\ state' = state
          /\ \/ writer[g].cancelled /\ writer'[g].pc = "end"
             \/ writer' = [writer EXCEPT ![g] = AfterAttempt(g, "Sent")]
      BY ONLY <1>1, <2>4, g \in Gens DEF WriterWritten, WriterRecords
    <3> QED
      BY ONLY <1>4, <1>a, <3>1, g \in Gens DEF WriterMoves
  <2>5. CASE WriterTimedOut(g)
    <3>1. /\ writer[g].pc = "writing" /\ state' = state
          /\ writer' = [writer EXCEPT ![g] = AfterAttempt(g, "TimedOut")]
      BY ONLY <2>5 DEF WriterTimedOut
    <3>2. writer'[g].pc \in {"attempt", "report"} /\ writer'[g].outcome = "TimedOut"
      BY ONLY <1>a, <3>1
    <3> QED
      BY ONLY <1>4, <3>1, <3>2, g \in Gens DEF WriterMoves
  <2>6. CASE WriterThrows(g)
    <3>1. /\ writer[g].pc = "writing" /\ state' = state
          /\ writer' = [writer EXCEPT ![g] = AfterAttempt(g, "WriteFailed")]
      BY ONLY <2>6 DEF WriterThrows
    <3>2. Works(writer[g]) /\ (writer[g].on \notin openPorts \/ faults' > 0)
      BY ONLY <1>1, <2>6, <3>1 DEF WriterThrows, IOThrows, Fault, Works
    <3> QED
      BY ONLY <1>4, <1>a, <3>1, <3>2, g \in Gens DEF WriterMoves
  <2>7. CASE WriterReport(g)
    BY ONLY <1>3, <1>4, <2>7, g \in Gens DEF WriterReport, WriterMoves
  <2>8. CASE WriterFailCas(g)
    <3>1. writer[g].pc = "failCas" /\ writer'[g].pc = "settle" /\ state' = state
      BY ONLY <1>3, <2>8 DEF WriterFailCas
    <3> QED
      BY ONLY <1>4, <3>1, g \in Gens DEF WriterMoves
  <2> QED
    BY ONLY <2>1, <2>2, <2>3, <2>4, <2>5, <2>6, <2>7, <2>8,
            WriterStep(g) \/ WriterOutput(g) \/ WriterTimeout(g)
       DEF WriterStep, WriterOutput, WriterTimeout
<1> QED
  BY ONLY <1>4, <1>5, <1>6

\* The caller works while the session is not closed; then the closer does.
Alone ==
    /\ reconnector.pc = "off"
    /\ openPorts \subseteq 1..opens
    /\ port # 0 => port \in openPorts
    /\ IF closer = "off"
         THEN ~terminal /\ scopeActive /\ \A g \in 0..MaxGen : ~channel[g].closed
         ELSE terminal /\ \A k \in Callers : caller[k] = "ready"

\* Reader g reads from the port held, or an I/O error ended it; writer g runs.
Reads(g) ==
    /\ g \in Gens /\ port # 0
    /\ reader[g].pc # "none" /\ ~reader[g].cancelled
    /\ reader[g].pc \in {"fail", "failCas", "end"} => faults > 0
    /\ reader[g].pc = "blocked" => reader[g].on = port
Writes(g) == g \in Gens /\ Live(writer[g])
Usable == Reads(readerJob) /\ Writes(writerJob)

\* The caller builds a session that is usable once it says Connected, and leaves
\* that state before it takes the session apart.
Built(k) ==
    /\ caller[k] = "channel" => port # 0
    /\ caller[k] = "reader" => Reads(own[k])
    /\ caller[k] = "writer" => own[k] = readerJob /\ Reads(own[k]) /\ Writes(own[k])
    /\ caller[k] = "connected" => Usable
UsableInv ==
    /\ state = "Connected" /\ ~terminal =>
          Usable /\ \A k \in Callers : caller[k] \in {"ready", "closing"}
    /\ \A k \in Callers : Built(k)
    /\ closer \in {"closeChannel", "closed", "cancelScope", "end"} => port = 0
    /\ closer \in {"cancelScope", "end"} => state \in {"Closed", "Failed"}

\* Opening a port, and closing it, keeps the numbers of the ports.
LEMMA PortsAlone ==
  ASSUME TypeInv, openPorts \subseteq 1..opens, port # 0 => port \in openPorts,
         OpenPort \/ ClosePort \/ UNCHANGED ports
  PROVE  /\ openPorts' \subseteq 1..opens'
         /\ port' # 0 => port' \in openPorts'
<1>1. opens \in Nat
  BY SessionAssumption DEF TypeInv, TypeOK, SharedType, Ports
<1>2. CASE OpenPort
  BY <1>1, <1>2 DEF OpenPort
<1>3. CASE ClosePort
  BY <1>3 DEF ClosePort
<1>4. CASE UNCHANGED ports
  BY <1>4 DEF ports
<1> QED
  BY <1>2, <1>3, <1>4

\* Calls and their steps.
LEMMA CallerAlone ==
  ASSUME TypeInv, SoleCaller, Alone, NEW k \in Callers, Call(k) \/ CallerStep(k)
  PROVE  Alone'
<1>1. ChannelType /\ caller \in [Callers -> CallerPcs]
  BY DEF TypeInv, TypeOK, CoroutineType
<1>2. CASE Close(k)
  BY <1>1, <1>2 DEF Close, Alone, SoleCaller, jobs, ports, Call, CallerFrame
<1>3. CASE Connect(k) \/ Disconnect(k)
  <2>1. \E to : caller' = [caller EXCEPT ![k] = to] /\ (terminal => to = "ready")
    BY <1>3 DEF Connect, Disconnect, Goto
  <2>2. UNCHANGED <<reconnector, ports, closer, terminal, channel>>
    BY <1>3 DEF Connect, Disconnect, fields, jobs
  <2>3. UNCHANGED scopeActive
    BY DEF Call, CallerStep, CallerFrame
  <2> QED
    BY ONLY Alone, <1>1, <2>1, <2>2, <2>3 DEF Alone, ports
<1>4. CASE CallerStep(k)
  <2>1. caller[k] # "ready" /\ UNCHANGED <<closer, terminal>>
    BY <1>4 DEF CallerStep, ConnectBegin, ConnectOpen, ConnectChannel, ConnectReader,
       ConnectWriter, ConnectDone, ConnectFail, ConnectFailCas, DisconnectBegin,
       DisconnectCancel, DisconnectForget, DisconnectClosePort, DisconnectDone, Goto,
       fields, jobs
  <2>2. UNCHANGED scopeActive
    BY <1>4 DEF CallerStep, CallerFrame
  <2>3. UNCHANGED reconnector
    <3>1. CASE ConnectFailCas(k)
      BY <3>1, FailQuietly DEF ConnectFailCas
    <3> QED
      BY <1>4, <3>1 DEF CallerStep, ConnectBegin, ConnectOpen, ConnectChannel,
         ConnectReader, ConnectWriter, ConnectDone, ConnectFail, DisconnectBegin,
         DisconnectCancel, DisconnectForget, DisconnectClosePort, DisconnectDone, jobs
  <2>4. \A g \in 0..MaxGen : channel'[g].closed = channel[g].closed
    <3>1. CASE DisconnectForget(k)
      <4>1. \E s : channel' = [channel EXCEPT ![commands].buf = s]
        BY <3>1 DEF DisconnectForget, Forget
      <4> QED
        BY ONLY <1>1, <4>1, ChannelExcept
    <3> QED
      BY <1>4, <3>1 DEF CallerStep, ConnectBegin, ConnectOpen, ConnectChannel,
         ConnectReader, ConnectWriter, ConnectDone, ConnectFail, ConnectFailCas,
         DisconnectBegin, DisconnectCancel, DisconnectClosePort, DisconnectDone
  <2>5. OpenPort \/ ClosePort \/ UNCHANGED ports
    BY <1>4 DEF CallerStep, ConnectBegin, ConnectOpen, ConnectChannel, ConnectReader,
       ConnectWriter, ConnectDone, ConnectFail, ConnectFailCas, DisconnectBegin,
       DisconnectCancel, DisconnectForget, DisconnectClosePort, DisconnectDone,
       OpenRefused
  <2>6. closer = "off"
    BY ONLY Alone, <2>1, k \in Callers DEF Alone
  <2>7. openPorts' \subseteq 1..opens' /\ (port' # 0 => port' \in openPorts')
    BY ONLY TypeInv, Alone, <2>5, PortsAlone DEF Alone
  <2> QED
    BY ONLY Alone, <2>1, <2>2, <2>3, <2>4, <2>6, <2>7 DEF Alone
<1> QED
  BY <1>2, <1>3, <1>4 DEF Call

\* Only the closer takes more than the steps of the caller.
LEMMA NextAlone ==
  ASSUME TypeInv, SoleCaller, Alone, [Next]_vars
  PROVE  Alone'
<1>1. ASSUME NEW k \in Callers, Call(k) \/ CallerStep(k) PROVE Alone'
  BY ONLY TypeInv, SoleCaller, Alone, k \in Callers, <1>1, CallerAlone
<1>2. ASSUME NEW c \in Commands, Submit(c) \/ SenderStep(c) \/ TimerStep(c)
      PROVE  Alone'
  <2>1. UNCHANGED <<reconnector, ports, closer, terminal, scopeActive, caller>>
    BY <1>2 DEF Submit, SenderStep, SenderFrame, TimerStep, shared, fields, coroutines,
       jobs
  <2>2. \A g \in 0..MaxGen : channel'[g].closed = channel[g].closed
    <3>1. ChannelType
      BY DEF TypeInv, TypeOK
    <3>2. UNCHANGED channel \/ \E s : channel' = [channel EXCEPT ![commands].buf = s]
      BY <1>2 DEF Submit, Send, SenderStep, SendOffer, SendDropOldest, SendOfferAgain,
         Accept, Forget, TimerStep, queue
    <3> QED
      BY ONLY <3>1, <3>2, ChannelExcept
  <2> QED
    BY ONLY Alone, <2>1, <2>2 DEF Alone, ports
<1>3. ASSUME NEW g \in Gens, \/ ReaderStep(g) \/ ReaderInput(g)
                             \/ WriterStep(g) \/ WriterOutput(g) \/ WriterTimeout(g)
      PROVE  Alone'
  <2>1. WorkerFrame
    BY <1>3, ReaderMove, WriterMove
  <2> QED
    BY ONLY Alone, <2>1 DEF Alone, WorkerFrame, ports
<1>4. CASE CloserStep
  <2>1. /\ closer # "off" /\ closer' # "off"
        /\ UNCHANGED <<terminal, caller, reconnector>>
    BY <1>4 DEF CloserStep, CloserCancel, CloserClosePort, CloserCloseChannel,
       CloserClosed, CloserCancelScope, fields
  <2>2. OpenPort \/ ClosePort \/ UNCHANGED ports
    BY <1>4 DEF CloserStep, CloserCancel, CloserClosePort, CloserCloseChannel,
       CloserClosed, CloserCancelScope
  <2>3. openPorts' \subseteq 1..opens' /\ (port' # 0 => port' \in openPorts')
    BY ONLY TypeInv, Alone, <2>2, PortsAlone DEF Alone
  <2> QED
    BY ONLY Alone, <2>1, <2>3 DEF Alone
<1>5. CASE ReconnectStep
  BY <1>5 DEF Alone, ReconnectStep, ReconnectCancelled, ReconnectCancel,
     ReconnectClosePort, ReconnectLoop, ReconnectBegin, ReconnectOpen, ReconnectChannel,
     ReconnectReader, ReconnectWriter, ReconnectDone, ReconnectFinally, Pass
<1>6. CASE UNCHANGED vars
  BY ONLY Alone, <1>6
     DEF Alone, vars, shared, fields, ports, queue, coroutines, jobs
<1> QED
  BY ONLY <1>1, <1>2, <1>3, <1>4, <1>5, <1>6, [Next]_vars DEF Next

\* Workers go on, and a failure is said.
LEMMA WorkersUsable ==
  ASSUME TypeInv, Alone, UsableInv, WorkerFrame,
         state' \in {state, "Failed"},
         \A g \in Gens : reader'[g] = reader[g] \/ ReaderMoves(g),
         \A g \in Gens : writer'[g] = writer[g] \/ WriterMoves(g)
  PROVE  UsableInv'
<1>1. faults \in Nat /\ faults' \in {faults, faults + 1}
  BY SessionAssumption DEF TypeInv, TypeOK, BoundType, WorkerFrame
<1>2. /\ UNCHANGED <<terminal, readerJob, writerJob, port, openPorts, closer, caller, own>>
      /\ closer = "off" => \A h \in 0..MaxGen : ~channel[h].closed
  BY DEF WorkerFrame, Alone, ports
<1>3. ASSUME NEW g, Reads(g) PROVE Reads(g)'
  <2>1. CASE reader'[g] = reader[g]
    BY ONLY <1>1, <1>2, <1>3, <2>1 DEF Reads
  <2>2. CASE ReaderMoves(g)
    <3>1. port # 0 /\ port \in openPorts /\ g \in Gens /\ ~reader[g].cancelled
      BY <1>3 DEF Reads, Alone
    <3>2. /\ reader'[g].pc # "none" /\ ~reader'[g].cancelled
          /\ reader'[g].pc = "blocked" => reader'[g].on = port
      BY ONLY <2>2, <3>1 DEF ReaderMoves
    <3>3. reader'[g].pc \in {"fail", "failCas", "end"} => faults > 0 \/ faults' > 0
      BY ONLY <1>3, <2>2, <3>1 DEF ReaderMoves, Reads
    <3> QED
      BY ONLY <1>1, <1>2, <3>1, <3>2, <3>3 DEF Reads
  <2> QED
    BY <1>3, <2>1, <2>2 DEF Reads
<1>4. ASSUME NEW g, Writes(g), closer = "off" PROVE Writes(g)'
  BY <1>2, <1>4 DEF Writes, WriterMoves, Live
<1>5. closer = "off" /\ Usable => Usable'
  BY ONLY <1>2, <1>3, <1>4 DEF Usable
<1>6. state' = "Connected" /\ ~terminal' =>
          Usable' /\ \A k \in Callers : caller'[k] \in {"ready", "closing"}
  <2>1. ~terminal => closer = "off"
    BY DEF Alone
  <2> QED
    BY ONLY UsableInv, <1>2, <1>5, <2>1, state' \in {state, "Failed"} DEF UsableInv
<1>7. ASSUME NEW k \in Callers PROVE Built(k)'
  <2>1. Built(k) /\ (caller[k] # "ready" => closer = "off")
    BY DEF UsableInv, Alone
  <2> QED
    BY ONLY <1>2, <1>3, <1>4, <1>5, <2>1 DEF Built
<1> QED
  BY ONLY UsableInv, <1>2, <1>6, <1>7, state' \in {state, "Failed"} DEF UsableInv

\* Calls and their steps.
LEMMA CallerUsable ==
  ASSUME TypeInv, SoleCaller, Alone, UsableInv, NEW k \in Callers,
         Call(k) \/ CallerStep(k)
  PROVE  UsableInv'
<1>1. /\ caller \in [Callers -> CallerPcs] /\ own \in [Callers -> 0..MaxGen]
      /\ reader \in [Gens -> ReaderRecords] /\ writer \in [Gens -> WriterRecords]
      /\ opens \in Nat /\ gen \in Nat
  BY SessionAssumption DEF TypeInv, TypeOK, SharedType, Ports, CoroutineType, WorkerType,
     BoundType
<1>2. \A j \in Callers : j = k
  BY DEF SoleCaller
<1>3. ASSUME NEW from, NEW to, Goto(k, from, to)
      PROVE  caller[k] = from /\ caller'[k] = to
  BY ONLY <1>1, <1>3, k \in Callers DEF Goto
<1>4. CASE Call(k)
  <2>1. UNCHANGED <<state, reader, writer, readerJob, writerJob, port, own, faults>>
    BY <1>4 DEF Call, Connect, Disconnect, Close, fields, jobs, workers, ports
  <2>2. /\ \A g : Reads(g)' = Reads(g) /\ Writes(g)' = Writes(g)
        /\ Usable' = Usable
    BY ONLY <2>1 DEF Reads, Writes, Usable
  <2>3. CASE Close(k)
    BY ONLY UsableInv, <2>1, <2>2, <2>3 DEF Close, UsableInv, Built
  <2>4. CASE Connect(k) \/ Disconnect(k)
    <3>1. /\ UNCHANGED <<terminal, closer>>
          /\ caller[k] = "ready" /\ caller'[k] \in {"ready", "connect", "closing"}
          /\ caller'[k] = "connect" => terminal \/ state # "Connected"
      BY ONLY <1>3, <2>4 DEF Connect, Disconnect, fields, jobs
    <3> QED
      BY ONLY UsableInv, <1>2, <2>1, <2>2, <3>1 DEF UsableInv, Built
  <2> QED
    BY <1>4, <2>3, <2>4 DEF Call
<1>5. CASE CallerStep(k)
  <2>1. caller[k] # "ready" /\ UNCHANGED <<closer, terminal>>
    BY <1>5 DEF CallerStep, ConnectBegin, ConnectOpen, ConnectChannel, ConnectReader,
       ConnectWriter, ConnectDone, ConnectFail, ConnectFailCas, DisconnectBegin,
       DisconnectCancel, DisconnectForget, DisconnectClosePort, DisconnectDone, Goto,
       fields, jobs
  <2>2. closer = "off" /\ scopeActive /\ ~terminal
    BY ONLY Alone, <2>1, k \in Callers DEF Alone
  <2>3. Built(k) /\ (state = "Connected" => caller[k] = "closing")
    BY ONLY UsableInv, <2>1, <2>2, k \in Callers DEF UsableInv
  <2> SUFFICES /\ state' = "Connected" => Usable' /\ caller'[k] \in {"ready", "closing"}
               /\ Built(k)'
    BY <1>2, <2>1, <2>2 DEF UsableInv
  <2>4. CASE ConnectChannel(k)
    <3>1. /\ Goto(k, "channel", "reader") /\ NewChannel /\ UNCHANGED <<state, port, faults>>
          /\ own' = [own EXCEPT ![k] = gen + 1]
      BY <2>4 DEF ConnectChannel, ports
    <3>2. /\ caller[k] = "channel" /\ caller'[k] = "reader" /\ own'[k] = gen + 1
          /\ port' # 0
      BY ONLY <1>1, <1>3, <2>3, <3>1, k \in Callers DEF Built
    <3>3. gen + 1 \in Gens
      BY ONLY <1>1, <3>1, SessionAssumption DEF NewChannel, Gens
    <3>4. reader'[gen + 1].pc = "start" /\ ~reader'[gen + 1].cancelled
      BY ONLY <1>1, <2>2, <3>1, <3>3 DEF NewChannel, ReaderRecords
    <3>5. Reads(own[k])'
      BY ONLY <3>2, <3>3, <3>4 DEF Reads, Gens
    <3> QED
      BY ONLY <2>3, <3>1, <3>2, <3>5 DEF Built
  <2>5. CASE ConnectReader(k)
    <3>1. /\ Goto(k, "reader", "writer") /\ StoreReader(own[k])
          /\ UNCHANGED <<state, port, faults, own, reader>>
      BY <2>5 DEF ConnectReader, ports
    <3>2. /\ caller[k] = "reader" /\ caller'[k] = "writer" /\ readerJob' = own[k]
          /\ Reads(own[k])
      BY ONLY <1>3, <2>3, <3>1 DEF Built, StoreReader
    <3>3. Writes(own[k])'
      <4>1. own[k] \in Gens
        BY ONLY <3>2 DEF Reads
      <4>2. writer'[own[k]].pc = "start" /\ ~writer'[own[k]].cancelled
        BY ONLY <1>1, <2>2, <3>1, <4>1 DEF StoreReader, WriterRecords
      <4> QED
        BY ONLY <3>1, <4>1, <4>2 DEF Writes, Live
    <3>4. Reads(own[k])'
      BY ONLY <3>1, <3>2 DEF Reads
    <3> QED
      BY ONLY <2>3, <3>1, <3>2, <3>3, <3>4 DEF Built
  <2>6. CASE ConnectWriter(k)
    <3>1. /\ Goto(k, "writer", "connected") /\ writerJob' = own[k]
          /\ UNCHANGED <<state, port, faults, reader, writer, readerJob>>
      BY <2>6 DEF ConnectWriter, StoreWriter, ports, jobs, workers
    <3>2. /\ caller[k] = "writer" /\ caller'[k] = "connected" /\ own[k] = readerJob
          /\ Reads(readerJob) /\ Writes(own[k])
      BY ONLY <1>3, <2>3, <3>1 DEF Built
    <3>3. Usable'
      BY ONLY <3>1, <3>2 DEF Usable, Reads, Writes
    <3> QED
      BY ONLY <2>3, <3>1, <3>2, <3>3 DEF Built
  <2>7. CASE ConnectDone(k)
    <3>1. /\ Goto(k, "connected", "ready")
          /\ UNCHANGED <<port, faults, reader, writer, readerJob, writerJob>>
      BY <2>7 DEF ConnectDone, ports, jobs, workers, fields
    <3>2. caller[k] = "connected" /\ caller'[k] = "ready" /\ Usable
      BY ONLY <1>3, <2>3, <3>1 DEF Built
    <3>3. Usable'
      BY ONLY <3>1, <3>2 DEF Usable, Reads, Writes
    <3> QED
      BY ONLY <3>2, <3>3 DEF Built
  <2>8. CASE ConnectOpen(k)
    <3>1. /\ \/ Goto(k, "open", "channel") /\ OpenPort
             \/ Goto(k, "open", "fail")
          /\ state' = state
      BY <2>8 DEF ConnectOpen
    <3>2. \/ caller'[k] = "channel" /\ port' # 0
          \/ caller'[k] = "fail"
      BY ONLY <1>1, <1>3, <3>1 DEF OpenPort
    <3>3. caller[k] = "open"
      BY ONLY <1>3, <3>1
    <3> QED
      BY ONLY <2>3, <3>1, <3>2, <3>3 DEF Built
  <2>9. CASE \/ ConnectBegin(k) \/ ConnectFail(k) \/ ConnectFailCas(k)
             \/ DisconnectBegin(k) \/ DisconnectCancel(k) \/ DisconnectForget(k)
             \/ DisconnectClosePort(k) \/ DisconnectDone(k)
    <3>1. \E from, to :
            /\ Goto(k, from, to)
            /\ to \notin {"channel", "reader", "writer", "connected"}
            /\ \/ state' \in {"Connecting", "Failed", "Closing", "Idle"}
               \/ from # "closing" /\ state' = state
      BY ONLY <2>9
         DEF ConnectBegin, ConnectFail, ConnectFailCas, DisconnectBegin,
             DisconnectCancel, DisconnectForget, DisconnectClosePort, DisconnectDone
    <3>2. /\ caller'[k] \notin {"channel", "reader", "writer", "connected"}
          /\ state' # "Connected"
      BY ONLY <1>3, <2>3, <3>1
    <3> QED
      BY ONLY <3>2 DEF Built
  <2> QED
    BY ONLY <1>5, <2>4, <2>5, <2>6, <2>7, <2>8, <2>9 DEF CallerStep
<1> QED
  BY ONLY <1>4, <1>5, Call(k) \/ CallerStep(k)

\* The closer.
LEMMA CloserUsable ==
  ASSUME TypeInv, SoleCaller, Alone, UsableInv, CloserStep
  PROVE  UsableInv'
<1>1. /\ closer # "off" /\ UNCHANGED <<terminal, caller>>
      /\ closer' \in {"closeChannel", "closed", "cancelScope", "end"} =>
            \/ port' = 0
            \/ closer \in {"closeChannel", "closed", "cancelScope"} /\ port' = port
      /\ closer' \in {"cancelScope", "end"} =>
            \/ state' = "Closed"
            \/ closer = "cancelScope" /\ state' = state
  BY DEF CloserStep, CloserCancel, CloserClosePort, CloserCloseChannel, CloserClosed,
     CloserCancelScope, ClosePort, fields, ports
<1>2. terminal' /\ \A k \in Callers : caller'[k] = "ready"
  BY ONLY Alone, <1>1 DEF Alone
<1> QED
  BY ONLY UsableInv, <1>1, <1>2 DEF UsableInv, Built

\* Every step keeps the session usable.
LEMMA NextUsable ==
  ASSUME TypeInv, SoleCaller, Alone, UsableInv, [Next]_vars
  PROVE  UsableInv'
<1>1. ASSUME NEW k \in Callers, Call(k) \/ CallerStep(k) PROVE UsableInv'
  BY ONLY TypeInv, SoleCaller, Alone, UsableInv, k \in Callers, <1>1, CallerUsable
<1>2. CASE \/ \E c \in Commands : Submit(c) \/ SenderStep(c) \/ TimerStep(c)
           \/ UNCHANGED vars
  <2>1. UNCHANGED <<state, terminal, readerJob, writerJob, port, closer, caller, own,
                    reader, writer, faults>>
    BY <1>2 DEF Submit, SenderStep, SenderFrame, TimerStep, vars, shared, fields, ports,
       coroutines, jobs, workers, bounds
  <2> QED
    BY ONLY UsableInv, <2>1 DEF UsableInv, Built, Usable, Reads, Writes
<1>3. ASSUME NEW g \in Gens, ReaderStep(g) \/ ReaderInput(g) PROVE UsableInv'
  <2>1. /\ ReaderMoves(g) /\ WorkerFrame /\ writer' = writer
        /\ \A h \in Gens : h # g => reader'[h] = reader[h]
    BY ONLY TypeInv, SoleCaller, g \in Gens, <1>3, ReaderMove
  <2>2. state' \in {state, "Failed"}
    BY ONLY <2>1 DEF ReaderMoves
  <2> QED
    BY ONLY TypeInv, Alone, UsableInv, <2>1, <2>2, WorkersUsable
<1>4. ASSUME NEW g \in Gens, WriterStep(g) \/ WriterOutput(g) \/ WriterTimeout(g)
      PROVE  UsableInv'
  <2>1. /\ WriterMoves(g) /\ WorkerFrame /\ reader' = reader
        /\ \A h \in Gens : h # g => writer'[h] = writer[h]
    BY ONLY TypeInv, SoleCaller, g \in Gens, <1>4, WriterMove
  <2>2. state' \in {state, "Failed"}
    BY ONLY <2>1 DEF WriterMoves
  <2> QED
    BY ONLY TypeInv, Alone, UsableInv, <2>1, <2>2, WorkersUsable
<1>5. CASE CloserStep
  BY ONLY TypeInv, SoleCaller, Alone, UsableInv, <1>5, CloserUsable
<1>6. CASE ReconnectStep
  BY <1>6 DEF Alone, ReconnectStep, ReconnectCancelled, ReconnectCancel,
     ReconnectClosePort, ReconnectLoop, ReconnectBegin, ReconnectOpen, ReconnectChannel,
     ReconnectReader, ReconnectWriter, ReconnectDone, ReconnectFinally, Pass
<1> QED
  BY ONLY <1>1, <1>2, <1>3, <1>4, <1>5, <1>6, [Next]_vars DEF Next

-----------------------------------------------------------------------------
(* A session that nothing disturbed                                        *)

\* No I/O error, and no call that blocks on a descriptor that was closed.
Quiet == faults = 0 /\ (~Blocking \/ opens = 0 \/ (opens = 1 /\ port # 0))

\* Which workers there are, and which descriptors.
Only(r, w) ==
    \A g \in Gens : /\ Works(reader[g]) => g = r
                    /\ Works(writer[g]) => g = w
NoneWorks == Only(0, 0)
AtRest == openPorts = {} /\ NoneWorks
Held == openPorts = {port}

\* What the caller has built and taken apart so far.
Stage(k) ==
    /\ caller[k] = "ready" /\ closer = "off" =>
          IF state = "Connected" THEN Held /\ Only(readerJob, writerJob) ELSE AtRest
    /\ caller[k] \in {"connect", "open", "fail", "failCas", "idle"} => AtRest
    /\ caller[k] = "failCas" => state # "Connected"
    /\ caller[k] = "channel" => Held /\ NoneWorks
    /\ caller[k] = "reader" => Held /\ Only(own[k], 0)
    /\ caller[k] = "writer" => Held /\ Only(readerJob, own[k])
    /\ caller[k] \in {"connected", "closing", "cancel"} =>
          Held /\ Only(readerJob, writerJob)
    /\ caller[k] = "cancelWriter" => Held /\ (Blocking \/ Only(0, writerJob))
    /\ caller[k] \in {"forget", "closePort"} => Held /\ (Blocking \/ NoneWorks)

\* What the closer has taken apart so far.
CloserStage ==
    /\ closer = "cancel" => AtRest \/ (Held /\ Only(readerJob, writerJob))
    /\ closer = "cancelWriter" => AtRest \/ (Held /\ (Blocking \/ Only(0, writerJob)))
    /\ closer = "closePort" => AtRest \/ (Held /\ (Blocking \/ NoneWorks))
    /\ closer \in {"closeChannel", "closed", "cancelScope", "end"} => AtRest
    /\ closer \in {"cancelScope", "end"} => state = "Closed"

\* Reader r, or writer w, uses the port held and has not failed.
ReaderCalm(r) ==
    /\ Works(r) => port # 0 /\ (r.pc = "blocked" => r.on = port)
    /\ r.pc \notin {"fail", "failCas"}
WriterCalm(w) ==
    /\ Works(w) => port # 0 /\ (w.pc = "writing" => w.on = port)
    /\ w.pc # "failCas"
    /\ w.pc = "report" => w.outcome # "WriteFailed"
Calm == \A g \in Gens : ReaderCalm(reader[g]) /\ WriterCalm(writer[g])

QuietInv == Quiet => Calm /\ (\A k \in Callers : Stage(k)) /\ CloserStage

\* Two descriptors are open only after a failure.
FewPorts ==
    \/ openPorts \subseteq {port}
    \/ faults > 0 /\ opens > 1
    \/ Blocking /\ opens > 2

\* A session that is quiet was quiet before.
LEMMA QuietBefore ==
  ASSUME TypeInv, faults' \in {faults, faults + 1},
         OpenPort \/ ClosePort \/ UNCHANGED ports, Quiet'
  PROVE  Quiet /\ faults' = 0
<1>1. faults \in Nat /\ opens \in Nat
  BY SessionAssumption DEF TypeInv, TypeOK, SharedType, BoundType, Ports
<1> QED
  BY ONLY <1>1, faults' \in {faults, faults + 1},
          OpenPort \/ ClosePort \/ UNCHANGED ports, Quiet'
     DEF Quiet, OpenPort, ClosePort, ports

\* A step that lets no more workers work.
LessWork ==
    \A g \in Gens : /\ Works(reader'[g]) => Works(reader[g])
                    /\ Works(writer'[g]) => Works(writer[g])

\* A step of a worker.
LEMMA WorkersQuiet ==
  ASSUME TypeInv, Alone, QuietInv, WorkerFrame,
         \E g \in Gens : ReaderMoves(g) \/ WriterMoves(g),
         \A g \in Gens : reader'[g] = reader[g] \/ ReaderMoves(g),
         \A g \in Gens : writer'[g] = writer[g] \/ WriterMoves(g)
  PROVE  QuietInv'
<1> SUFFICES ASSUME Quiet' PROVE (Calm /\ (\A k \in Callers : Stage(k)) /\ CloserStage)'
  BY DEF QuietInv
<1>1. /\ UNCHANGED <<readerJob, writerJob, port, openPorts, closer, caller, own>>
      /\ port # 0 => port \in openPorts
  BY DEF WorkerFrame, Alone, ports
<1>2. Quiet /\ faults' = 0
  BY QuietBefore DEF WorkerFrame
<1>3. Calm /\ (\A k \in Callers : Stage(k)) /\ CloserStage
  BY <1>2 DEF QuietInv
<1>4. state' = state
  BY ONLY <1>3, \E g \in Gens : ReaderMoves(g) \/ WriterMoves(g)
     DEF Calm, ReaderCalm, WriterCalm, ReaderMoves, WriterMoves
<1>5. LessWork
  BY DEF LessWork, Works, ReaderMoves, WriterMoves
<1>6. Calm'
  <2> SUFFICES ASSUME NEW g \in Gens
               PROVE  ReaderCalm(reader[g])' /\ WriterCalm(writer[g])'
    BY DEF Calm
  <2>1. ReaderCalm(reader[g]) /\ WriterCalm(writer[g])
    BY <1>3 DEF Calm
  <2>2. ReaderCalm(reader[g])'
    <3>1. CASE reader'[g] = reader[g]
      BY ONLY <1>1, <2>1, <3>1 DEF ReaderCalm, Works
    <3>2. CASE ReaderMoves(g)
      <4>1. reader'[g].pc \notin {"fail", "failCas"}
        BY ONLY <1>1, <1>2, <2>1, <3>2 DEF ReaderMoves, ReaderCalm
      <4>2. Works(reader'[g]) => port # 0
        BY <1>5, <2>1 DEF ReaderCalm, LessWork
      <4> QED
        BY ONLY <1>1, <3>2, <4>1, <4>2 DEF ReaderMoves, ReaderCalm, Works
    <3> QED
      BY <3>1, <3>2
  <2>3. WriterCalm(writer[g])'
    <3>1. CASE writer'[g] = writer[g]
      BY ONLY <1>1, <2>1, <3>1 DEF WriterCalm, Works
    <3>2. CASE WriterMoves(g)
      <4>1. /\ writer'[g].pc # "failCas"
            /\ writer'[g].pc = "report" => writer'[g].outcome # "WriteFailed"
        BY ONLY <1>1, <1>2, <2>1, <3>2 DEF WriterMoves, WriterCalm
      <4>2. Works(writer'[g]) => port # 0
        BY <1>5, <2>1 DEF WriterCalm, LessWork
      <4> QED
        BY ONLY <1>1, <3>2, <4>1, <4>2 DEF WriterMoves, WriterCalm, Works
    <3> QED
      BY <3>1, <3>2
  <2> QED
    BY <2>2, <2>3
<1>7. /\ Only(readerJob, writerJob) => Only(readerJob, writerJob)'
      /\ Only(0, writerJob) => Only(0, writerJob)'
      /\ \A k : /\ Only(own[k], 0) => Only(own[k], 0)'
                /\ Only(readerJob, own[k]) => Only(readerJob, own[k])'
      /\ NoneWorks => NoneWorks'
  BY ONLY <1>1, <1>5 DEF Only, LessWork, NoneWorks
<1>8. /\ Held => Held'
      /\ AtRest => AtRest'
  BY ONLY <1>1, <1>7 DEF Held, AtRest
<1>9. ASSUME NEW k \in Callers PROVE Stage(k)'
  <2>1. Stage(k)
    BY <1>3
  <2> QED
    BY ONLY <1>1, <1>4, <1>7, <1>8, <2>1 DEF Stage
<1>10. CloserStage'
  BY ONLY <1>1, <1>3, <1>4, <1>7, <1>8 DEF CloserStage
<1> QED
  BY ONLY <1>6, <1>9, <1>10

\* Cancelling the jobs of the fields, on a suspending transport, leaves none.
LEMMA CancelQuiet ==
  ASSUME TypeInv, UNCHANGED <<readerJob, writerJob, port, openPorts>>,
         \/ CancelReader /\ UNCHANGED writer
         \/ CancelWriter /\ UNCHANGED reader
  PROVE  /\ Calm => Calm'
         /\ Held => Held'
         /\ AtRest => AtRest'
         /\ CancelReader /\ Only(readerJob, writerJob) => Blocking \/ Only(0, writerJob)'
         /\ CancelWriter /\ Only(0, writerJob) => Blocking \/ NoneWorks'
<1>1. reader \in [Gens -> ReaderRecords] /\ writer \in [Gens -> WriterRecords]
  BY DEF TypeInv, TypeOK, WorkerType
<1>2. CancelReader => \A g \in Gens :
        /\ reader'[g].pc = reader[g].pc /\ reader'[g].on = reader[g].on
        /\ reader'[g].cancelled <=> reader[g].cancelled \/ g = readerJob
  BY ONLY <1>1, ReaderCancel
<1>3. CancelWriter => \A g \in Gens :
        /\ writer'[g].pc = writer[g].pc /\ writer'[g].on = writer[g].on
        /\ writer'[g].outcome = writer[g].outcome
        /\ writer'[g].cancelled <=> writer[g].cancelled \/ g = writerJob
  BY ONLY <1>1, WriterCancel
<1>4. LessWork
  BY <1>2, <1>3 DEF LessWork, Works
<1>5. Calm => Calm'
  BY <1>2, <1>3 DEF Calm, ReaderCalm, WriterCalm, Works
<1>6. (Held => Held') /\ (AtRest => AtRest')
  BY <1>4 DEF Held, AtRest, NoneWorks, Only, LessWork
<1>7. CancelReader /\ Only(readerJob, writerJob) => Blocking \/ Only(0, writerJob)'
  BY <1>2, <1>4 DEF Only, LessWork, Works
<1>8. CancelWriter /\ Only(0, writerJob) => Blocking \/ NoneWorks'
  BY <1>3, <1>4 DEF Only, NoneWorks, LessWork, Works
<1> QED
  BY <1>5, <1>6, <1>7, <1>8

\* A port that is closed while it is quiet leaves the session at rest.
LEMMA CloseQuiet ==
  ASSUME TypeInv, Alone, Calm, ClosePort, UNCHANGED workers, Quiet',
         AtRest \/ (Held /\ (Blocking \/ NoneWorks))
  PROVE  AtRest' /\ Calm'
<1>1. opens \in Nat /\ openPorts \subseteq 1..opens
  BY SessionAssumption DEF TypeInv, TypeOK, SharedType, Ports, Alone
<1>2. ~Blocking \/ opens = 0
  BY <1>1 DEF Quiet, ClosePort
<1>3. NoneWorks /\ openPorts' = {}
  <2>1. CASE AtRest
    BY <2>1 DEF ClosePort, AtRest
  <2>2. CASE Held /\ (Blocking \/ NoneWorks)
    <3>1. opens # 0
      BY <1>1, <2>2 DEF Held
    <3> QED
      BY <1>2, <2>2, <3>1 DEF ClosePort, Held
  <2> QED
    BY <2>1, <2>2
<1> QED
  BY <1>3 DEF AtRest, NoneWorks, Only, Calm, ReaderCalm, WriterCalm, workers, Gens

\* The caller, step by step.
LEMMA CallerQuiet ==
  ASSUME TypeInv, SoleCaller, Alone, QuietInv, NEW k \in Callers,
         Call(k) \/ CallerStep(k)
  PROVE  QuietInv'
<1> SUFFICES ASSUME Quiet' PROVE (Calm /\ (\A j \in Callers : Stage(j)) /\ CloserStage)'
  BY DEF QuietInv
<1>1. /\ caller \in [Callers -> CallerPcs] /\ own \in [Callers -> 0..MaxGen]
      /\ reader \in [Gens -> ReaderRecords] /\ writer \in [Gens -> WriterRecords]
      /\ gen \in Nat /\ openPorts \subseteq Gens /\ openPorts \subseteq 1..opens
      /\ opens \in Nat
  BY SessionAssumption
     DEF TypeInv, TypeOK, SharedType, Ports, CoroutineType, WorkerType, BoundType, Alone
<1>2. \A j \in Callers : j = k
  BY DEF SoleCaller
<1>3. ASSUME NEW from, NEW to, Goto(k, from, to)
      PROVE  caller[k] = from /\ caller'[k] = to
  BY ONLY <1>1, <1>3, k \in Callers DEF Goto
<1>4. Quiet
  <2>1. OpenPort \/ ClosePort \/ UNCHANGED ports
    BY DEF Call, Connect, Disconnect, Close, CallerStep, ConnectBegin, ConnectOpen,
       ConnectChannel, ConnectReader, ConnectWriter, ConnectDone, ConnectFail,
       ConnectFailCas, DisconnectBegin, DisconnectCancel, DisconnectForget,
       DisconnectClosePort, DisconnectDone, OpenRefused
  <2>2. faults' \in {faults, faults + 1}
    BY DEF Call, Connect, Disconnect, Close, CallerStep, ConnectBegin, ConnectOpen,
       ConnectChannel, ConnectReader, ConnectWriter, ConnectDone, ConnectFail,
       ConnectFailCas, DisconnectBegin, DisconnectCancel, DisconnectForget,
       DisconnectClosePort, DisconnectDone, OpenRefused, Fault
  <2> QED
    BY <2>1, <2>2, QuietBefore
<1>5. Calm /\ Stage(k) /\ CloserStage
  BY <1>4 DEF QuietInv
<1>6. ASSUME UNCHANGED <<reader, writer, readerJob, writerJob, ports>>
      PROVE  /\ Calm' /\ Held' = Held /\ AtRest' = AtRest /\ NoneWorks' = NoneWorks
             /\ Only(readerJob, writerJob)' = Only(readerJob, writerJob)
  BY ONLY <1>5, <1>6
     DEF Calm, ReaderCalm, WriterCalm, Held, AtRest, NoneWorks, Only, ports
<1>7. CASE Call(k)
  <2>1. UNCHANGED <<reader, writer, readerJob, writerJob, ports, state, own>>
    BY <1>7 DEF Call, Connect, Disconnect, Close, fields, jobs, workers
  <2>2. CASE Close(k)
    <3>1. caller' = caller /\ caller[k] = "ready" /\ closer = "off" /\ closer' = "cancel"
      BY <2>2 DEF Close, Alone
    <3>2. CloserStage'
      BY ONLY <1>5, <1>6, <2>1, <3>1 DEF CloserStage, Stage
    <3> QED
      BY ONLY <1>2, <1>6, <2>1, <3>1, <3>2 DEF Stage
  <2>3. CASE Connect(k) \/ Disconnect(k)
    <3>1. UNCHANGED closer /\ caller[k] = "ready" /\ (~terminal => closer = "off")
      BY <2>3 DEF Connect, Disconnect, Goto, jobs, Alone
    <3>2. \/ caller'[k] = "ready"
          \/ caller'[k] = "connect" /\ ~terminal /\ state # "Connected"
          \/ caller'[k] = "closing" /\ ~terminal /\ state = "Connected"
      BY ONLY <1>3, <2>3 DEF Connect, Disconnect
    <3>3. Stage(k)'
      BY ONLY <1>5, <1>6, <2>1, <3>1, <3>2 DEF Stage
    <3>4. CloserStage'
      BY ONLY <1>5, <1>6, <2>1, <3>1 DEF CloserStage, Only
    <3> QED
      BY ONLY <1>2, <1>6, <2>1, <3>3, <3>4
  <2> QED
    BY <1>7, <2>2, <2>3 DEF Call
<1>8. CASE CallerStep(k)
  <2>1. caller[k] # "ready" /\ UNCHANGED closer
    BY <1>8 DEF CallerStep, ConnectBegin, ConnectOpen, ConnectChannel, ConnectReader,
       ConnectWriter, ConnectDone, ConnectFail, ConnectFailCas, DisconnectBegin,
       DisconnectCancel, DisconnectForget, DisconnectClosePort, DisconnectDone, Goto,
       jobs
  <2>2. closer' = "off" /\ scopeActive
    BY ONLY Alone, <2>1, k \in Callers DEF Alone
  <2>3. CloserStage'
    BY ONLY <2>2 DEF CloserStage
  <2>4. CASE \/ ConnectBegin(k) \/ ConnectDone(k) \/ ConnectFail(k) \/ ConnectFailCas(k)
             \/ DisconnectBegin(k) \/ DisconnectForget(k) \/ DisconnectDone(k)
    <3>1. UNCHANGED <<reader, writer, readerJob, writerJob, ports>>
      BY ONLY <2>4 DEF ConnectBegin, ConnectDone, ConnectFail, ConnectFailCas, DisconnectBegin,
         DisconnectForget, DisconnectDone, fields, jobs, workers
    <3>2. \/ Goto(k, "connect", "open")
          \/ Goto(k, "connected", "ready") /\ state' = "Connected"
          \/ Goto(k, "fail", "failCas") /\ state' = "Failed"
          \/ Goto(k, "failCas", "ready") /\ state' = state
          \/ Goto(k, "closing", "cancel")
          \/ Goto(k, "forget", "closePort")
          \/ Goto(k, "idle", "ready") /\ state' = "Idle"
      BY ONLY <2>4 DEF ConnectBegin, ConnectDone, ConnectFail, ConnectFailCas, DisconnectBegin,
         DisconnectForget, DisconnectDone
    <3>3. \/ caller[k] = "connect" /\ caller'[k] = "open"
          \/ caller[k] = "connected" /\ caller'[k] = "ready" /\ state' = "Connected"
          \/ caller[k] = "fail" /\ caller'[k] = "failCas" /\ state' = "Failed"
          \/ caller[k] = "failCas" /\ caller'[k] = "ready" /\ state' = state
          \/ caller[k] = "closing" /\ caller'[k] = "cancel"
          \/ caller[k] = "forget" /\ caller'[k] = "closePort"
          \/ caller[k] = "idle" /\ caller'[k] = "ready" /\ state' = "Idle"
      BY ONLY <1>3, <3>2
    <3>4. Stage(k)'
      BY ONLY <1>5, <1>6, <3>1, <3>3 DEF Stage
    <3> QED
      BY ONLY <1>2, <1>6, <2>3, <3>1, <3>4
  <2>5. CASE ConnectOpen(k)
    <3>1. /\ UNCHANGED workers
          /\ \/ Goto(k, "open", "channel") /\ OpenPort
             \/ Goto(k, "open", "fail") /\ UNCHANGED ports
      BY <2>5 DEF ConnectOpen, OpenRefused, jobs
    <3>2. AtRest
      BY ONLY <1>3, <1>5, <3>1 DEF Stage
    <3>3. Calm' /\ NoneWorks'
      BY ONLY <1>5, <3>1, <3>2
         DEF AtRest, NoneWorks, Only, Calm, ReaderCalm, WriterCalm, workers, Gens
    <3>4. \/ caller'[k] = "channel" /\ Held'
          \/ caller'[k] = "fail" /\ openPorts' = {}
      BY ONLY <1>3, <3>1, <3>2 DEF AtRest, OpenPort, Held, ports
    <3>5. Stage(k)'
      BY ONLY <3>3, <3>4 DEF Stage, AtRest
    <3> QED
      BY ONLY <1>2, <2>3, <3>3, <3>5
  <2>6. CASE ConnectChannel(k)
    <3>1. /\ Goto(k, "channel", "reader") /\ NewChannel /\ UNCHANGED <<writer, ports>>
          /\ own' = [own EXCEPT ![k] = gen + 1]
      BY <2>6 DEF ConnectChannel
    <3>2. /\ caller[k] = "channel" /\ caller'[k] = "reader" /\ own'[k] = gen + 1
      BY ONLY <1>1, <1>3, <3>1, k \in Callers
    <3>3. Held /\ NoneWorks
      BY ONLY <1>5, <3>2 DEF Stage
    <3>4. /\ gen + 1 \in Gens /\ reader'[gen + 1].pc = "start"
          /\ \A g \in Gens : g # gen + 1 => reader'[g] = reader[g]
      <4>1. gen + 1 \in Gens
        BY ONLY <1>1, <3>1, SessionAssumption DEF NewChannel, Gens
      <4> QED
        BY ONLY <1>1, <3>1, <4>1 DEF NewChannel, ReaderRecords
    <3>5. Held' /\ Only(own[k], 0)'
      BY ONLY <3>1, <3>2, <3>3, <3>4 DEF Held, NoneWorks, Only, ports, Gens
    <3>6. Calm'
      <4>1. port' # 0
        BY ONLY <1>1, <3>1, <3>3 DEF Held, ports, Gens
      <4> QED
        BY ONLY <1>5, <3>1, <3>4, <4>1 DEF Calm, ReaderCalm, WriterCalm, ports
    <3>7. Stage(k)'
      BY ONLY <3>2, <3>5 DEF Stage
    <3> QED
      BY ONLY <1>2, <2>3, <3>6, <3>7
  <2>7. CASE ConnectReader(k)
    <3>1. /\ Goto(k, "reader", "writer") /\ StoreReader(own[k])
          /\ UNCHANGED <<reader, ports, own>>
      BY <2>7 DEF ConnectReader
    <3>2. caller[k] = "reader" /\ caller'[k] = "writer" /\ readerJob' = own[k]
      BY ONLY <1>3, <3>1 DEF StoreReader
    <3>3. Held /\ Only(own[k], 0)
      BY ONLY <1>5, <3>2 DEF Stage
    <3>4. \A g \in Gens : IF g # own[k] THEN writer'[g] = writer[g]
                                        ELSE writer'[g].pc = "start"
      BY ONLY <1>1, <3>1, k \in Callers DEF StoreReader, WriterRecords
    <3>5. Held' /\ Only(readerJob, own[k])'
      BY ONLY <3>1, <3>2, <3>3, <3>4 DEF Held, Only, ports, Gens
    <3>6. Calm'
      <4>1. port' # 0
        BY ONLY <1>1, <3>1, <3>3 DEF Held, ports, Gens
      <4> QED
        BY ONLY <1>5, <3>1, <3>4, <4>1 DEF Calm, ReaderCalm, WriterCalm, ports
    <3>7. Stage(k)'
      BY ONLY <3>2, <3>5 DEF Stage
    <3> QED
      BY ONLY <1>2, <2>3, <3>6, <3>7
  <2>8. CASE ConnectWriter(k)
    <3>1. /\ Goto(k, "writer", "connected") /\ writerJob' = own[k]
          /\ UNCHANGED <<reader, writer, readerJob, ports>>
      BY <2>8 DEF ConnectWriter, StoreWriter, jobs, workers
    <3>2. caller[k] = "writer" /\ caller'[k] = "connected"
      BY ONLY <1>3, <3>1
    <3>3. Held /\ Only(readerJob, own[k])
      BY ONLY <1>5, <3>2 DEF Stage
    <3>4. Held' /\ Only(readerJob, writerJob)' /\ Calm'
      BY ONLY <1>5, <3>1, <3>3 DEF Held, Only, Calm, ReaderCalm, WriterCalm, ports
    <3>5. Stage(k)'
      BY ONLY <3>2, <3>4 DEF Stage
    <3> QED
      BY ONLY <1>2, <2>3, <3>4, <3>5
  <2>9. CASE DisconnectCancel(k)
    <3>1. /\ UNCHANGED <<readerJob, writerJob, port, openPorts>>
          /\ \/ Goto(k, "cancel", "cancelWriter") /\ CancelReader /\ UNCHANGED writer
             \/ Goto(k, "cancelWriter", "forget") /\ CancelWriter /\ UNCHANGED reader
      BY <2>9 DEF DisconnectCancel, fields, ports
    <3>2. \/ /\ caller[k] = "cancel" /\ caller'[k] = "cancelWriter"
             /\ CancelReader /\ UNCHANGED writer
          \/ /\ caller[k] = "cancelWriter" /\ caller'[k] = "forget"
             /\ CancelWriter /\ UNCHANGED reader
      BY ONLY <1>3, <3>1
    <3>3. Held /\ \/ caller[k] = "cancel" /\ Only(readerJob, writerJob)
                  \/ caller[k] = "cancelWriter" /\ (Blocking \/ Only(0, writerJob))
      BY ONLY <1>5, <3>2 DEF Stage
    <3>4. /\ Calm' /\ Held'
          /\ caller'[k] = "cancelWriter" => Blocking \/ Only(0, writerJob)'
          /\ caller'[k] = "forget" => Blocking \/ NoneWorks'
      <4>1. /\ Calm' /\ Held'
            /\ CancelReader /\ Only(readerJob, writerJob) => Blocking \/ Only(0, writerJob)'
            /\ CancelWriter /\ Only(0, writerJob) => Blocking \/ NoneWorks'
        BY ONLY TypeInv, <1>5, <3>1, <3>3, CancelQuiet
      <4> QED
        BY ONLY <3>2, <3>3, <4>1
    <3>5. Stage(k)'
      BY ONLY <3>2, <3>4 DEF Stage
    <3> QED
      BY ONLY <1>2, <2>3, <3>4, <3>5
  <2>10. CASE DisconnectClosePort(k)
    <3>1. Goto(k, "closePort", "idle") /\ ClosePort /\ UNCHANGED workers
      BY <2>10 DEF DisconnectClosePort, jobs
    <3>2. caller'[k] = "idle" /\ Held /\ (Blocking \/ NoneWorks)
      BY ONLY <1>3, <1>5, <3>1 DEF Stage
    <3>3. AtRest' /\ Calm'
      BY ONLY TypeInv, Alone, Quiet', <1>5, <3>1, <3>2, CloseQuiet
    <3>4. Stage(k)'
      BY ONLY <3>2, <3>3 DEF Stage
    <3> QED
      BY ONLY <1>2, <2>3, <3>3, <3>4
  <2> QED
    BY ONLY <1>8, <2>4, <2>5, <2>6, <2>7, <2>8, <2>9, <2>10 DEF CallerStep
<1> QED
  BY ONLY <1>7, <1>8, Call(k) \/ CallerStep(k)

\* The closer, step by step.
LEMMA CloserQuiet ==
  ASSUME TypeInv, SoleCaller, Alone, QuietInv, CloserStep
  PROVE  QuietInv'
<1> SUFFICES ASSUME Quiet' PROVE (Calm /\ (\A j \in Callers : Stage(j)) /\ CloserStage)'
  BY DEF QuietInv
<1>1. /\ closer # "off" /\ closer' # "off"
      /\ UNCHANGED <<caller, readerJob, writerJob, faults>>
      /\ \A k \in Callers : caller[k] = "ready"
  BY DEF CloserStep, CloserCancel, CloserClosePort, CloserCloseChannel, CloserClosed,
     CloserCancelScope, fields, bounds, Alone
<1>2. Quiet
  <2>1. OpenPort \/ ClosePort \/ UNCHANGED ports
    BY DEF CloserStep, CloserCancel, CloserClosePort, CloserCloseChannel,
       CloserClosed, CloserCancelScope
  <2> QED
    BY <1>1, <2>1, QuietBefore
<1>3. Calm /\ CloserStage
  BY <1>2 DEF QuietInv
<1>4. \A k \in Callers : Stage(k)'
  BY ONLY <1>1 DEF Stage
<1>5. CASE CloserCancel
  <2>1. UNCHANGED <<port, openPorts>>
    BY <1>5 DEF CloserCancel, ports
  <2>2. \/ /\ closer = "cancel" /\ closer' = "cancelWriter"
           /\ CancelReader /\ UNCHANGED writer
        \/ /\ closer = "cancelWriter" /\ closer' = "closePort"
           /\ CancelWriter /\ UNCHANGED reader
    BY ONLY <1>5 DEF CloserCancel
  <2>3. /\ Calm' /\ (Held => Held') /\ (AtRest => AtRest')
        /\ CancelReader /\ Only(readerJob, writerJob) => Blocking \/ Only(0, writerJob)'
        /\ CancelWriter /\ Only(0, writerJob) => Blocking \/ NoneWorks'
    BY ONLY TypeInv, <1>1, <1>3, <2>1, <2>2, CancelQuiet
  <2>4. CloserStage'
    BY ONLY <1>3, <2>2, <2>3 DEF CloserStage
  <2> QED
    BY ONLY <1>4, <2>3, <2>4
<1>6. CASE CloserClosePort
  <2>1. /\ closer = "closePort" /\ closer' = "closeChannel"
        /\ ClosePort /\ UNCHANGED workers
    BY ONLY <1>6 DEF CloserClosePort
  <2>2. AtRest \/ (Held /\ (Blocking \/ NoneWorks))
    BY ONLY <1>3, <2>1 DEF CloserStage
  <2>3. AtRest' /\ Calm'
    BY ONLY TypeInv, Alone, Quiet', <1>3, <2>1, <2>2, CloseQuiet
  <2>4. CloserStage'
    BY ONLY <2>1, <2>3 DEF CloserStage
  <2> QED
    BY ONLY <1>4, <2>3, <2>4
<1>7. CASE CloserCloseChannel \/ CloserClosed \/ CloserCancelScope
  <2>1. /\ closer \in {"closeChannel", "closed", "cancelScope"}
        /\ closer' \in {"closed", "cancelScope", "end"}
        /\ closer' \in {"cancelScope", "end"} =>
              \/ state' = "Closed"
              \/ closer = "cancelScope" /\ state' = state
        /\ UNCHANGED ports
    BY ONLY <1>7 DEF CloserCloseChannel, CloserClosed, CloserCancelScope
  <2>2. \A g \in Gens : /\ reader'[g].pc = reader[g].pc
                        /\ Works(reader'[g]) => Works(reader[g])
                        /\ writer'[g].pc = writer[g].pc
                        /\ writer'[g].outcome = writer[g].outcome
                        /\ Works(writer'[g]) => Works(writer[g])
    <3>1. CASE UNCHANGED workers
      BY ONLY <3>1 DEF workers
    <3>2. CASE CloserCancelScope
      <4> SUFFICES ASSUME NEW g \in Gens
                   PROVE  /\ reader'[g].pc = reader[g].pc
                          /\ Works(reader'[g]) => Works(reader[g])
                          /\ writer'[g].pc = writer[g].pc
                          /\ writer'[g].outcome = writer[g].outcome
                          /\ Works(writer'[g]) => Works(writer[g])
        OBVIOUS
      <4>1. reader[g] \in ReaderRecords /\ writer[g] \in WriterRecords
        BY DEF TypeInv, TypeOK, WorkerType
      <4>2. /\ reader'[g] = [reader[g] EXCEPT !.cancelled = TRUE]
            /\ writer'[g] = [writer[g] EXCEPT !.cancelled = TRUE]
        BY ONLY <3>2, g \in Gens DEF CloserCancelScope
      <4>3. /\ reader'[g].pc = reader[g].pc
            /\ Works(reader'[g]) => Works(reader[g])
        BY ONLY <4>1, <4>2 DEF ReaderRecords, Works
      <4>4. /\ writer'[g].pc = writer[g].pc
            /\ writer'[g].outcome = writer[g].outcome
            /\ Works(writer'[g]) => Works(writer[g])
        BY ONLY <4>1, <4>2 DEF WriterRecords, Works
      <4> QED
        BY ONLY <4>3, <4>4
    <3> QED
      BY ONLY <1>7, <3>1, <3>2 DEF CloserCloseChannel, CloserClosed
  <2>3. AtRest
    BY ONLY <1>3, <2>1 DEF CloserStage
  <2>4. AtRest'
    BY ONLY <2>1, <2>2, <2>3 DEF AtRest, NoneWorks, Only, ports
  <2>5. Calm'
    BY ONLY <1>3, <2>2, <2>4 DEF Calm, ReaderCalm, WriterCalm, AtRest, NoneWorks, Only, Gens
  <2>6. CloserStage'
    BY ONLY <1>3, <2>1, <2>4 DEF CloserStage
  <2> QED
    BY ONLY <1>4, <2>5, <2>6
<1> QED
  BY ONLY <1>5, <1>6, <1>7, CloserStep DEF CloserStep

\* Every step of a session that nothing disturbed.
LEMMA NextQuiet ==
  ASSUME TypeInv, SoleCaller, Alone, QuietInv, [Next]_vars
  PROVE  QuietInv'
<1>1. ASSUME NEW k \in Callers, Call(k) \/ CallerStep(k) PROVE QuietInv'
  BY ONLY TypeInv, SoleCaller, Alone, QuietInv, k \in Callers, <1>1, CallerQuiet
<1>2. CASE \/ \E c \in Commands : Submit(c) \/ SenderStep(c) \/ TimerStep(c)
           \/ UNCHANGED vars
  <2>1. UNCHANGED <<state, readerJob, writerJob, ports, closer, caller, own, reader,
                    writer, faults>>
    BY <1>2 DEF Submit, SenderStep, SenderFrame, TimerStep, vars, shared, fields,
       coroutines, jobs, workers, bounds
  <2>2. /\ Quiet' = Quiet /\ Calm' = Calm /\ AtRest' = AtRest /\ NoneWorks' = NoneWorks
        /\ Held' = Held
    BY ONLY <2>1 DEF Quiet, Calm, ReaderCalm, WriterCalm, AtRest, NoneWorks, Only, Held,
       ports
  <2>3. /\ Only(readerJob, writerJob)' = Only(readerJob, writerJob)
        /\ Only(0, writerJob)' = Only(0, writerJob)
        /\ \A k : /\ Only(own[k], 0)' = Only(own[k], 0)
                  /\ Only(readerJob, own[k])' = Only(readerJob, own[k])
    BY ONLY <2>1 DEF Only
  <2>4. \A k \in Callers : Stage(k) => Stage(k)'
    BY ONLY <2>1, <2>2, <2>3 DEF Stage
  <2>5. CloserStage => CloserStage'
    BY ONLY <2>1, <2>2, <2>3 DEF CloserStage
  <2> QED
    BY ONLY QuietInv, <2>2, <2>4, <2>5 DEF QuietInv
<1>3. ASSUME NEW g \in Gens, ReaderStep(g) \/ ReaderInput(g) PROVE QuietInv'
  <2>1. /\ ReaderMoves(g) /\ WorkerFrame /\ writer' = writer
        /\ \A h \in Gens : h # g => reader'[h] = reader[h]
    BY ONLY TypeInv, SoleCaller, g \in Gens, <1>3, ReaderMove
  <2> QED
    BY ONLY TypeInv, Alone, QuietInv, g \in Gens, <2>1, WorkersQuiet
<1>4. ASSUME NEW g \in Gens, WriterStep(g) \/ WriterOutput(g) \/ WriterTimeout(g)
      PROVE  QuietInv'
  <2>1. /\ WriterMoves(g) /\ WorkerFrame /\ reader' = reader
        /\ \A h \in Gens : h # g => writer'[h] = writer[h]
    BY ONLY TypeInv, SoleCaller, g \in Gens, <1>4, WriterMove
  <2> QED
    BY ONLY TypeInv, Alone, QuietInv, g \in Gens, <2>1, WorkersQuiet
<1>5. CASE CloserStep
  BY ONLY TypeInv, SoleCaller, Alone, QuietInv, <1>5, CloserQuiet
<1>6. CASE ReconnectStep
  BY <1>6 DEF Alone, ReconnectStep, ReconnectCancelled, ReconnectCancel,
     ReconnectClosePort, ReconnectLoop, ReconnectBegin, ReconnectOpen, ReconnectChannel,
     ReconnectReader, ReconnectWriter, ReconnectDone, ReconnectFinally, Pass
<1> QED
  BY ONLY <1>1, <1>2, <1>3, <1>4, <1>5, <1>6, [Next]_vars DEF Next

\* connect opens a port over another only in a session that was disturbed.
LEMMA OpenFewPorts ==
  ASSUME TypeInv, Alone, QuietInv, FewPorts, NEW k \in Callers, caller[k] = "open",
         OpenPort, faults' = faults
  PROVE  FewPorts'
<1>1. opens \in Nat /\ faults \in Nat /\ openPorts \subseteq 1..opens
  BY SessionAssumption DEF TypeInv, TypeOK, SharedType, BoundType, Ports, Alone
<1>2. CASE openPorts = {}
  BY <1>2 DEF FewPorts, OpenPort
<1>3. CASE openPorts # {}
  <2>1. ~Quiet
    BY <1>3 DEF QuietInv, Stage, AtRest
  <2>2. opens >= 1 /\ opens' = opens + 1
    <3>1. PICK p \in openPorts : TRUE
      BY <1>3
    <3>2. p \in 1..opens
      BY ONLY <1>1, <3>1
    <3> QED
      BY <1>1, <3>2 DEF OpenPort
  <2>3. CASE faults > 0
    BY <1>1, <2>2, <2>3, faults' = faults DEF FewPorts
  <2>4. CASE faults = 0
    <3>1. Blocking /\ ~(opens = 1 /\ port # 0)
      BY <2>1, <2>4 DEF Quiet
    <3>2. opens # 1
      <4>1. ASSUME opens = 1 PROVE FALSE
        <5>1. port = 0 /\ openPorts \subseteq {port}
          BY ONLY FewPorts, <1>1, <2>4, <3>1, <4>1 DEF FewPorts
        <5>2. PICK p \in openPorts : TRUE
          BY <1>3
        <5>3. p = 0 /\ p \in 1..opens
          BY ONLY <1>1, <5>1, <5>2
        <5> QED
          BY ONLY <1>1, <5>3
      <4> QED
        BY <4>1
    <3> QED
      BY <1>1, <2>2, <3>1, <3>2 DEF FewPorts
  <2> QED
    BY <1>1, <2>3, <2>4
<1> QED
  BY <1>2, <1>3

\* Every other step opens none.
LEMMA NextFewPorts ==
  ASSUME TypeInv, SoleCaller, Alone, QuietInv, FewPorts, [Next]_vars
  PROVE  FewPorts'
<1>1. opens \in Nat /\ faults \in Nat
  BY SessionAssumption DEF TypeInv, TypeOK, SharedType, BoundType, Ports
<1>2. ASSUME ClosePort \/ UNCHANGED ports, faults' \in {faults, faults + 1}
      PROVE  FewPorts'
  BY ONLY <1>1, <1>2, FewPorts DEF FewPorts, ClosePort, ports
<1>3. ASSUME NEW k \in Callers, Call(k) \/ CallerStep(k) PROVE FewPorts'
  <2>1. CASE ConnectOpen(k)
    <3>1. \/ caller[k] = "open" /\ OpenPort /\ faults' = faults
          \/ UNCHANGED ports /\ faults' \in {faults, faults + 1}
      BY ONLY <2>1 DEF ConnectOpen, Goto, OpenRefused, Fault
    <3> QED
      BY ONLY TypeInv, Alone, QuietInv, FewPorts, k \in Callers, <1>2, <3>1, OpenFewPorts
  <2>2. CASE ~ConnectOpen(k)
    <3>1. /\ ClosePort \/ UNCHANGED ports
          /\ faults' = faults
      BY <1>3, <2>2 DEF Call, Connect, Disconnect, Close, CallerStep, ConnectBegin,
         ConnectChannel, ConnectReader, ConnectWriter, ConnectDone, ConnectFail,
         ConnectFailCas, DisconnectBegin, DisconnectCancel, DisconnectForget,
         DisconnectClosePort, DisconnectDone
    <3> QED
      BY ONLY <1>2, <3>1
  <2> QED
    BY <2>1, <2>2
<1>4. CASE \/ \E c \in Commands : Submit(c) \/ SenderStep(c) \/ TimerStep(c)
           \/ UNCHANGED vars
  <2>1. UNCHANGED <<ports, faults>>
    BY <1>4 DEF Submit, SenderStep, SenderFrame, TimerStep, vars, bounds
  <2> QED
    BY ONLY <1>2, <2>1
<1>5. ASSUME NEW g \in Gens, \/ ReaderStep(g) \/ ReaderInput(g)
                             \/ WriterStep(g) \/ WriterOutput(g) \/ WriterTimeout(g)
      PROVE  FewPorts'
  <2>1. WorkerFrame
    BY <1>5, ReaderMove, WriterMove
  <2> QED
    BY ONLY <1>2, <2>1 DEF WorkerFrame
<1>6. CASE CloserStep
  <2>1. (ClosePort \/ UNCHANGED ports) /\ faults' = faults
    BY <1>6 DEF CloserStep, CloserCancel, CloserClosePort, CloserCloseChannel,
       CloserClosed, CloserCancelScope, bounds
  <2> QED
    BY ONLY <1>2, <2>1
<1>7. CASE ReconnectStep
  BY <1>7 DEF Alone, ReconnectStep, ReconnectCancelled, ReconnectCancel,
     ReconnectClosePort, ReconnectLoop, ReconnectBegin, ReconnectOpen, ReconnectChannel,
     ReconnectReader, ReconnectWriter, ReconnectDone, ReconnectFinally, Pass
<1> QED
  BY ONLY <1>3, <1>4, <1>5, <1>6, <1>7, [Next]_vars DEF Next

\* The invariants of a session with one caller, together.
SoleInv == Alone /\ UsableInv /\ QuietInv /\ FewPorts

\* They hold from the start.
LEMMA InitSole ==
  ASSUME Init
  PROVE  SoleInv
<1>1. Alone /\ UsableInv
  BY DEF Init, Alone, UsableInv, Built
<1>2. openPorts = {} /\ state = "Idle" /\ closer = "off"
      /\ \A k \in Callers : caller[k] = "ready"
  BY DEF Init
<1>3. \A g \in Gens : /\ reader[g].pc = "none" /\ ~Works(reader[g])
                      /\ writer[g].pc = "none" /\ ~Works(writer[g])
  BY DEF Init, Reader0, Writer0, Works
<1>4. QuietInv
  BY ONLY <1>2, <1>3
     DEF QuietInv, Calm, ReaderCalm, WriterCalm, Stage, CloserStage, AtRest, NoneWorks, Only
<1>5. FewPorts
  BY ONLY <1>2 DEF FewPorts
<1> QED
  BY <1>1, <1>4, <1>5 DEF SoleInv

\* Every step keeps them.
LEMMA NextSole ==
  ASSUME TypeInv, SoleCaller, SoleInv, [Next]_vars
  PROVE  SoleInv'
BY NextAlone, NextUsable, NextQuiet, NextFewPorts DEF SoleInv

\* A session with one caller satisfies them.
LEMMA SpecSoleInv ==
  ASSUME SoleCaller
  PROVE  Spec => []SoleInv
<1>1. Init => SoleInv
  BY InitSole
<1>2. TypeInv /\ SoleInv /\ [Next]_vars => SoleInv'
  BY NextSole
<1> QED
  BY <1>1, <1>2, SpecTypeInv, PTL DEF Spec

\* On any transport, and through I/O errors, a session that says Connected can be
\* used (connect:45-57).
THEOREM SessionConnectedIsUsable == Spec => []ConnectedIsUsable
<1>1. CASE SoleCaller
  <2>1. SoleInv => ConnectedIsUsable
    BY DEF SoleInv, Alone, UsableInv, Usable, Reads, Writes, ConnectedIsUsable
  <2> QED
    BY <1>1, <2>1, SpecSoleInv, PTL
<1>2. CASE ~SoleCaller
  <2>1. ConnectedIsUsable
    BY <1>2 DEF ConnectedIsUsable
  <2> QED
    BY <2>1, PTL
<1> QED
  BY <1>1, <1>2

\* close:96-101 end the session and release the device, whatever the transport, a
\* disconnect before and the I/O errors were, but for what a failure leaves.
THEOREM SessionCloseIsTerminal == Spec => []CloseIsTerminal
<1>1. CASE SoleCaller
  <2>1. TypeInv /\ SoleInv => CloseIsTerminal
    <3> SUFFICES ASSUME TypeInv, SoleInv, closer = "end"
                 PROVE  /\ port = 0
                        /\ state = "Closed" \/ (Disturbed /\ state = "Failed")
                        /\ openPorts = {} \/ (Disturbed /\ opens > 1)
      BY DEF CloseIsTerminal
    <3>1. opens \in Nat /\ faults \in Nat /\ openPorts \subseteq 1..opens
      BY SessionAssumption DEF TypeInv, TypeOK, SharedType, BoundType, Ports, SoleInv, Alone
    <3>2. port = 0 /\ state \in {"Closed", "Failed"}
      BY DEF SoleInv, UsableInv
    <3>3. ~Disturbed => state = "Closed"
      <4>1. ~Disturbed => Quiet
        BY <3>1 DEF Disturbed, Quiet
      <4> QED
        BY <4>1 DEF SoleInv, QuietInv, CloserStage
    <3>4. openPorts = {} \/ (Disturbed /\ opens > 1)
      <4>1. FewPorts
        BY DEF SoleInv
      <4> QED
        BY ONLY <3>1, <3>2, <4>1 DEF FewPorts, Disturbed
    <3> QED
      BY <3>2, <3>3, <3>4
  <2> QED
    BY <1>1, <2>1, SpecSoleInv, SpecTypeInv, PTL
<1>2. CASE ~SoleCaller
  <2>1. CloseIsTerminal
    BY <1>2 DEF CloseIsTerminal
  <2> QED
    BY <2>1, PTL
<1> QED
  BY <1>1, <1>2

\* connect:50 opens the device again over a descriptor it still holds only after an
\* I/O error, or after the late throw of a call that blocks.
THEOREM SessionOnePort == Spec => []OnePort
<1>1. CASE SoleCaller
  <2>1. SoleInv => OnePort
    <3>1. openPorts \subseteq {port} => Cardinality(openPorts) <= 1
      <4>1. Cardinality({}) = 0 /\ Cardinality({port}) = 1
        BY FS_EmptySet, FS_Singleton
      <4> QED
        BY <4>1
    <3> QED
      BY <3>1 DEF SoleInv, FewPorts, OnePort
  <2> QED
    BY <1>1, <2>1, SpecSoleInv, PTL
<1>2. CASE ~SoleCaller
  <2>1. OnePort
    BY <1>2 DEF OnePort
  <2> QED
    BY <2>1, PTL
<1> QED
  BY <1>1, <1>2

=============================================================================
