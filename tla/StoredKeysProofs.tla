-------------------------- MODULE StoredKeysProofs --------------------------
(***************************************************************************)
(* Proof about StoredKeys: until close, and as long as threads can be      *)
(* started, one write of the record is under way at a time, however many   *)
(* threads note, drain and read.                                           *)
(***************************************************************************)
EXTENDS StoredKeys, TLAPS

\* Inside _write_now with the changes taken.
Holding == {"io", "remember", "finally"}

\* Where an actor comes only once the record is closed.
Closing == {"refused", "heldClosed", "shutdown", "join", "flush"}

\* Submissions are run by the queue's writer thread.
Orderly == ~closed /\ ~startFailed

\* Before close only the writer thread writes, nobody else is on the way to
\* writing, and changes in _writing are the ones it is writing, until a
\* thread cannot be started.
WriterInv ==
    /\ pc = [b \in Actors |-> pc[b]]
    /\ timer \in Timers \cup {None}
    /\ queueDown => closed
    /\ ~closed => \A a \in Actors : pc[a] \notin Closing
    /\ Orderly => \A a \in Actors \ {Worker} : pc[a] \notin Holding \cup {"write"}
    /\ Orderly /\ writing # Empty => pc[Worker] \in Holding
    /\ OneWriteAtATime

\* The record starts open, with nothing being written.
LEMMA WriterInit == Init => WriterInv
BY StoredKeysAssumption
   DEF Init, WriterInv, Orderly, Actors, Holding, Closing, OneWriteAtATime

\* A step that leaves _writing and close alone keeps WriterInv if, before
\* close, it sends no actor but the writer thread into _write_now.
LEMMA WriterMoves ==
    ASSUME WriterInv, NEW a \in Actors, NEW where,
           pc' = [pc EXCEPT ![a] = where],
           UNCHANGED <<writing, overlapped, closed>>, queueDown' => closed,
           timer' \in Timers \cup {None}, startFailed => startFailed',
           closed \/ where \notin Closing,
           \/ closed \/ startFailed'
           \/ /\ pc[a] \notin Holding
              /\ a = Worker \/ where \notin Holding \cup {"write"}
    PROVE  WriterInv'
BY StoredKeysAssumption
   DEF WriterInv, Orderly, Actors, Holding, Closing, OneWriteAtATime, Empty, Kinds

\* The same for a step that also starts or cancels a timer.
LEMMA TimerMoves ==
    ASSUME WriterInv, NEW a \in Actors, NEW where,
           NEW t \in Timers \cup {None}, NEW now \in {"off", "fired", "ticking"},
           pc' = [pc EXCEPT ![t] = now, ![a] = where] \/ pc' = [pc EXCEPT ![a] = where, ![t] = now],
           UNCHANGED <<writing, overlapped, closed, queueDown, startFailed>>,
           timer' \in Timers \cup {None},
           \/ closed
           \/ /\ pc[a] \notin Holding
              /\ where \notin Closing
              /\ where \notin Holding \cup {"write"}
    PROVE  WriterInv'
<1>1. t # Worker /\ Worker \in Actors
  BY StoredKeysAssumption DEF Actors
<1>2. pc' = [b \in Actors |-> pc'[b]]
  BY DEF WriterInv
<1>3. \A b \in Actors : pc'[b] \in {pc[b], where, now} /\ (b # a => pc'[b] \in {pc[b], now})
  BY DEF WriterInv
<1>4. Worker # a => pc'[Worker] = pc[Worker]
  BY <1>1 DEF WriterInv
<1>5. Orderly /\ writing # Empty => pc'[Worker] \in Holding
  BY <1>1, <1>4 DEF WriterInv, Orderly
<1> QED
  BY <1>2, <1>3, <1>5 DEF WriterInv, Orderly, Holding, Closing, OneWriteAtATime, Empty, Kinds

\* The steps of _schedule, for whoever takes them.
LEMMA ScheduleSteps ==
    ASSUME WriterInv, NEW a \in Actors,
           \/ ScheduleTaken(a) \/ ScheduleHeld(a) \/ HeldStartFails(a) \/ ScheduleClosed(a)
           \/ ScheduleSlot(a) \/ Submit(a) \/ SubmitRefused(a) \/ SubmitStartFails(a)
    PROVE  WriterInv'
<1> USE DEF At, Goto, Return
<1>1. pc[a] \notin Holding
  BY DEF ScheduleTaken, ScheduleHeld, HeldStartFails, ScheduleClosed, ScheduleSlot, Submit,
         SubmitRefused, SubmitStartFails, Holding
<1>2. After(a) \notin Closing /\ After(a) \notin Holding \cup {"write"}
  BY DEF After, Closing, Holding
<1>3. timer \in Timers \cup {None} /\ (queueDown => closed)
  BY DEF WriterInv
<1>4. CASE ScheduleTaken(a)
  <2>1. pc' = [pc EXCEPT ![a] = After(a)] /\ UNCHANGED <<writing, overlapped, closed, queueDown, timer, startFailed>>
    BY <1>4 DEF ScheduleTaken, writeVars, slotVars, queueVars
  <2> QED BY <1>1, <1>2, <1>3, <2>1, WriterMoves
<1>5. CASE ScheduleHeld(a)
  <2>1. timer' \in Timers
    BY <1>5 DEF ScheduleHeld
  <2>2. pc' = [pc EXCEPT ![a] = After(a), ![timer'] = "ticking"]
    BY <1>5 DEF ScheduleHeld
  <2>3. UNCHANGED <<writing, overlapped, queueDown, closed, startFailed>>
    BY <1>5 DEF ScheduleHeld, writeVars, queueVars
  <2> QED BY <1>1, <1>2, <2>1, <2>2, <2>3, TimerMoves
<1>6. CASE ScheduleClosed(a)
  <2>1. pc' = [pc EXCEPT ![a] = "write"] /\ UNCHANGED <<writing, overlapped, closed, queueDown, timer, startFailed>>
    BY <1>6 DEF ScheduleClosed, writeVars, slotVars, queueVars
  <2>2. closed
    BY <1>6 DEF ScheduleClosed
  <2> QED BY <1>3, <2>1, <2>2, WriterMoves
<1>7. CASE ScheduleSlot(a)
  <2>1. pc' = [pc EXCEPT ![a] = "submit"] /\ UNCHANGED <<writing, overlapped, closed, queueDown, timer, startFailed>>
    BY <1>7 DEF ScheduleSlot, writeVars
  <2>2. "submit" \notin Closing /\ "submit" \notin Holding \cup {"write"}
    BY DEF Closing, Holding
  <2> QED BY <1>1, <1>3, <2>1, <2>2, WriterMoves
<1>8. CASE Submit(a)
  <2>1. pc' = [pc EXCEPT ![a] = After(a)] /\ UNCHANGED <<writing, overlapped, closed, queueDown, timer, startFailed>>
    BY <1>8 DEF Submit, writeVars
  <2> QED BY <1>1, <1>2, <1>3, <2>1, WriterMoves
<1>9. CASE SubmitRefused(a)
  <2>1. pc' = [pc EXCEPT ![a] = "write"] /\ UNCHANGED <<writing, overlapped, closed, queueDown, timer, startFailed>>
    BY <1>9 DEF SubmitRefused, writeVars
  <2>2. closed
    BY <1>9 DEF SubmitRefused, WriterInv, Closing
  <2> QED BY <1>3, <2>1, <2>2, WriterMoves
<1>10. CASE HeldStartFails(a)
  <2>1. timer' \in Timers
    BY <1>10 DEF HeldStartFails
  <2>2. /\ pc' = [pc EXCEPT ![a] = After(a)] /\ startFailed'
        /\ UNCHANGED <<writing, overlapped, queueDown, closed>>
    BY <1>10 DEF HeldStartFails, writeVars
  <2> QED BY <1>2, <1>3, <2>1, <2>2, WriterMoves
<1>11. CASE SubmitStartFails(a)
  <2>1. /\ pc' = [pc EXCEPT ![a] = "write"] /\ startFailed'
        /\ UNCHANGED <<writing, overlapped, queueDown, closed, timer>>
    BY <1>11 DEF SubmitStartFails, writeVars
  <2>2. "write" \notin Closing
    BY DEF Closing
  <2> QED BY <1>3, <2>1, <2>2, WriterMoves
<1> QED
  BY <1>4, <1>5, <1>6, <1>7, <1>8, <1>9, <1>10, <1>11

\* The steps of _write_now: before close, while threads start, they are the
\* writer thread's.
LEMMA WriteSteps ==
    ASSUME WriterInv, NEW a \in Actors,
           \/ WriteBegin(a) \/ Replace(a) \/ RememberWritten(a) \/ WriteFails(a) \/ Finally(a)
    PROVE  WriterInv'
<1> USE DEF At, Goto, Return
<1>1. pc[a] \in Holding \cup {"write"}
  BY DEF WriteBegin, Replace, RememberWritten, WriteFails, Finally, Holding
<1>2. ~Orderly \/ a = Worker
  BY <1>1 DEF WriterInv
<1>3. UNCHANGED <<timer, queueDown, closed, startFailed>>
  BY DEF WriteBegin, Replace, RememberWritten, WriteFails, Finally, slotVars, queueVars
<1>4. PICK where : where \notin Closing /\ pc' = [pc EXCEPT ![a] = where]
  BY DEF WriteBegin, Replace, RememberWritten, WriteFails, Finally, After, Closing
<1>5. CASE ~Orderly
  <2>1. pc' = [b \in Actors |-> pc'[b]] /\ (~closed => \A b \in Actors : pc'[b] \notin Closing)
    BY <1>4 DEF WriterInv
  <2> QED
    BY <1>3, <1>5, <2>1 DEF WriterInv, Orderly, OneWriteAtATime
<1>6. CASE Orderly
  <2>1. a = Worker
    BY <1>2, <1>6
  <2>2. \A b \in Actors : pc'[b] \in {pc[b], where} /\ (b # Worker => pc'[b] = pc[b])
    BY <1>4, <2>1 DEF WriterInv
  <2>3. pc'[Worker] = where
    BY <1>4, <2>1 DEF WriterInv
  <2>4. (writing' # Empty => pc'[Worker] \in Holding) /\ (overlapped' => overlapped)
    <3>1. CASE WriteBegin(a)
      <4>1. pc[Worker] = "write" /\ writing = Empty
        BY <1>6, <2>1, <3>1 DEF WriteBegin, WriterInv, Holding
      <4>2. CASE pending = Empty
        BY <3>1, <4>1, <4>2 DEF WriteBegin
      <4>3. CASE pending # Empty
        <5>1. pc' = [pc EXCEPT ![a] = "io"] /\ overlapped' = (overlapped \/ writing # Empty)
          BY <3>1, <4>3 DEF WriteBegin
        <5>2. pc'[Worker] = "io"
          BY <5>1, <2>1 DEF WriterInv
        <5> QED
          BY <4>1, <5>1, <5>2 DEF Holding
      <4> QED BY <4>2, <4>3
    <3>2. CASE Replace(a) \/ RememberWritten(a) \/ WriteFails(a)
      <4>1. pc' = [pc EXCEPT ![a] = "remember"] \/ pc' = [pc EXCEPT ![a] = "finally"]
        BY <3>2 DEF Replace, RememberWritten, WriteFails
      <4>2. pc'[Worker] \in Holding
        BY <4>1, <2>1 DEF WriterInv, Holding
      <4> QED
        BY <3>2, <4>2 DEF Replace, RememberWritten, WriteFails, writeVars
    <3>3. CASE Finally(a)
      BY <3>3 DEF Finally
    <3> QED
      BY <3>1, <3>2, <3>3
  <2>5. pc' = [b \in Actors |-> pc'[b]]
    BY <1>4 DEF WriterInv
  <2>6. OneWriteAtATime'
    BY <1>3, <2>4 DEF WriterInv, OneWriteAtATime
  <2> QED
    BY <1>3, <1>4, <1>6, <2>2, <2>4, <2>5, <2>6 DEF WriterInv, Orderly, Empty, Kinds
<1> QED
  BY <1>5, <1>6

\* The steps of the drain hook, of close and of the readers.
LEMMA OtherSteps ==
    ASSUME WriterInv, NEW a \in Actors,
           \/ DrainSlot(a) \/ RememberLoaded(a) \/ Facts(a) \/ ReadEnd(a)
           \/ Shutdown(a) \/ Join(a) \/ Flush(a)
    PROVE  WriterInv'
<1> USE DEF At, Goto
<1>1. timer \in Timers \cup {None} /\ (queueDown => closed)
  BY DEF WriterInv
<1>2. CASE DrainSlot(a)
  <2>1. pc[a] = "heldClosed" => closed
    BY DEF WriterInv, Closing
  <2>2. pc[a] \notin Holding /\ UNCHANGED <<writing, overlapped, closed, queueDown, timer, startFailed>>
    BY <1>2 DEF DrainSlot, writeVars, Holding
  <2>3. PICK where \in {"idle", "submit", "refused"} :
            pc' = [pc EXCEPT ![a] = where] /\ (where = "refused" => pc[a] = "heldClosed")
    BY <1>2 DEF DrainSlot
  <2>4. (closed \/ (where \notin Closing /\ where \notin Holding \cup {"write"}))
    BY <2>1, <2>3 DEF Closing, Holding
  <2> QED BY <1>1, <2>2, <2>3, <2>4, WriterMoves
<1>3. CASE RememberLoaded(a) \/ Facts(a) \/ ReadEnd(a)
  <2>1. pc[a] \notin Holding /\ UNCHANGED <<writing, overlapped, closed, queueDown, timer, startFailed>>
    BY <1>3 DEF RememberLoaded, Facts, ReadEnd, writeVars, slotVars, queueVars, Holding
  <2>2. PICK where \in {"idle", "facts"} : pc' = [pc EXCEPT ![a] = where]
    BY <1>3 DEF RememberLoaded, Facts, ReadEnd
  <2>3. where \notin Closing /\ where \notin Holding \cup {"write"}
    BY <2>2 DEF Closing, Holding
  <2> QED BY <1>1, <2>1, <2>2, <2>3, WriterMoves
<1>4. CASE Shutdown(a) \/ Join(a) \/ Flush(a)
  <2>1. closed
    BY <1>4 DEF Shutdown, Join, Flush, WriterInv, Closing
  <2>2. closed' = closed /\ timer' \in Timers \cup {None}
    BY <1>1, <1>4 DEF Shutdown, Join, Flush, slotVars
  <2>3. pc' = [b \in Actors |-> pc'[b]]
    <3>1. CASE Shutdown(a) \/ Flush(a)
      <4>1. PICK where \in {"join", "idle", "write"} : pc' = [pc EXCEPT ![a] = where]
        BY <3>1 DEF Shutdown, Flush
      <4> QED BY <4>1 DEF WriterInv
    <3>2. CASE Join(a)
      <4>1. PICK now \in Cancelled(timer) : pc' = [now EXCEPT ![a] = "flush"]
        BY <3>2 DEF Join
      <4>2. now = [b \in Actors |-> now[b]]
        BY <4>1 DEF Cancelled, WriterInv
      <4> QED BY <4>1, <4>2
    <3> QED BY <1>4, <3>1, <3>2
  <2> QED BY <2>1, <2>2, <2>3 DEF WriterInv, Orderly, OneWriteAtATime
<1> QED
  BY <1>2, <1>3, <1>4

\* Every step keeps WriterInv.
LEMMA WriterNext == ASSUME WriterInv, [Next]_vars PROVE WriterInv'
<1> USE DEF At, Goto
<1>1. Threads \subseteq Actors /\ Timers \subseteq Actors /\ Worker \in Actors
      /\ timer \in Timers \cup {None} /\ (queueDown => closed)
  BY DEF Actors, WriterInv
<1>2. ASSUME NEW a \in Actors, Step(a) \/ ThreadStep(a) \/ ReaderStep(a) PROVE WriterInv'
  BY <1>2, ScheduleSteps, WriteSteps, OtherSteps DEF Step, ThreadStep, ReaderStep
<1>3. ASSUME NEW a \in Threads, NEW key, NEW kind, Note(a, key, kind)
      PROVE  WriterInv'
  <2>1. pc[a] \notin Holding /\ UNCHANGED <<writing, overlapped, closed, queueDown, timer, startFailed>>
    BY <1>3 DEF Note, writeVars, slotVars, queueVars, Holding
  <2>2. PICK where \in {"idle", "schedule"} : pc' = [pc EXCEPT ![a] = where]
    BY <1>3 DEF Note
  <2>3. where \notin Closing /\ where \notin Holding \cup {"write"}
    BY <2>2 DEF Closing, Holding
  <2> QED BY <1>1, <2>1, <2>2, <2>3, WriterMoves
<1>4. ASSUME NEW a \in Threads, DrainBegin(a) PROVE WriterInv'
  <2>1. pc[a] \notin Holding /\ UNCHANGED <<writing, overlapped, closed, queueDown, startFailed>> /\ timer' = None
    BY <1>4 DEF DrainBegin, writeVars, queueVars, Holding
  <2>2. PICK where \in {"heldClosed", "held"}, now \in {"off", "fired"} :
            /\ pc' = [pc EXCEPT ![timer] = now, ![a] = where]
            /\ where = "heldClosed" => closed
    BY <1>4 DEF DrainBegin, Cancelled
  <2>3. (closed \/ (where \notin Closing /\ where \notin Holding \cup {"write"}))
    BY <2>2 DEF Closing, Holding
  <2> QED BY <1>1, <2>1, <2>2, <2>3, TimerMoves
<1>5. ASSUME NEW a \in Threads, DiskDoc(a) PROVE WriterInv'
  <2>1. pc[a] \notin Holding /\ UNCHANGED <<writing, overlapped, closed, queueDown, timer, startFailed>>
    BY <1>5 DEF DiskDoc, writeVars, slotVars, queueVars, Holding
  <2>2. PICK where \in {"facts", "loaded"} : pc' = [pc EXCEPT ![a] = where]
    BY <1>5 DEF DiskDoc
  <2>3. where \notin Closing /\ where \notin Holding \cup {"write"}
    BY <2>2 DEF Closing, Holding
  <2> QED BY <1>1, <2>1, <2>2, <2>3, WriterMoves
<1>6. ASSUME NEW a \in Threads, CloseBegin(a) PROVE WriterInv'
  <2>1. closed' /\ timer' = timer /\ pc' = [pc EXCEPT ![a] = "shutdown"]
    BY <1>6 DEF CloseBegin
  <2> QED BY <2>1 DEF WriterInv, Orderly, OneWriteAtATime
<1>7. ASSUME NEW a \in Threads, Fork(a) PROVE WriterInv'
  <2>1. /\ pc' = [b \in Actors |-> pc'[b]]
        /\ \A b \in Actors : pc'[b] \in {"idle", "gone", "off"}
    BY <1>7 DEF Fork
  <2>2. UNCHANGED <<overlapped, queueDown, closed, startFailed>> /\ timer' = None /\ writing' = Empty
    BY <1>7 DEF Fork
  <2> QED BY <2>1, <2>2 DEF WriterInv, Orderly, Holding, Closing, OneWriteAtATime, Empty, Kinds
<1>8. ASSUME NEW t \in Timers, ReleaseHeld(t) PROVE WriterInv'
  <2>1. pc[t] \notin Holding /\ UNCHANGED <<writing, overlapped, closed, queueDown, startFailed>> /\ timer' = None
    BY <1>8 DEF ReleaseHeld, writeVars, queueVars, Holding
  <2>2. PICK where \in {"off", "schedule"} : pc' = [pc EXCEPT ![t] = where]
    BY <1>8 DEF ReleaseHeld
  <2>3. where \notin Closing /\ where \notin Holding \cup {"write"}
    BY <2>2 DEF Closing, Holding
  <2> QED BY <1>1, <2>1, <2>2, <2>3, WriterMoves
<1>9. CASE WorkerBegin \/ WorkerSlot
  <2>1. pc[Worker] \notin Holding /\ UNCHANGED <<writing, overlapped, closed, queueDown, timer, startFailed>>
    BY <1>9 DEF WorkerBegin, WorkerSlot, writeVars, queueVars, Holding
  <2>2. PICK where \in {"write", "hold", "off"} : pc' = [pc EXCEPT ![Worker] = where]
    BY <1>9 DEF WorkerBegin, WorkerSlot
  <2>3. where \notin Closing
    BY <2>2 DEF Closing
  <2> QED BY <1>1, <2>1, <2>2, <2>3, WriterMoves
<1>10. CASE IntervalPasses \/ UNCHANGED vars
  BY <1>10 DEF IntervalPasses, vars, writeVars, slotVars, queueVars, WriterInv, Orderly, OneWriteAtATime, Empty, Kinds
<1> QED
  BY <1>1, <1>2, <1>3, <1>4, <1>5, <1>6, <1>7, <1>8, <1>9, <1>10
     DEF Next, Run, TimerStep, WorkerStep

\* Until close or until a thread cannot be started, however many threads note
\* keys, read, drain and fork, however many timers are alive and whenever
\* writes fail, no two calls of _write_now have the record's changes in hand
\* at once.
THEOREM WritesOneByOne == Spec => []OneWriteAtATime
<1>1. WriterInv => OneWriteAtATime
  BY DEF WriterInv
<1> QED
  BY <1>1, WriterInit, WriterNext, PTL DEF Spec
=============================================================================
