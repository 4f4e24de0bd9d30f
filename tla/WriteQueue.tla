------------------------------ MODULE WriteQueue ------------------------------
(***************************************************************************)
(* The background write queue of one backend (backends/_writes.py):        *)
(* PendingWrites, which remembers the last write of every key, over        *)
(* _DaemonWriterPool, a FIFO queue and one daemon thread that retires when *)
(* it is idle and is started again by the next submission.                 *)
(*                                                                         *)
(* A write is a number, given in the order the pool's queue takes them;    *)
(* state[w] is the state of its future.  A step is what one thread does    *)
(* between two points where another may run: a block under _lock, a wait   *)
(* on a future, a call of the pool.  The write itself (fn) is abstracted   *)
(* to its effect: disk[k] is the write whose value key k holds.            *)
(***************************************************************************)
EXTENDS Integers, Sequences, FiniteSetsExt

CONSTANTS
    Callers,            \* threads that use the backend
    Keys,               \* cache keys
    SizedWrites,        \* are the writes sized (submit_sized), or plain (submit)?
    SizeOf,             \* SizeOf[k]: bytes of a copy written under k
    MaxQueuedBytes,     \* MAX_QUEUED_BYTES
    MaxWrites,          \* bound: submissions in a behaviour
    Operations,         \* which of the callers' operations a run exercises
    ThreadStartMayFail, \* may Thread.start raise ("can't start new thread")?
    ChildWaitMayExpire  \* may CHILD_WAIT_S pass before a fork's wait is over?

ASSUME ConstantsAssumption ==
    /\ Keys # {}
    /\ SizedWrites \in BOOLEAN
    /\ SizeOf \in [Keys -> Nat]
    /\ MaxQueuedBytes \in Nat
    /\ MaxWrites \in Nat \ {0}
    /\ Operations \subseteq {"set", "get", "delete", "clear", "shutdown", "fork"}
    /\ ThreadStartMayFail \in BOOLEAN
    /\ ChildWaitMayExpire \in BOOLEAN

NoWrite == 0
Stop == -1              \* the shutdown sentinel (None) in the pool's queue
Writes == 1 .. MaxWrites
AnyKey == CHOOSE k \in Keys : TRUE

VARIABLES
    queue,      \* _DaemonWriterPool._queue
    worker,     \* where the writer thread is; "none" when there is no thread
    current,    \* the write it is running
    poolDown,   \* _DaemonWriterPool._shutdown
    down,       \* PendingWrites._shutdown
    inChild,    \* in_multiprocessing_child()
    pending,    \* PendingWrites._pending
    sized,      \* the copies in PendingWrites._sizes, in registration order
    last,       \* the last write submitted
    state,      \* future of a write
    keyOf,      \* key of a write
    callbacks,  \* done-callbacks registered on a future
    disk,       \* what the directory holds under each key
    pc, arg,    \* where each caller is, and the key of its operation
    future,     \* the future it holds or is blocked on
    snapshot,   \* the futures its wait_all is blocked on
    mark        \* the last write submitted when its operation began

poolVars == <<queue, worker, current, poolDown>>
procVars == <<down, inChild>>
futVars == <<last, state, keyOf, callbacks>>
callVars == <<pc, arg, future, snapshot, mark>>
vars == <<poolVars, procVars, pending, sized, futVars, disk, callVars>>

Done(w) == state[w] \in {"ok", "failed"}
Unfinished(w) == state[w] \in {"queued", "running"}

Init ==
    /\ queue = <<>>
    /\ worker = "none"
    /\ current = NoWrite
    /\ poolDown = FALSE
    /\ down = FALSE
    /\ inChild = FALSE
    /\ pending = [k \in Keys |-> NoWrite]
    /\ sized = <<>>
    /\ last = 0
    /\ state = [w \in Writes |-> "unborn"]
    /\ keyOf = [w \in Writes |-> AnyKey]
    /\ callbacks = [w \in Writes |-> {}]
    /\ disk = [k \in Keys |-> NoWrite]
    /\ pc = [c \in Callers |-> "idle"]
    /\ arg = [c \in Callers |-> AnyKey]
    /\ future = [c \in Callers |-> NoWrite]
    /\ snapshot = [c \in Callers |-> {}]
    /\ mark = [c \in Callers |-> 0]

-----------------------------------------------------------------------------
(* Moves of a caller.                                                      *)

At(c, where) == pc[c] = where

Goto(c, where) ==
    /\ pc' = [pc EXCEPT ![c] = where]
    /\ UNCHANGED <<arg, future, snapshot, mark>>

Hold(c, where, w) ==
    /\ pc' = [pc EXCEPT ![c] = where]
    /\ future' = [future EXCEPT ![c] = w]
    /\ UNCHANGED <<arg, snapshot, mark>>

\* The operation returns: its locals are gone.
Finish(c) ==
    /\ pc' = [pc EXCEPT ![c] = "idle"]
    /\ arg' = [arg EXCEPT ![c] = AnyKey]
    /\ future' = [future EXCEPT ![c] = NoWrite]
    /\ snapshot' = [snapshot EXCEPT ![c] = {}]
    /\ mark' = [mark EXCEPT ![c] = 0]

\* An operation on key k begins, holding future w.
Begin(c, where, k, w) ==
    /\ pc' = [pc EXCEPT ![c] = where]
    /\ arg' = [arg EXCEPT ![c] = k]
    /\ future' = [future EXCEPT ![c] = w]
    /\ mark' = [mark EXCEPT ![c] = last]
    /\ UNCHANGED snapshot

\* The future a caller waits on, if any, has finished (future.result, _settle).
Settled(c) == future[c] # NoWrite => Done(future[c])

\* _pending without the future w.
Without(w) == [k \in Keys |-> IF pending[k] = w THEN NoWrite ELSE pending[k]]

\* Mutant: whatever write the key has pending is forgotten.
ForgetWhatever(w) ==
    pending' = IF state[w] = "ok" THEN [pending EXCEPT ![keyOf[w]] = NoWrite] ELSE pending

\* Mutant: a failed write is forgotten too.
ForgetFailed(w) == pending' = Without(w)

\* _forget_if_succeeded: only the future itself, and only if it succeeded.
ForgetIfSucceeded(w) == pending' = IF state[w] = "ok" THEN Without(w) ELSE pending

\* _forget_size: a future is in _sizes at most once.
ForgetSize(w) ==
    IF \E i \in 1 .. Len(sized) : sized[i] = w
      THEN \E i \in 1 .. Len(sized) :
             /\ sized[i] = w
             /\ sized' = SubSeq(sized, 1, i - 1) \o SubSeq(sized, i + 1, Len(sized))
      ELSE UNCHANGED sized

-----------------------------------------------------------------------------
(* submit: wait for the previous write of the key, hand the write to the   *)
(* pool, register the callback.  submit_sized also makes room for the copy *)
(* first, and accounts for it after.                                       *)

Submitting(c) == pc[c] \in {"room", "settle", "previous", "submit"}

SetBegin(c, k) ==
    /\ "set" \in Operations
    /\ At(c, "idle")
    /\ last + Cardinality({d \in Callers : Submitting(d)}) < MaxWrites
    /\ Begin(c, IF SizedWrites THEN "room" ELSE "previous", k, NoWrite)
    /\ UNCHANGED <<poolVars, procVars, pending, sized, futVars, disk>>

\* The unfinished copies (_unfinished_sized).
Live == {w \in {sized[i] : i \in 1 .. Len(sized)} : ~Done(w)}

\* The i-th copy is the oldest of them.
Oldest(i) == ~Done(sized[i]) /\ \A j \in 1 .. (i - 1) : Done(sized[j])

Bytes(ws) == MapThenSumSet(LAMBDA w : SizeOf[keyOf[w]], ws)

RoomFor(k) == Live = {} \/ Bytes(Live) + SizeOf[k] <= MaxQueuedBytes

MakeRoom(c) ==
    /\ At(c, "room")
    /\ IF RoomFor(arg[c])
         THEN Goto(c, "previous")
         ELSE \E i \in 1 .. Len(sized) : Oldest(i) /\ Hold(c, "settle", sized[i])
    /\ UNCHANGED <<poolVars, procVars, pending, sized, futVars, disk>>

RoomSettled(c) ==
    /\ At(c, "settle")
    /\ Settled(c)
    /\ ForgetSize(future[c])
    /\ Goto(c, "room")
    /\ UNCHANGED <<poolVars, procVars, pending, futVars, disk>>

\* submit reads the previous future under the lock, then waits outside it.
SubmitPrevious(c) ==
    /\ At(c, "previous")
    /\ Hold(c, "submit", pending[arg[c]])
    /\ UNCHANGED <<poolVars, procVars, pending, sized, futVars, disk>>

\* A new future for key k.
NewFuture(k, st) ==
    /\ last < MaxWrites
    /\ last' = last + 1
    /\ state' = [state EXCEPT ![last + 1] = st]
    /\ keyOf' = [keyOf EXCEPT ![last + 1] = k]
    /\ UNCHANGED callbacks

\* Mutant: the pool's queue is last in, first out.
SubmitInFront(c) ==
    /\ At(c, "submit")
    /\ Settled(c) /\ ~inChild /\ ~down
    /\ NewFuture(arg[c], "queued")
    /\ queue' = <<last + 1>> \o queue
    /\ worker' = IF worker = "none" THEN "get" ELSE worker
    /\ pending' = [pending EXCEPT ![arg[c]] = last + 1]
    /\ Hold(c, "register", last + 1)
    /\ UNCHANGED <<current, poolDown, procVars, sized, disk>>

\* The pool's submit, under both locks: put, start a thread if there is none.
SubmitEnqueue(c) ==
    /\ At(c, "submit")
    /\ Settled(c) /\ ~inChild /\ ~down
    /\ NewFuture(arg[c], "queued")
    /\ queue' = Append(queue, last + 1)
    /\ worker' = IF worker = "none" THEN "get" ELSE worker
    /\ pending' = [pending EXCEPT ![arg[c]] = last + 1]
    /\ Hold(c, "register", last + 1)
    /\ UNCHANGED <<current, poolDown, procVars, sized, disk>>

\* Thread.start raises: the item is in the queue, the caller gets the error
\* and _pending never hears of the write.
SubmitStartFails(c) ==
    /\ ThreadStartMayFail
    /\ At(c, "submit")
    /\ Settled(c) /\ ~inChild /\ ~down
    /\ worker = "none"
    /\ NewFuture(arg[c], "queued")
    /\ queue' = Append(queue, last + 1)
    /\ Finish(c)
    /\ UNCHANGED <<worker, current, poolDown, procVars, pending, sized, disk>>

\* RuntimeError: the queue has been shut down.
SubmitRefused(c) ==
    /\ At(c, "submit")
    /\ Settled(c) /\ down
    /\ Finish(c)
    /\ UNCHANGED <<poolVars, procVars, pending, sized, futVars, disk>>

\* add_done_callback runs the callback at once on a finished future.
RegisterForget(c) ==
    /\ At(c, "register")
    /\ IF Settled(c)
         THEN ForgetIfSucceeded(future[c]) /\ UNCHANGED callbacks
         ELSE /\ callbacks' = [callbacks EXCEPT ![future[c]] = @ \cup {"forget"}]
              /\ UNCHANGED pending
    /\ IF SizedWrites THEN Goto(c, "size") ELSE Finish(c)
    /\ UNCHANGED <<poolVars, procVars, sized, last, state, keyOf, disk>>

SizeCheck(c) ==
    /\ At(c, "size")
    /\ IF Settled(c) THEN Finish(c) ELSE Goto(c, "sizeAdd")
    /\ UNCHANGED <<poolVars, procVars, pending, sized, futVars, disk>>

SizeAdd(c) ==
    /\ At(c, "sizeAdd")
    /\ sized' = Append(sized, future[c])
    /\ Goto(c, "sizeCallback")
    /\ UNCHANGED <<poolVars, procVars, pending, futVars, disk>>

SizeCallback(c) ==
    /\ At(c, "sizeCallback")
    /\ IF Settled(c)
         THEN ForgetSize(future[c]) /\ UNCHANGED callbacks
         ELSE /\ callbacks' = [callbacks EXCEPT ![future[c]] = @ \cup {"size"}]
              /\ UNCHANGED sized
    /\ Finish(c)
    /\ UNCHANGED <<poolVars, procVars, pending, last, state, keyOf, disk>>

\* In a multiprocessing child the caller's own thread does the write.
InlineBegin(c) ==
    /\ At(c, "submit")
    /\ Settled(c) /\ inChild /\ ~down
    /\ NewFuture(arg[c], "running")
    /\ Hold(c, "inline", last + 1)
    /\ UNCHANGED <<poolVars, procVars, pending, sized, disk>>

Result(w, ok) == state' = [state EXCEPT ![w] = IF ok THEN "ok" ELSE "failed"]

InlineEnd(c, ok) ==
    /\ At(c, "inline")
    /\ Result(future[c], ok)
    /\ disk' = IF ok THEN [disk EXCEPT ![keyOf[future[c]]] = future[c]] ELSE disk
    /\ pending' = IF ok THEN pending ELSE [pending EXCEPT ![arg[c]] = future[c]]
    /\ Finish(c)
    /\ UNCHANGED <<poolVars, procVars, sized, last, keyOf, callbacks>>

-----------------------------------------------------------------------------
(* get: wait(key), then read the directory.                                *)

WaitBegin(c, k) ==
    /\ "get" \in Operations
    /\ At(c, "idle")
    /\ Begin(c, IF pending[k] = NoWrite THEN "read" ELSE "wait", k, pending[k])
    /\ UNCHANGED <<poolVars, procVars, pending, sized, futVars, disk>>

\* Mutant: a failed write takes a later write of the key with it.
WaitEndDropsLater(c) ==
    /\ At(c, "wait")
    /\ Settled(c)
    /\ pending' = IF state[future[c]] = "failed" THEN [pending EXCEPT ![arg[c]] = NoWrite]
                                                 ELSE pending
    /\ Goto(c, "read")
    /\ UNCHANGED <<poolVars, procVars, sized, futVars, disk>>

\* A failed write is dropped, if _pending still holds that one.
WaitEnd(c) ==
    /\ At(c, "wait")
    /\ Settled(c)
    /\ pending' = IF state[future[c]] = "failed" THEN Without(future[c]) ELSE pending
    /\ Goto(c, "read")
    /\ UNCHANGED <<poolVars, procVars, sized, futVars, disk>>

Read(c) ==
    /\ At(c, "read")
    /\ Finish(c)
    /\ UNCHANGED <<poolVars, procVars, pending, sized, futVars, disk>>

-----------------------------------------------------------------------------
(* delete: drain(key), then remove the entry.                              *)

DrainBegin(c, k) ==
    /\ "delete" \in Operations
    /\ At(c, "idle")
    /\ pending' = [pending EXCEPT ![k] = NoWrite]
    /\ Begin(c, "drain", k, pending[k])
    /\ UNCHANGED <<poolVars, procVars, sized, futVars, disk>>

\* Mutant: drain forgets the write without waiting for it.
DrainNoWait(c) ==
    /\ At(c, "drain")
    /\ Goto(c, "remove")
    /\ UNCHANGED <<poolVars, procVars, pending, sized, futVars, disk>>

DrainEnd(c) ==
    /\ At(c, "drain")
    /\ Settled(c)
    /\ Goto(c, "remove")
    /\ UNCHANGED <<poolVars, procVars, pending, sized, futVars, disk>>

Remove(c) ==
    /\ At(c, "remove")
    /\ disk' = [disk EXCEPT ![arg[c]] = NoWrite]
    /\ Finish(c)
    /\ UNCHANGED <<poolVars, procVars, pending, sized, futVars>>

-----------------------------------------------------------------------------
(* clear: wait_all, then remove every entry.                               *)

\* Mutant: wait_all waits only for the write that is running.
RunningFutures == {w \in {pending[k] : k \in Keys} \ {NoWrite} : state[w] = "running"}

\* wait_all waits for the futures _pending held when it began.
PendingFutures == {pending[k] : k \in Keys} \ {NoWrite}

WaitAllBegin(c, where, futures) ==
    /\ At(c, "idle")
    /\ pc' = [pc EXCEPT ![c] = where]
    /\ snapshot' = [snapshot EXCEPT ![c] = futures]
    /\ mark' = [mark EXCEPT ![c] = last]
    /\ UNCHANGED <<poolVars, procVars, pending, sized, futVars, disk, arg, future>>

\* Mutant: wait_all stops at a write that failed.
StopAtFailure(c) == \/ \A w \in snapshot[c] : Done(w)
                    \/ \E w \in snapshot[c] : state[w] = "failed"

AllSettled(c) == \A w \in snapshot[c] : Done(w)

ClearBegin(c) == "clear" \in Operations /\ WaitAllBegin(c, "waitAll", PendingFutures)

WaitAllEnd(c) ==
    /\ At(c, "waitAll")
    /\ AllSettled(c)
    /\ Goto(c, "clear")
    /\ UNCHANGED <<poolVars, procVars, pending, sized, futVars, disk>>

Clear(c) ==
    /\ At(c, "clear")
    /\ disk' = [k \in Keys |-> NoWrite]
    /\ Finish(c)
    /\ UNCHANGED <<poolVars, procVars, pending, sized, futVars>>

-----------------------------------------------------------------------------
(* shutdown, and fork.                                                     *)

ShutdownBegin(c) ==
    /\ "shutdown" \in Operations
    /\ At(c, "idle")
    /\ ~down
    /\ down' = TRUE
    /\ Goto(c, "stopPool")
    /\ UNCHANGED <<poolVars, inChild, pending, sized, futVars, disk>>

\* The pool's shutdown: flag and threads under its lock, then the sentinel.
StopPool(c) ==
    /\ At(c, "stopPool")
    /\ poolDown' = TRUE
    /\ IF worker = "none" THEN Finish(c) ELSE Goto(c, "sentinel")
    /\ UNCHANGED <<queue, worker, current, procVars, pending, sized, futVars, disk>>

PutSentinel(c) ==
    /\ At(c, "sentinel")
    /\ queue' = Append(queue, Stop)
    /\ Goto(c, "join")
    /\ UNCHANGED <<worker, current, poolDown, procVars, pending, sized, futVars, disk>>

\* Thread.join returns when the thread has ended, or at the deadline.
Join(c) ==
    /\ At(c, "join")
    /\ Finish(c)
    /\ UNCHANGED <<poolVars, procVars, pending, sized, futVars, disk>>

\* _finish_before_child: a process about to start another waits first, for
\* the queues that are not shut down.
ForkBegin(c) ==
    /\ "fork" \in Operations
    /\ WaitAllBegin(c, "fork", IF down THEN {} ELSE PendingFutures)

\* What a fork leaves of the futures: an unfinished write is the parent's,
\* and done if the writer thread was past running it.
Inherited ==
    [w \in Writes |-> IF ~Unfinished(w) THEN state[w]
                      ELSE IF worker \in {"landed", "raised"} /\ w = current THEN "parentDone"
                      ELSE "parents"]

\* Mutant: the child keeps the parent's futures.
ForkKeepsPending(c, mpChild) ==
    /\ At(c, "fork")
    /\ AllSettled(c) \/ ChildWaitMayExpire
    /\ pc' = [d \in Callers |-> IF d = c THEN "idle" ELSE "gone"]
    /\ queue' = <<>>
    /\ worker' = "none"
    /\ current' = NoWrite
    /\ poolDown' = FALSE
    /\ sized' = <<>>
    /\ inChild' = (inChild \/ mpChild)
    /\ state' = Inherited
    /\ callbacks' = [w \in Writes |-> {}]
    /\ arg' = [d \in Callers |-> AnyKey]
    /\ future' = [d \in Callers |-> NoWrite]
    /\ snapshot' = [d \in Callers |-> {}]
    /\ mark' = [d \in Callers |-> 0]
    /\ UNCHANGED <<down, pending, last, keyOf, disk>>

\* The behaviour goes on in the child: only the forking thread is left, and
\* _after_fork_in_child starts the queue afresh.  Unfinished writes are the
\* parent's to finish; no thread of the child will finish their futures.
Fork(c, mpChild) ==
    /\ At(c, "fork")
    /\ AllSettled(c) \/ ChildWaitMayExpire
    /\ pc' = [d \in Callers |-> IF d = c THEN "idle" ELSE "gone"]
    /\ queue' = <<>>
    /\ worker' = "none"
    /\ current' = NoWrite
    /\ poolDown' = FALSE
    /\ pending' = [k \in Keys |-> NoWrite]
    /\ sized' = <<>>
    /\ inChild' = (inChild \/ mpChild)
    /\ state' = Inherited
    /\ callbacks' = [w \in Writes |-> {}]
    /\ arg' = [d \in Callers |-> AnyKey]
    /\ future' = [d \in Callers |-> NoWrite]
    /\ snapshot' = [d \in Callers |-> {}]
    /\ mark' = [d \in Callers |-> 0]
    /\ UNCHANGED <<down, last, keyOf, disk>>

\* A write of the parent's lands, or fails, while the child runs.
ParentWrite(w, ok) ==
    /\ state[w] = "parents"
    /\ state' = [state EXCEPT ![w] = "parentDone"]
    /\ disk' = IF ok THEN [disk EXCEPT ![keyOf[w]] = w] ELSE disk
    /\ UNCHANGED <<poolVars, procVars, pending, sized, last, keyOf, callbacks, callVars>>

-----------------------------------------------------------------------------
(* The writer thread (_work and _run_task).                                *)

\* Mutant: the sentinel is taken for a write.
WorkerGetAny ==
    /\ worker = "get"
    /\ queue # <<>>
    /\ queue' = Tail(queue)
    /\ worker' = "run"
    /\ current' = Head(queue)
    /\ state' = [state EXCEPT ![Head(queue)] = "running"]
    /\ UNCHANGED <<poolDown, procVars, pending, sized, last, keyOf, callbacks, disk, callVars>>

\* SimpleQueue.get; the sentinel ends the thread.
WorkerGet ==
    /\ worker = "get"
    /\ queue # <<>>
    /\ queue' = Tail(queue)
    /\ IF Head(queue) = Stop
         THEN worker' = "none" /\ UNCHANGED <<current, state>>
         ELSE /\ worker' = "run"
              /\ current' = Head(queue)
              /\ state' = [state EXCEPT ![Head(queue)] = "running"]
    /\ UNCHANGED <<poolDown, procVars, pending, sized, last, keyOf, callbacks, disk, callVars>>

\* Nothing came for WRITER_IDLE_S: queue.Empty, the lock not taken yet.
WorkerTimeout ==
    /\ worker = "get"
    /\ queue = <<>>
    /\ worker' = "empty"
    /\ UNCHANGED <<queue, current, poolDown, procVars, pending, sized, futVars, disk, callVars>>

\* Mutant: retire without looking at the queue again.
WorkerRetireBlind ==
    /\ worker = "empty"
    /\ worker' = "none"
    /\ UNCHANGED <<queue, current, poolDown, procVars, pending, sized, futVars, disk, callVars>>

\* Under the lock: retire only if the queue is still empty.
WorkerRetire ==
    /\ worker = "empty"
    /\ worker' = IF queue = <<>> THEN "none" ELSE "get"
    /\ UNCHANGED <<queue, current, poolDown, procVars, pending, sized, futVars, disk, callVars>>

\* The write runs: it lands whole, or it fails and changes nothing.
WorkerRun(ok) ==
    /\ worker = "run"
    /\ worker' = IF ok THEN "landed" ELSE "raised"
    /\ disk' = IF ok THEN [disk EXCEPT ![keyOf[current]] = current] ELSE disk
    /\ UNCHANGED <<queue, current, poolDown, procVars, pending, sized, futVars, callVars>>

\* set_result or set_exception: waiters may go on before the callbacks run.
WorkerResult ==
    /\ worker \in {"landed", "raised"}
    /\ Result(current, worker = "landed")
    /\ worker' = "callbacks"
    /\ UNCHANGED <<queue, current, poolDown, procVars, pending, sized, last, keyOf, callbacks,
                   disk, callVars>>

\* The callbacks in the order they were registered: forget, then size.
WorkerForget ==
    /\ worker = "callbacks"
    /\ worker' = "sizes"
    /\ IF "forget" \in callbacks[current] THEN ForgetIfSucceeded(current)
                                          ELSE UNCHANGED pending
    /\ UNCHANGED <<queue, current, poolDown, procVars, sized, futVars, disk, callVars>>

WorkerForgetSize ==
    /\ worker = "sizes"
    /\ worker' = "get"
    /\ current' = NoWrite
    /\ IF "size" \in callbacks[current] THEN ForgetSize(current) ELSE UNCHANGED sized
    /\ callbacks' = [callbacks EXCEPT ![current] = {}]
    /\ UNCHANGED <<queue, poolDown, procVars, pending, last, state, keyOf, disk, callVars>>

Worker ==
    \/ WorkerGet \/ WorkerTimeout \/ WorkerRetire
    \/ \E ok \in BOOLEAN : WorkerRun(ok)
    \/ WorkerResult \/ WorkerForget \/ WorkerForgetSize

\* What a caller does once its operation has begun.
Continue(c) ==
    \/ MakeRoom(c) \/ RoomSettled(c) \/ SubmitPrevious(c)
    \/ SubmitEnqueue(c) \/ SubmitStartFails(c) \/ SubmitRefused(c)
    \/ RegisterForget(c) \/ SizeCheck(c) \/ SizeAdd(c) \/ SizeCallback(c)
    \/ InlineBegin(c) \/ \E ok \in BOOLEAN : InlineEnd(c, ok)
    \/ WaitEnd(c) \/ Read(c) \/ DrainEnd(c) \/ Remove(c)
    \/ WaitAllEnd(c) \/ Clear(c)
    \/ \E mpChild \in BOOLEAN : Fork(c, mpChild)
    \/ StopPool(c) \/ PutSentinel(c) \/ Join(c)

Next ==
    \/ Worker
    \/ \E c \in Callers :
         \/ \E k \in Keys : SetBegin(c, k) \/ WaitBegin(c, k) \/ DrainBegin(c, k)
         \/ ClearBegin(c) \/ ShutdownBegin(c) \/ ForkBegin(c)
         \/ Continue(c)
    \/ \E w \in Writes, ok \in BOOLEAN : ParentWrite(w, ok)

Spec == Init /\ [][Next]_vars

\* Every thread that can run does: the writer thread, and a caller inside an
\* operation.  A write that never returns (a stalled mount) is ruled out.
FairSpec == Spec /\ WF_vars(Worker) /\ \A c \in Callers : WF_vars(Continue(c))

-----------------------------------------------------------------------------
(* Properties.                                                             *)

Where == {"idle", "room", "settle", "previous", "submit", "register", "size", "sizeAdd",
          "sizeCallback", "inline", "wait", "read", "drain", "remove", "waitAll", "clear",
          "stopPool", "sentinel", "join", "fork", "gone"}

\* The queue's state has the shape the code gives it.
TypeOK ==
    /\ queue \in Seq(Writes \cup {Stop})
    /\ worker \in {"none", "get", "empty", "run", "landed", "raised", "callbacks", "sizes"}
    /\ current \in Writes \cup {NoWrite}
    /\ poolDown \in BOOLEAN /\ down \in BOOLEAN /\ inChild \in BOOLEAN
    /\ pending \in [Keys -> Writes \cup {NoWrite}]
    /\ sized \in Seq(Writes)
    /\ last \in 0 .. MaxWrites
    /\ state \in [Writes -> {"unborn", "queued", "running", "ok", "failed",
                             "parents", "parentDone"}]
    /\ keyOf \in [Writes -> Keys]
    /\ callbacks \in [Writes -> SUBSET {"forget", "size"}]
    /\ disk \in [Keys -> Writes \cup {NoWrite}]
    /\ pc \in [Callers -> Where]
    /\ arg \in [Callers -> Keys]
    /\ future \in [Callers -> Writes \cup {NoWrite}]
    /\ snapshot \in [Callers -> SUBSET Writes]
    /\ mark \in [Callers -> 0 .. MaxWrites]

\* Some caller's delete took write w, or a later one of the key, out of
\* _pending and still waits for it.
Draining(w) ==
    \E d \in Callers : /\ At(d, "drain")
                       /\ arg[d] = keyOf[w]
                       /\ future[d] >= w

Inline(w) == \E d \in Callers : At(d, "inline") /\ future[d] = w

\* _pending never loses sight of a write that has not finished: it holds that
\* write or a later one of the key, or a delete took it out to wait for it.
\* This is what lets wait(key) stand for every earlier write of the key, and
\* why _forget_if_succeeded compares futures before it deletes.
UnfinishedIsPending ==
    \A w \in Writes :
        Unfinished(w) /\ ~Inline(w) => pending[keyOf[w]] >= w \/ Draining(w)

\* The writes of the caller's key submitted before its operation began.
Before(c) == {w \in Writes : w <= mark[c] /\ keyOf[w] = arg[c]}

\* A get reads the directory only after every write of the key submitted
\* before the get has finished, or while a delete of the key is under way.
ReadSeesWrites ==
    \A c \in Callers : At(c, "read") =>
        \A w \in Before(c) : Unfinished(w) /\ ~Inline(w) => Draining(w)

\* A delete removes the entry only once no earlier write of the key is left
\* to land, unless another delete of the key still waits for that write (and
\* removes the entry again after it).
NoWriteAfterDelete ==
    \A c \in Callers : At(c, "remove") =>
        \A w \in Before(c) : Unfinished(w) /\ ~Inline(w) => Draining(w)

\* A clear removes the entries only once every write submitted before it is
\* finished, or is being waited for by a delete of its key.
NoWriteAfterClear ==
    \A c \in Callers : At(c, "clear") =>
        \A w \in 1 .. mark[c] : Unfinished(w) /\ ~Inline(w) => Draining(w)

\* Writes of one key land in the order they were submitted: the directory
\* never goes back to an older write ("set k=a; set k=b" ends with b), unless
\* the older one is a write a child started without waiting for.
InOrder ==
    [][\A k \in Keys : \/ disk'[k] >= disk[k]
                       \/ disk'[k] = NoWrite
                       \/ state[disk'[k]] = "parents"]_disk

\* The future of a failed write stays in _pending until a wait or a delete
\* of the key takes it, or a later write of the key replaces it.
FailureKept ==
    [][\A k \in Keys :
         LET w == pending[k] IN
         (w # NoWrite /\ state[w] = "failed" /\ pending'[k] # w) =>
            \/ pending'[k] > w
            \/ \E c \in Callers : At(c, "wait") /\ future[c] = w /\ pc'[c] = "read"
            \/ \E c \in Callers : At(c, "idle") /\ pc'[c] = "drain" /\ arg'[c] = k
            \/ \E c \in Callers : At(c, "fork") /\ pc'[c] = "idle"]_pending

\* A process that starts another has first finished the writes it had queued,
\* as long as its queue was not shut down with writes left in it.
ForkAfterWrites ==
    [][\A c \in Callers : At(c, "fork") /\ pc'[c] = "idle" /\ ~down =>
         \A w \in 1 .. mark[c] : Unfinished(w) => Draining(w)]_pc

\* No write is stranded in the queue: a submission that finds the writer
\* thread retiring is still picked up.
QueuedWritesRun == \A w \in Writes : state[w] = "queued" ~> state[w] # "queued"

\* No caller is blocked for ever: not on a write behind its own, not on a
\* future a fork left without a thread.
CallersProceed == \A c \in Callers : pc[c] # "idle" ~> pc[c] \in {"idle", "gone"}
=============================================================================
