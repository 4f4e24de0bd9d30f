----------------------------- MODULE StoredKeys -----------------------------
(***************************************************************************)
(* StoredKeyRecord: the write-behind record of the keys one function has   *)
(* stored.  Notes gather in _pending; one writer task, a timer that holds  *)
(* a write back for WRITE_INTERVAL, the drain hook and close see to it     *)
(* that they reach the file.  One record (path); the ledgers of states and *)
(* the warnings shown are left out.                                        *)
(***************************************************************************)
EXTENDS Integers, Sequences, FiniteSets, SequencesExt

CONSTANTS
    Threads,        \* threads of the program
    Timers,         \* threading.Timer threads that may live at once
    Worker,         \* the writer thread of the record's PendingWrites
    None,           \* no timer, no view, nobody
    Keys,
    Notable,        \* what may be noted: pairs of a key and a kind
    KeysMax,        \* KEYS_MAX
    MaxNotes,       \* bound on the notes taken
    Operations,     \* what each thread does, of "note", "read", "drain", "close", "fork"
    EarlierRun,     \* an earlier process left a record (of keys not noted here)
    MaxFailures     \* bound on the rewrites of the file that raise and the
                    \* threads that cannot be started ("can't start new thread")

ASSUME StoredKeysAssumption ==
    /\ Worker \notin Threads \cup Timers /\ Threads \cap Timers = {}
    /\ None \notin Threads \cup Timers \cup {Worker}
    /\ Notable \subseteq Keys \X {"keys", "ram_only"}
    /\ KeysMax \in Nat \ {0} /\ MaxNotes \in Nat
    /\ EarlierRun \in BOOLEAN /\ MaxFailures \in Nat

Actors == Threads \cup Timers \cup {Worker}
Notes == 1 .. MaxNotes

VARIABLES
    notes,      \* the notes taken so far: key and kind
    pending,    \* _pending
    writing,    \* _writing
    scheduled,  \* path in _scheduled
    timer,      \* _timers
    recent,     \* the last write ended less than WRITE_INTERVAL ago
    queued,     \* writer tasks waiting in the pool's queue for its thread
    stranded,   \* writer tasks left in the pool's queue, which has no thread
    ahead,      \* tasks still to begin before the one an actor's submit waits
                \* for: 0 when that one has begun, -1 when it is through
    startFailed, \* a thread could not be started
    queueDown,  \* the queue refuses submissions
    closed,     \* _closed
    ioLock,     \* holder of _io_lock
    file,       \* the record on disk, and how often it was replaced
    memo,       \* _memo: a record and the stamp it was read with
    view,       \* _views: the view built on the memo's record, or None
    fresh,      \* actors whose disk_doc is the memo's record
    pc, mine, seen,
    slotGiven,  \* the running task has given up its slot
    failures,   \* failures so far
    landed, lost, \* notes a rewrite took to the file, or that failed with one
    overlapped    \* two writes of the record were under way at once

recVars == <<notes, pending, view>>
writeVars == <<writing, overlapped>>
queueVars == <<queued, stranded, ahead, startFailed>>
slotVars == <<scheduled, timer, recent, queueVars, queueDown, closed, slotGiven>>
diskVars == <<ioLock, file, memo, fresh, seen, landed, lost>>
vars == <<recVars, writeVars, slotVars, diskVars, pc, mine, failures>>

-----------------------------------------------------------------------------
(* Records and changes: per kind the notes, one per key, newest last.      *)

Kinds == {"keys", "ram_only"}
Empty == [kind \in Kinds |-> <<>>]
In(doc) == UNION {{doc[kind][i] : i \in 1 .. Len(doc[kind])} : kind \in Kinds}

\* _put_last into the note's kind, its key popped from the other.
PutLast(ns, doc, n) ==
    LET others(s) == SelectSeq(s, LAMBDA m : ns[m].key # ns[n].key)
    IN  [kind \in Kinds |-> IF kind = ns[n].kind THEN Append(others(doc[kind]), n)
                                                 ELSE others(doc[kind])]

\* Mutant: one note more than KEYS_MAX stays.
TrimLate(doc) ==
    [kind \in Kinds |-> SubSeq(doc[kind], Max({1, Len(doc[kind]) - KeysMax}), Len(doc[kind]))]

Trim(doc) ==
    [kind \in Kinds |-> SubSeq(doc[kind], Max({1, Len(doc[kind]) - KeysMax + 1}), Len(doc[kind]))]

\* _Changes.apply: the keys first, then the ones kept in RAM only.
Apply(doc, changes) ==
    FoldLeft(LAMBDA d, n : PutLast(notes, d, n), doc, changes["keys"] \o changes["ram_only"])

-----------------------------------------------------------------------------
Init ==
    /\ notes = <<>>
    /\ pending = Empty /\ writing = Empty /\ view = None
    /\ scheduled = FALSE /\ timer = None /\ recent = FALSE
    /\ queued = 0 /\ stranded = 0 /\ ahead = [a \in Actors |-> -1] /\ startFailed = FALSE
    /\ queueDown = FALSE /\ closed = FALSE /\ slotGiven = FALSE
    /\ ioLock = None
    /\ file = [doc |-> Empty, stamp |-> IF EarlierRun THEN 1 ELSE 0]
    /\ memo = [doc |-> Empty, stamp |-> 0]
    /\ fresh = {}
    /\ pc = [a \in Actors |-> IF a \in Threads THEN "idle" ELSE "off"]
    /\ mine = [a \in Actors |-> Empty]
    /\ seen = [a \in Actors |-> [doc |-> Empty, stamp |-> 0]]
    /\ failures = 0 /\ landed = {} /\ lost = {} /\ overlapped = FALSE

At(a, where) == pc[a] = where
Goto(a, where) == pc' = [pc EXCEPT ![a] = where]

\* What an actor does next once it is through with _schedule or _write_now.
After(a) == IF a \in Threads THEN "idle"
            ELSE IF a = Worker /\ ~slotGiven THEN "slot" ELSE "off"
Return(a) == Goto(a, After(a))

Failure == failures < MaxFailures /\ failures' = failures + 1

-----------------------------------------------------------------------------
(* Noting.                                                                 *)

\* Mutant: a note that pushes an older one out leaves the view as it is.
NoteKeepsView(a, key, kind) ==
    LET n == Len(notes) + 1
        put == PutLast(Append(notes, [key |-> key, kind |-> kind]), pending, n)
    IN  /\ At(a, "idle") /\ "note" \in Operations[a] /\ n \in Notes
        /\ notes' = Append(notes, [key |-> key, kind |-> kind])
        /\ pending' = Trim(put)
        /\ view' = IF view = None THEN None ELSE PutLast(notes', view, n)
        /\ Goto(a, IF kind = "keys" THEN "schedule" ELSE "idle")
        /\ UNCHANGED <<writeVars, slotVars, diskVars, mine, failures>>

\* note_stored and note_ram_only; only the first schedules a write.
Note(a, key, kind) ==
    LET n == Len(notes) + 1
        put == PutLast(Append(notes, [key |-> key, kind |-> kind]), pending, n)
    IN  /\ At(a, "idle") /\ "note" \in Operations[a] /\ n \in Notes
        /\ notes' = Append(notes, [key |-> key, kind |-> kind])
        /\ pending' = Trim(put)
        /\ view' = IF view = None \/ Len(put[kind]) > KeysMax THEN None
                                                              ELSE PutLast(notes', view, n)
        /\ Goto(a, IF kind = "keys" THEN "schedule" ELSE "idle")
        /\ UNCHANGED <<writeVars, slotVars, diskVars, mine, failures>>

-----------------------------------------------------------------------------
(* _schedule: under the lock, then the queue's submit.                     *)

\* Somebody will take what is pending.
SlotTaken == scheduled \/ timer # None

\* Mutant: no early return, the caller writes.
ScheduleTakenWrites(a) ==
    /\ pc[a] \in {"schedule", "hold"} /\ SlotTaken
    /\ Goto(a, "write")
    /\ UNCHANGED <<recVars, writeVars, slotVars, diskVars, mine, failures>>

ScheduleTaken(a) ==
    /\ pc[a] \in {"schedule", "hold"} /\ SlotTaken
    /\ Return(a)
    /\ UNCHANGED <<recVars, writeVars, slotVars, diskVars, mine, failures>>

\* Held back: a timer is started (one that is not running is taken).
ScheduleHeld(a) ==
    /\ pc[a] \in {"schedule", "hold"} /\ ~SlotTaken /\ ~closed
    /\ At(a, "hold") \/ recent
    /\ \E t \in Timers : pc[t] = "off"
    /\ timer' = CHOOSE t \in Timers : pc[t] = "off"
    /\ pc' = [pc EXCEPT ![a] = After(a), ![timer'] = "ticking"]
    /\ UNCHANGED <<recVars, writeVars, scheduled, recent, queueVars, queueDown, closed, slotGiven,
                   diskVars, mine, failures>>

\* The timer is in _timers when its start raises, out of _schedule.
HeldStartFails(a) ==
    /\ Failure /\ startFailed' = TRUE
    /\ pc[a] \in {"schedule", "hold"} /\ ~SlotTaken /\ ~closed
    /\ At(a, "hold") \/ recent
    /\ \E t \in Timers : pc[t] = "off"
    /\ timer' = CHOOSE t \in Timers : pc[t] = "off"
    /\ Return(a)
    /\ UNCHANGED <<recVars, writeVars, scheduled, recent, queued, stranded, ahead, queueDown,
                   closed, slotGiven, diskVars, mine>>

ScheduleClosed(a) ==
    /\ pc[a] \in {"schedule", "hold"} /\ ~SlotTaken /\ closed
    /\ Goto(a, "write")
    /\ UNCHANGED <<recVars, writeVars, slotVars, diskVars, mine, failures>>

\* submit waits for the task last submitted (read here, the earliest it can
\* be: the later it is read, the longer the wait).
Previous(a) ==
    ahead' = [ahead EXCEPT ![a] = IF queued = 0 /\ At(Worker, "off") THEN -1 ELSE queued]

ScheduleSlot(a) ==
    /\ At(a, "schedule") /\ ~SlotTaken /\ ~closed /\ ~recent
    /\ scheduled' = TRUE
    /\ Previous(a)
    /\ Goto(a, "submit")
    /\ UNCHANGED <<recVars, writeVars, timer, recent, queued, stranded, startFailed, queueDown,
                   closed, slotGiven, diskVars, mine, failures>>

PreviousDone(a) == ahead[a] = -1 \/ (ahead[a] = 0 /\ At(Worker, "off"))

\* Queued for the pool's thread, or for one started now, which also takes
\* what was left in the queue.
Submit(a) ==
    /\ At(a, "submit") /\ PreviousDone(a) /\ ~queueDown
    /\ queued' = queued + stranded + 1 /\ stranded' = 0
    /\ ahead' = [ahead EXCEPT ![a] = -1]
    /\ Return(a)
    /\ UNCHANGED <<recVars, writeVars, scheduled, timer, recent, startFailed, queueDown, closed,
                   slotGiven, diskVars, mine, failures>>

\* RuntimeError, shut down meanwhile: the caller writes for itself.
SubmitRefused(a) ==
    /\ \/ At(a, "submit") /\ PreviousDone(a) /\ queueDown
       \/ At(a, "refused")
    /\ scheduled' = FALSE
    /\ ahead' = [ahead EXCEPT ![a] = -1]
    /\ Goto(a, "write")
    /\ UNCHANGED <<recVars, writeVars, timer, recent, queued, stranded, startFailed, queueDown,
                   closed, slotGiven, diskVars, mine, failures>>

\* The pool has no thread (none yet, or it ended idle) and cannot start one:
\* RuntimeError too, but the task stays in the queue.
SubmitStartFails(a) ==
    /\ Failure /\ startFailed' = TRUE
    /\ At(a, "submit") /\ PreviousDone(a) /\ ~queueDown /\ queued = 0 /\ At(Worker, "off")
    /\ stranded' = stranded + 1
    /\ scheduled' = FALSE
    /\ ahead' = [ahead EXCEPT ![a] = -1]
    /\ Goto(a, "write")
    /\ UNCHANGED <<recVars, writeVars, timer, recent, queued, queueDown, closed, slotGiven,
                   diskVars, mine>>

-----------------------------------------------------------------------------
(* The timer, the drain hook, the writer task.                             *)

IntervalPasses ==
    /\ recent /\ recent' = FALSE
    /\ UNCHANGED <<recVars, writeVars, scheduled, timer, queueVars, queueDown, closed, slotGiven,
                   diskVars, pc, mine, failures>>

\* The timer fires: _release_held pops the path's timer, whichever it is.
ReleaseHeld(t) ==
    /\ pc[t] \in {"ticking", "fired"}
    /\ timer' = None
    /\ Goto(t, IF timer = None THEN "off" ELSE "schedule")
    /\ UNCHANGED <<recVars, writeVars, scheduled, recent, queueVars, queueDown, closed, slotGiven,
                   diskVars, mine, failures>>

\* timer.cancel(): the timer never fires, or it has fired already and its
\* _release_held comes later.
Cancelled(t) ==
    IF t = None \/ pc[t] = "off" THEN {pc}
    ELSE {[pc EXCEPT ![t] = "off"], [pc EXCEPT ![t] = "fired"]}

\* _submit_held takes the timers and the queue, ...
DrainBegin(a) ==
    /\ At(a, "idle") /\ "drain" \in Operations[a] /\ timer # None
    /\ timer' = None
    /\ \E now \in Cancelled(timer) :
          pc' = [now EXCEPT ![a] = IF closed THEN "heldClosed" ELSE "held"]
    /\ UNCHANGED <<recVars, writeVars, scheduled, recent, queueVars, queueDown, closed, slotGiven,
                   diskVars, mine, failures>>

\* ... then the slot, unless a queued write takes the change.
DrainSlot(a) ==
    /\ pc[a] \in {"held", "heldClosed"}
    /\ scheduled' = TRUE
    /\ IF scheduled THEN Goto(a, "idle") /\ UNCHANGED ahead
       ELSE IF At(a, "held") THEN Goto(a, "submit") /\ Previous(a)
       ELSE Goto(a, "refused") /\ UNCHANGED ahead
    /\ UNCHANGED <<recVars, writeVars, timer, recent, queued, stranded, startFailed, queueDown,
                   closed, slotGiven, diskVars, mine, failures>>

WorkerBegin ==
    /\ At(Worker, "off") /\ queued > 0
    /\ queued' = queued - 1 /\ slotGiven' = FALSE
    /\ ahead' = [a \in Actors |-> Max({-1, ahead[a] - 1})]
    /\ Goto(Worker, "write")
    /\ UNCHANGED <<recVars, writeVars, scheduled, timer, recent, stranded, startFailed, queueDown,
                   closed, diskVars, mine, failures>>

\* Mutant: a late change is left to the next note.
WorkerSlotNoLate ==
    /\ At(Worker, "slot")
    /\ scheduled' = FALSE /\ slotGiven' = TRUE
    /\ Goto(Worker, "off")
    /\ UNCHANGED <<recVars, writeVars, timer, recent, queueVars, queueDown, closed, diskVars, mine,
                   failures>>

\* _write_while_pending: the slot and the late change in one step.
WorkerSlot ==
    /\ At(Worker, "slot")
    /\ scheduled' = FALSE /\ slotGiven' = TRUE
    /\ Goto(Worker, IF pending # Empty /\ ~closed THEN "hold" ELSE "off")
    /\ UNCHANGED <<recVars, writeVars, timer, recent, queueVars, queueDown, closed, diskVars, mine,
                   failures>>

-----------------------------------------------------------------------------
(* _write_now.                                                             *)

WriteBegin(a) ==
    /\ At(a, "write")
    /\ mine' = [mine EXCEPT ![a] = pending]
    /\ pending' = Empty
    /\ IF pending = Empty THEN Return(a) /\ UNCHANGED <<writing, overlapped>>
                          ELSE /\ Goto(a, "io")
                               /\ writing' = pending
                               /\ overlapped' = (overlapped \/ writing # Empty)
    /\ UNCHANGED <<notes, view, slotVars, diskVars, failures>>

\* The memo is replaced: a view built on the old record, and whoever holds
\* that record, are out of date.
Remember(found) ==
    /\ memo' = found
    /\ view' = None

\* Mutant: the rewrite starts from a memo that was checked lately.
ReplaceMemo(a) ==
    /\ At(a, "io") /\ ioLock = None
    /\ ioLock' = a
    /\ LET found == IF memo.stamp # 0 THEN memo ELSE file
       IN  file' = [doc |-> Trim(Apply(found.doc, mine[a])), stamp |-> file.stamp + 1]
    /\ landed' = landed \cup In(mine[a])
    /\ Goto(a, "remember")
    /\ UNCHANGED <<recVars, writeVars, slotVars, memo, fresh, seen, lost, mine, failures>>

\* Under _io_lock: the record on disk, through a memo that has its stamp, is
\* rewritten with the changes.
Replace(a) ==
    /\ At(a, "io") /\ ioLock = None
    /\ ioLock' = a
    /\ LET found == IF memo.stamp = file.stamp THEN memo ELSE file
       IN  file' = [doc |-> Trim(Apply(found.doc, mine[a])), stamp |-> file.stamp + 1]
    /\ IF memo.stamp = file.stamp THEN UNCHANGED <<memo, view, fresh>>
                                  ELSE Remember(file) /\ fresh' = {}
    /\ landed' = landed \cup In(mine[a])
    /\ Goto(a, "remember")
    /\ UNCHANGED <<notes, pending, writeVars, slotVars, seen, lost, mine, failures>>

RememberWritten(a) ==
    /\ At(a, "remember")
    /\ Remember(file) /\ fresh' = {}
    /\ ioLock' = None
    /\ Goto(a, "finally")
    /\ UNCHANGED <<notes, pending, writeVars, slotVars, file, seen, landed, lost, mine, failures>>

\* An error drops the change, unless it is only the stat after the rename.
WriteFails(a) ==
    /\ Failure
    /\ \/ At(a, "io") /\ ioLock = None /\ lost' = lost \cup In(mine[a])
       \/ At(a, "remember") /\ UNCHANGED lost
    /\ ioLock' = None
    /\ Goto(a, "finally")
    /\ UNCHANGED <<recVars, writeVars, slotVars, file, memo, fresh, seen, landed, mine>>

Finally(a) ==
    /\ At(a, "finally")
    /\ writing' = Empty
    /\ recent' = TRUE
    /\ mine' = [mine EXCEPT ![a] = Empty]
    /\ Return(a)
    /\ UNCHANGED <<recVars, overlapped, scheduled, timer, queueVars, queueDown, closed, slotGiven,
                   diskVars, failures>>

-----------------------------------------------------------------------------
(* read and miss_facts: _disk_doc, then for miss_facts the view.           *)

\* The memo, unseen if it was checked lately or after a stat; or the file is
\* loaded (one step with its stat: a rewrite between the two only has the
\* next stat load it again).
DiskDoc(a) ==
    /\ At(a, "idle") /\ "read" \in Operations[a]
    /\ \/ /\ memo.stamp # 0 \/ file.stamp = 0
          /\ fresh' = fresh \cup {a} /\ UNCHANGED seen
          /\ Goto(a, "facts")
       \/ /\ file.stamp # memo.stamp
          /\ seen' = [seen EXCEPT ![a] = file] /\ UNCHANGED fresh
          /\ Goto(a, "loaded")
    /\ UNCHANGED <<recVars, writeVars, slotVars, ioLock, file, memo, landed, lost, mine, failures>>

RememberLoaded(a) ==
    /\ At(a, "loaded")
    /\ Remember(seen[a]) /\ fresh' = {a}
    /\ seen' = [seen EXCEPT ![a] = [doc |-> Empty, stamp |-> 0]]
    /\ Goto(a, "facts")
    /\ UNCHANGED <<notes, pending, writeVars, slotVars, ioLock, file, landed, lost, mine, failures>>

\* The view of that record, built anew if it was built on another.
Facts(a) ==
    /\ At(a, "facts")
    /\ view' = IF a \notin fresh THEN None
               ELSE IF view # None THEN view ELSE Apply(Apply(memo.doc, writing), pending)
    /\ fresh' = fresh \ {a}
    /\ Goto(a, "idle")
    /\ UNCHANGED <<notes, pending, writeVars, slotVars, ioLock, file, memo, seen, landed, lost,
                   mine, failures>>

\* read takes no view.
ReadEnd(a) ==
    /\ At(a, "facts")
    /\ fresh' = fresh \ {a}
    /\ Goto(a, "idle")
    /\ UNCHANGED <<recVars, writeVars, slotVars, ioLock, file, memo, seen, landed, lost, mine,
                   failures>>

-----------------------------------------------------------------------------
(* close, which flushes, and a fork.                                       *)

CloseBegin(a) ==
    /\ At(a, "idle") /\ "close" \in Operations[a] /\ ~closed
    /\ closed' = TRUE
    /\ Goto(a, "shutdown")
    /\ UNCHANGED <<recVars, writeVars, scheduled, timer, recent, queueVars, queueDown, slotGiven,
                   diskVars, mine, failures>>

Shutdown(a) ==
    /\ At(a, "shutdown")
    /\ queueDown' = TRUE
    /\ Goto(a, "join")
    /\ UNCHANGED <<recVars, writeVars, scheduled, timer, recent, queueVars, closed, slotGiven,
                   diskVars, mine, failures>>

\* The queue's last task is through; flush takes the timers, ...
Join(a) ==
    /\ At(a, "join") /\ queued = 0 /\ At(Worker, "off")
    /\ timer' = None
    /\ \E now \in Cancelled(timer) : pc' = [now EXCEPT ![a] = "flush"]
    /\ UNCHANGED <<recVars, writeVars, scheduled, recent, queueVars, queueDown, closed, slotGiven,
                   diskVars, mine, failures>>

\* ... and writes what is still pending.
Flush(a) ==
    /\ At(a, "flush")
    /\ Goto(a, IF pending = Empty THEN "idle" ELSE "write")
    /\ UNCHANGED <<recVars, writeVars, slotVars, diskVars, mine, failures>>

\* _after_fork_in_child: what the parent noted is the parent's to write,
\* though its changes stay pending here too.
Fork(a) ==
    /\ At(a, "idle") /\ "fork" \in Operations[a]
    /\ pc' = [b \in Actors |-> IF b = a THEN "idle" ELSE IF b \in Threads THEN "gone" ELSE "off"]
    /\ scheduled' = FALSE /\ timer' = None /\ slotGiven' = FALSE
    /\ queued' = 0 /\ stranded' = 0 /\ ahead' = [b \in Actors |-> -1]
    /\ writing' = Empty /\ view' = None /\ ioLock' = None
    /\ fresh' = {}
    /\ mine' = [b \in Actors |-> Empty]
    /\ seen' = [b \in Actors |-> [doc |-> Empty, stamp |-> 0]]
    /\ lost' = lost \cup (1 .. Len(notes) \ landed)
    /\ UNCHANGED <<notes, pending, overlapped, recent, startFailed, queueDown, closed, file, memo,
                   landed, failures>>

-----------------------------------------------------------------------------
Step(a) ==
    \/ ScheduleTaken(a) \/ ScheduleHeld(a) \/ HeldStartFails(a)
    \/ ScheduleClosed(a) \/ ScheduleSlot(a)
    \/ Submit(a) \/ SubmitRefused(a) \/ SubmitStartFails(a)
    \/ WriteBegin(a) \/ Replace(a) \/ RememberWritten(a) \/ WriteFails(a) \/ Finally(a)

TimerStep(t) == ReleaseHeld(t) \/ Step(t)
WorkerStep == WorkerBegin \/ WorkerSlot \/ Step(Worker)
ThreadStep(a) == DrainSlot(a) \/ Shutdown(a) \/ Join(a) \/ Flush(a) \/ Step(a)
ReaderStep(a) == RememberLoaded(a) \/ Facts(a) \/ ReadEnd(a)

\* What runs on by itself.
Run ==
    \/ \E a \in Threads : ThreadStep(a)
    \/ \E t \in Timers : TimerStep(t)
    \/ WorkerStep

Next ==
    \/ \E a \in Threads :
         \/ \E n \in Notable : Note(a, n[1], n[2])
         \/ DrainBegin(a) \/ DiskDoc(a) \/ CloseBegin(a) \/ Fork(a)
         \/ ReaderStep(a)
    \/ Run
    \/ IntervalPasses

Spec == Init /\ [][Next]_vars

\* Of the threads inside a call, the timers and the writer some one that can
\* go on does (a call, a task and a timer are each finite, so in the end all
\* of them have; nothing waits for a reader); the interval passes.
FairSpec == Spec /\ WF_vars(Run) /\ WF_vars(IntervalPasses)

-----------------------------------------------------------------------------
(* Properties.                                                             *)

Docs == [Kinds -> Seq(Notes)]
Records == [doc : Docs, stamp : Nat]

\* Among other things, no kind outgrows KEYS_MAX, in memory or on disk.
TypeOK ==
    /\ notes \in Seq([key : Keys, kind : Kinds]) /\ Len(notes) <= MaxNotes
    /\ pending \in Docs /\ writing \in Docs /\ view \in Docs \cup {None}
    /\ \A kind \in Kinds : Len(pending[kind]) <= KeysMax /\ Len(file.doc[kind]) <= KeysMax
    /\ {scheduled, recent, startFailed, queueDown, closed, slotGiven, overlapped} \subseteq BOOLEAN
    /\ queued \in Nat /\ stranded \in Nat /\ failures \in 0 .. MaxFailures
    /\ ahead \in [Actors -> Int]
    /\ timer \in Timers \cup {None} /\ ioLock \in Actors \cup {None}
    /\ file \in Records /\ memo \in Records
    /\ fresh \subseteq Actors /\ landed \subseteq Notes /\ lost \subseteq Notes
    /\ mine \in [Actors -> Docs] /\ seen \in [Actors -> Records]
    /\ pc \in [Actors -> {"idle", "off", "gone", "schedule", "hold", "submit", "refused", "slot",
                          "write", "io", "remember", "finally", "loaded", "facts",
                          "ticking", "fired", "held", "heldClosed", "shutdown", "join", "flush"}]

\* A note is out of date once its key is noted again, or KEYS_MAX newer notes
\* of its kind push it out.
Overtaken(n) ==
    \/ \E m \in n + 1 .. Len(notes) : notes[m].key = notes[n].key
    \/ Cardinality({m \in n + 1 .. Len(notes) : notes[m].kind = notes[n].kind}) >= KeysMax

\* The rewrites of the record lose nothing: what one of them wrote is in the
\* file until it is out of date, whatever memo _write_now started from.
FileKeepsNotes == ~overlapped => \A n \in landed : n \in In(file.doc) \/ Overtaken(n)

\* The view that miss_facts keeps up to date note by note is the record that
\* read would put together: the file's with the changes being written and the
\* pending ones.  (A failed write leaves its change in the view, and a reader
\* that loaded the file before a rewrite may leave the older record as memo.)
ViewCurrent ==
    ~overlapped /\ lost = {} /\ view # None /\ memo.stamp = file.stamp
        => view = Apply(Apply(file.doc, writing), pending)

\* Until close, and as long as threads can be started, one write of the
\* record is under way at a time: what _writing holds is still part of what
\* read answers, and changes reach the file in the order they were noted.
\* (After close, threads write for themselves.  After a failed start the
\* caller does too, and its task, still in the queue, writes beside another
\* caller once a thread is started.)
OneWriteAtATime == overlapped => closed \/ startFailed

\* The record comes to rest with every stored key written, by the queue, the
\* timer, a drain or close (or gone with a failed write, or left to the
\* parent): no thread that notes, drains or closes and no writer task waits
\* for itself.  (Reads take no part in any wait.)  Only a timer that could
\* not be started keeps changes waiting, for a drain or close.
Unwritten ==
    {n \in 1 .. Len(notes) : notes[n].kind = "keys" /\ ~Overtaken(n)} \ (landed \cup lost)
AtRest ==
    /\ Unwritten = {} \/ (timer # None /\ pc[timer] = "off")
    /\ \A a \in Actors : pc[a] \in {"idle", "gone", "off", "facts", "loaded"}
ComesToRest == ~AtRest ~> AtRest
=============================================================================
