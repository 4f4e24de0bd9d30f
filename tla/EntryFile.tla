------------------------------ MODULE EntryFile ------------------------------
(***************************************************************************)
(* One entry of the file tier: the file a key is stored in, the threads of *)
(* several processes that write, read, remove and stamp it, and what each  *)
(* backend remembers of it (backends/file_backend.py, entry_format.py,     *)
(* touched_entries.py).                                                    *)
(*                                                                         *)
(* A write is a number and names the file (inode) it fills.  A file is a   *)
(* head, the header with the metadata region, and a body, the payload.     *)
(* meta is the write the metadata in a head came from; the payload's       *)
(* checksum is the file's own number, so entry_identity is <<file, meta>>. *)
(* A head that is being written is "torn": magic or metadata do not parse. *)
(*                                                                         *)
(* The write queue is the one of WriteQueue.tla, reduced to its order: a   *)
(* backend runs its queued writes one after the other, and an operation    *)
(* waits for the write that was pending when it began.                     *)
(***************************************************************************)
EXTENDS Integers, Sequences

CONSTANTS
    Processes,      \* processes sharing the cache directory
    Backends,       \* FileBackend objects over it
    ProcessOf,      \* ProcessOf[b]: the process backend b lives in
    Callers,        \* threads that call a backend
    Writers,        \* write workers, one for each backend
    Flushers,       \* threads that write access stamps back (_Flusher)
    On,             \* On[t]: the backend thread t works on
    Operations,     \* which operations the callers of a run use
    WriteMayFail,   \* may a write of the bytes fail (a full disk)?
    MaxWrites,      \* bound: writes in a behaviour
    MaxFlushes,     \* bound: flushes of access stamps
    MaxCrashes,     \* bound: processes killed
    MaxWipes        \* bound: removals of the whole directory

Threads == Callers \cup Writers \cup Flushers

ASSUME ConstantsAssumption ==
    /\ Backends # {}
    /\ ProcessOf \in [Backends -> Processes]
    /\ On \in [Threads -> Backends]
    /\ \A s, t \in Writers : On[s] = On[t] => s = t
    /\ Callers \cap Writers = {} /\ Callers \cap Flushers = {} /\ Writers \cap Flushers = {}
    /\ Processes \cap Threads = {}
    /\ Operations \subseteq {"set", "get", "get_metadata", "set_metadata_only",
                             "delete", "clear", "shutdown", "expire"}
    /\ WriteMayFail \in BOOLEAN
    /\ MaxWrites \in Nat \ {0}
    /\ {MaxFlushes, MaxCrashes, MaxWipes} \subseteq Nat

NoFile == 0
Writes == 1 .. MaxWrites
Blank == [head |-> "none", meta |-> NoFile, body |-> FALSE, mtime |-> 0]

\* What a backend remembers of the key (TouchedEntries): the metadata, named
\* by its write, the entry_identity it was read under, the stat signature.
NoIdentity == <<NoFile, NoFile>>
NoStat == <<NoFile, 0>>
Untouched == [meta |-> NoFile, id |-> NoIdentity, stat |-> NoStat]

\* The locals of a thread between two operations.
Idle == [pc |-> "idle", op |-> "none", w |-> NoFile, waits |-> {}, retried |-> FALSE,
         cached |-> NoFile, file |-> NoFile, meta |-> NoFile, stat |-> NoStat, mark |-> 0]

VARIABLES
    dir,        \* does the cache directory exist?
    entry,      \* the file the entry's path names
    file,       \* contents of the file of each write
    temps,      \* writes whose temp file is in the directory
    orphans,    \* the temp files whose process is dead
    last,       \* the last write begun
    ofBackend,  \* the backend a write is made by
    kind,       \* "full", or "only" for a metadata-only entry
    queue,      \* the writes queued on each backend
    pending,    \* PendingWrites._pending of each backend
    touched,    \* TouchedEntries of each backend
    unflushed,  \* is a read of the key not yet flushed?
    lock,       \* the thread holding the backend's entry_lock
    swept,      \* _orphans_swept
    closed,     \* has the backend been shut down?
    loc,        \* the locals of every thread
    flushes, crashes, wipes,
    calm,       \* history: writes and reads begun, and processes that have set
                \* the key, with no removal, failed write, crash or flush since
    deleted     \* history: writes set before a finished delete or clear began

dirVars == <<dir, entry, file, temps, orphans>>
writeVars == <<last, ofBackend, kind>>
queueVars == <<queue, pending>>
memVars == <<touched, unflushed>>
backendVars == <<lock, swept, closed>>
boundVars == <<flushes, crashes, wipes>>
histVars == <<calm, deleted>>
vars == <<dirVars, writeVars, queueVars, memVars, backendVars, loc, boundVars, histVars>>

Free == "free"          \* no thread holds the lock

Init ==
    /\ dir = TRUE
    /\ entry = NoFile
    /\ file = [w \in Writes |-> Blank]
    /\ temps = {}
    /\ orphans = {}
    /\ last = 0
    /\ ofBackend = [w \in Writes |-> CHOOSE b \in Backends : TRUE]
    /\ kind = [w \in Writes |-> "full"]
    /\ queue = [b \in Backends |-> <<>>]
    /\ pending = [b \in Backends |-> NoFile]
    /\ touched = [b \in Backends |-> Untouched]
    /\ unflushed = [b \in Backends |-> FALSE]
    /\ lock = [b \in Backends |-> Free]
    /\ swept = [b \in Backends |-> FALSE]
    /\ closed = [b \in Backends |-> FALSE]
    /\ loc = [t \in Threads |-> Idle]
    /\ flushes = 0
    /\ crashes = 0
    /\ wipes = 0
    /\ calm = {}
    /\ deleted = {}

-----------------------------------------------------------------------------
(* Moves of a thread.                                                      *)

At(t, where) == loc[t].pc = where
Goto(t, where) == loc' = [loc EXCEPT ![t].pc = where]
Finish(t) == loc' = [loc EXCEPT ![t] = Idle]

\* Is write w queued, or being made by a worker?
Unfinished(w) ==
    \/ \E b \in Backends : \E i \in 1 .. Len(queue[b]) : queue[b][i] = w
    \/ \E t \in Writers : loc[t].w = w
PendingOn(b) == {w \in {pending[b]} \ {NoFile} : Unfinished(w)}
Cohort(b) == {s \in Backends : ProcessOf[s] = ProcessOf[b]}

\* Mutant: only the own queue is waited for.
NoSiblings(b) == {}

\* _sibling_writers
Siblings(b) == Cohort(b) \ {b}
Settled(t) == \A w \in loc[t].waits : ~Unfinished(w)

\* Thread c begins an operation, waiting for its own queue's write first.
Begin(c, op, where) ==
    /\ op \in Operations
    /\ At(c, "idle")
    /\ ~closed[On[c]]
    /\ loc' = [loc EXCEPT ![c] = [Idle EXCEPT !.pc = where, !.op = op,
                                    !.waits = PendingOn(On[c]),
                                    !.mark = IF op \in {"delete", "clear"} THEN last ELSE 0]]

\* TouchedEntries.remember and drop_metadata / forget.
Remember(b, meta, id, stat) ==
    touched' = [touched EXCEPT ![b] = [meta |-> meta, id |-> id, stat |-> stat]]
Drop(b) ==
    /\ touched' = [touched EXCEPT ![b] = Untouched]
    /\ unflushed' = [unflushed EXCEPT ![b] = FALSE]

Identity(f) == <<f, file[f].meta>>          \* entry_identity
HeadWhole(f) == f # NoFile /\ file[f].head = "whole"
ReadsAs(c, f) == HeadWhole(f) /\ (loc[c].op = "get" => file[f].body)

-----------------------------------------------------------------------------
(* set: the caller queues the write; the backend's worker makes it.        *)

SetBegin(c) ==
    /\ last < MaxWrites
    /\ Begin(c, "set", "submit")
    /\ UNCHANGED <<dirVars, writeVars, queueVars, memVars, backendVars, boundVars, histVars>>

NewWrite(b, sort) ==
    /\ last < MaxWrites
    /\ last' = last + 1
    /\ ofBackend' = [ofBackend EXCEPT ![last + 1] = b]
    /\ kind' = [kind EXCEPT ![last + 1] = sort]

\* submit: once the previous write of the key has finished.
SetSubmit(c) ==
    LET b == On[c] IN
    /\ At(c, "submit")
    /\ Settled(c)
    /\ NewWrite(b, "full")
    /\ queue' = [queue EXCEPT ![b] = Append(@, last + 1)]
    /\ pending' = [pending EXCEPT ![b] = last + 1]
    /\ calm' = calm \cup {ProcessOf[b]}
    /\ Finish(c)
    /\ UNCHANGED <<dirVars, memVars, backendVars, boundVars, deleted>>

WriterTake(t) ==
    LET b == On[t] IN
    /\ t \in Writers
    /\ At(t, "idle")
    /\ queue[b] # <<>>
    /\ queue' = [queue EXCEPT ![b] = Tail(@)]
    /\ loc' = [loc EXCEPT ![t] = [Idle EXCEPT !.pc = IF swept[b] THEN "lock" ELSE "sweep",
                                    !.w = Head(queue[b])]]
    /\ calm' = calm \cup {t}
    /\ UNCHANGED <<dirVars, writeVars, pending, memVars, backendVars, boundVars, deleted>>

\* _do_set_sync, first write of the backend: remove_orphan_temp_files.
Sweep(t) ==
    /\ At(t, "sweep")
    /\ swept' = [swept EXCEPT ![On[t]] = TRUE]
    /\ temps' = temps \ orphans
    /\ orphans' = {}
    /\ Goto(t, "lock")
    /\ UNCHANGED <<dir, entry, file, writeVars, queueVars, memVars, lock, closed, boundVars, histVars>>

\* _write_cache_files: with self.chunks.entry_lock(...).
Lock(t) ==
    /\ At(t, "lock")
    /\ lock[On[t]] = Free
    /\ lock' = [lock EXCEPT ![On[t]] = t]
    /\ Goto(t, "place")
    /\ UNCHANGED <<dirVars, writeVars, queueVars, memVars, swept, closed, boundVars, histVars>>

-----------------------------------------------------------------------------
(* _write_new_in_place: O_EXCL, the payload, the head last.                *)

Fill(w, contents) == file' = [file EXCEPT ![w] = contents]

\* Mutant: no O_EXCL, the file that is there is truncated.
PlaceOver(t) ==
    /\ At(t, "place")
    /\ entry' = loc[t].w
    /\ Fill(loc[t].w, Blank)
    /\ Goto(t, "body")
    /\ UNCHANGED <<dir, temps, orphans, writeVars, queueVars, memVars, backendVars, boundVars, histVars>>

\* Mutant: the header is written before the payload.
PlaceHeadFirst(t) ==
    /\ At(t, "place")
    /\ IF dir /\ entry = NoFile
         THEN entry' = loc[t].w /\ Fill(loc[t].w, Blank) /\ Goto(t, "head")
         ELSE Goto(t, "temp") /\ UNCHANGED <<entry, file>>
    /\ UNCHANGED <<dir, temps, orphans, writeVars, queueVars, memVars, backendVars, boundVars, histVars>>

\* Mutant: a file that is there already is taken for the entry.
PlaceTrusts(t) ==
    /\ At(t, "place")
    /\ IF entry = NoFile
         THEN entry' = loc[t].w /\ Fill(loc[t].w, Blank) /\ Goto(t, "body")
         ELSE Goto(t, "written") /\ UNCHANGED <<entry, file>>
    /\ UNCHANGED <<dir, temps, orphans, writeVars, queueVars, memVars, backendVars, boundVars, histVars>>

Place(t) ==
    LET w == loc[t].w IN
    /\ At(t, "place")
    /\ IF dir /\ entry = NoFile
         THEN entry' = w /\ Fill(w, Blank) /\ Goto(t, "body")
         ELSE Goto(t, "temp") /\ UNCHANGED <<entry, file>>
    /\ UNCHANGED <<dir, temps, orphans, writeVars, queueVars, memVars, backendVars, boundVars, histVars>>

PlaceBody(t) ==
    /\ At(t, "body")
    /\ Fill(loc[t].w, [file[loc[t].w] EXCEPT !.body = TRUE])
    /\ Goto(t, "head")
    /\ UNCHANGED <<dir, entry, temps, orphans, writeVars, queueVars, memVars, backendVars, boundVars, histVars>>

PlaceHeadBegin(t) ==
    /\ At(t, "head")
    /\ Fill(loc[t].w, [file[loc[t].w] EXCEPT !.head = "torn"])
    /\ Goto(t, "head_end")
    /\ UNCHANGED <<dir, entry, temps, orphans, writeVars, queueVars, memVars, backendVars, boundVars, histVars>>

PlaceHeadEnd(t) ==
    /\ At(t, "head_end")
    /\ Fill(loc[t].w, [file[loc[t].w] EXCEPT !.head = "whole", !.meta = loc[t].w])
    /\ Goto(t, "close")
    /\ UNCHANGED <<dir, entry, temps, orphans, writeVars, queueVars, memVars, backendVars, boundVars, histVars>>

PlaceClose(t) ==
    /\ At(t, "close")
    /\ Goto(t, "written")
    /\ UNCHANGED <<dirVars, writeVars, queueVars, memVars, backendVars, boundVars, histVars>>

\* A failed write or close: os.remove(path), whatever the path names now.
PlaceFails(t) ==
    /\ WriteMayFail
    /\ \E where \in {"body", "head", "head_end", "close"} : At(t, where)
    /\ entry' = NoFile
    /\ calm' = {}
    /\ Goto(t, "failed")
    /\ UNCHANGED <<dir, file, temps, orphans, writeVars, queueVars, memVars, backendVars, boundVars, deleted>>

-----------------------------------------------------------------------------
(* _atomic_write: a temp file, renamed into place.                         *)

\* FileNotFoundError: _write_entry makes the directory again and retries
\* once; set_metadata_only gives up.
Missing(t) ==
    IF t \in Writers /\ ~loc[t].retried
      THEN /\ dir' = TRUE
           /\ loc' = [loc EXCEPT ![t].retried = TRUE, ![t].pc = "place"]
           /\ UNCHANGED calm
      ELSE /\ Goto(t, "failed")
           /\ calm' = {}
           /\ UNCHANGED dir

TempCreate(t) ==
    /\ At(t, "temp")
    /\ IF dir
         THEN /\ temps' = temps \cup {loc[t].w}
              /\ Fill(loc[t].w, Blank)
              /\ Goto(t, "fill")
              /\ UNCHANGED <<dir, calm>>
         ELSE Missing(t) /\ UNCHANGED <<temps, file>>
    /\ UNCHANGED <<entry, orphans, writeVars, queueVars, memVars, backendVars, boundVars, deleted>>

TempFill(t) ==
    LET w == loc[t].w IN
    /\ At(t, "fill")
    /\ Fill(w, [head |-> "whole", meta |-> w, body |-> TRUE, mtime |-> 0])
    /\ Goto(t, "rename")
    /\ UNCHANGED <<dir, entry, temps, orphans, writeVars, queueVars, memVars, backendVars, boundVars, histVars>>

\* Mutant: the temp file is left behind.
TempFailsLeaves(t) ==
    /\ WriteMayFail
    /\ At(t, "fill")
    /\ calm' = {}
    /\ Goto(t, "failed")
    /\ UNCHANGED <<dirVars, writeVars, queueVars, memVars, backendVars, boundVars, deleted>>

TempFails(t) ==
    /\ WriteMayFail
    /\ At(t, "fill")
    /\ temps' = temps \ {loc[t].w}
    /\ calm' = {}
    /\ Goto(t, "failed")
    /\ UNCHANGED <<dir, entry, file, orphans, writeVars, queueVars, memVars, backendVars, boundVars, deleted>>

Rename(t) ==
    /\ At(t, "rename")
    /\ IF loc[t].w \in temps
         THEN /\ entry' = loc[t].w
              /\ temps' = temps \ {loc[t].w}
              /\ Goto(t, "written")
              /\ UNCHANGED <<dir, calm>>
         ELSE Missing(t) /\ UNCHANGED <<entry, temps>>
    /\ UNCHANGED <<file, orphans, writeVars, queueVars, memVars, backendVars, boundVars, deleted>>

Unlock(t) == lock' = [b \in Backends |-> IF lock[b] = t THEN Free ELSE lock[b]]

\* The end of the lock's block, and then _remember.
Written(t) ==
    /\ At(t, "written")
    /\ Unlock(t)
    /\ Goto(t, "remember")
    /\ UNCHANGED <<dirVars, writeVars, queueVars, memVars, swept, closed, boundVars, histVars>>

RememberWritten(t) ==
    LET w == loc[t].w IN
    /\ At(t, "remember")
    /\ Remember(On[t], w, <<w, w>>, NoStat)
    /\ Finish(t)
    /\ UNCHANGED <<dirVars, writeVars, queueVars, unflushed, backendVars, boundVars, histVars>>

\* Mutant: the failure leaves the lock held.
WriteFailedLocked(t) ==
    /\ At(t, "failed")
    /\ Finish(t)
    /\ UNCHANGED <<dirVars, writeVars, queueVars, memVars, backendVars, boundVars, histVars>>

WriteFailed(t) ==
    /\ At(t, "failed")
    /\ Unlock(t)
    /\ Finish(t)
    /\ UNCHANGED <<dirVars, writeVars, queueVars, memVars, swept, closed, boundVars, histVars>>

-----------------------------------------------------------------------------
(* get, get_metadata, set_metadata_only, delete and clear: the waits.      *)

ReadBegin(c) ==
    /\ \E op \in {"get", "get_metadata"} : Begin(c, op, "wait")
    /\ calm' = IF ProcessOf[On[c]] \in calm THEN calm \cup {c} ELSE calm \ {c}
    /\ UNCHANGED <<dirVars, writeVars, queueVars, memVars, backendVars, boundVars, deleted>>

\* The number of the write it may make is drawn here.
OnlyBegin(c) ==
    /\ "set_metadata_only" \in Operations
    /\ At(c, "idle")
    /\ ~closed[On[c]]
    /\ NewWrite(On[c], "only")
    /\ loc' = [loc EXCEPT ![c] = [Idle EXCEPT !.pc = "wait", !.op = "set_metadata_only",
                                    !.w = last + 1, !.waits = PendingOn(On[c])]]
    /\ calm' = calm \cup {c}
    /\ UNCHANGED <<dirVars, queueVars, memVars, backendVars, boundVars, deleted>>

\* drain takes the write out of _pending before it waits for it.
DeleteBegin(c) ==
    /\ Begin(c, "delete", "wait")
    /\ pending' = [pending EXCEPT ![On[c]] = NoFile]
    /\ UNCHANGED <<dirVars, writeVars, queue, memVars, backendVars, boundVars, histVars>>

ClearBegin(c) ==
    /\ \E op \in {"clear", "shutdown"} : Begin(c, op, "wait")
    /\ UNCHANGED <<dirVars, writeVars, queueVars, memVars, backendVars, boundVars, histVars>>

\* _wait_for_writes, _wait_for_all_writes: the own queue, then the siblings'.
\* delete and shutdown wait for the own queue only.
WaitOwn(c) ==
    /\ At(c, "wait")
    /\ Settled(c)
    /\ loc' = [loc EXCEPT ![c].pc = CASE loc[c].op = "delete" -> "remove"
                                      [] loc[c].op = "shutdown" -> "stop"
                                      [] OTHER -> "wait_siblings",
                          ![c].waits = UNION {PendingOn(s) : s \in Siblings(On[c])}]
    /\ UNCHANGED <<dirVars, writeVars, queueVars, memVars, backendVars, boundVars, histVars>>

WaitSiblings(c) ==
    /\ At(c, "wait_siblings")
    /\ Settled(c)
    /\ Goto(c, CASE loc[c].op = "clear" -> "remove"
                 [] loc[c].op = "set_metadata_only" -> "known"
                 [] OTHER -> "cached")
    /\ UNCHANGED <<dirVars, writeVars, queueVars, memVars, backendVars, boundVars, histVars>>

-----------------------------------------------------------------------------
(* get and get_metadata: the reads.                                        *)

\* cached_meta = self._touched.metadata(key)
Cached(c) ==
    /\ At(c, "cached")
    /\ loc' = [loc EXCEPT ![c].cached = touched[On[c]].meta,
                          ![c].pc = IF loc[c].op = "get_metadata" /\ touched[On[c]].meta # NoFile
                                      THEN "stat" ELSE "open"]
    /\ UNCHANGED <<dirVars, writeVars, queueVars, memVars, backendVars, boundVars, histVars>>

\* get_metadata: the remembered metadata, if the file is the one it was read from.
Stat(c) ==
    LET st == <<entry, file[entry].mtime>> IN
    /\ At(c, "stat")
    /\ IF entry = NoFile
         THEN Goto(c, "miss")
         ELSE IF touched[On[c]].stat = st
           THEN loc' = [loc EXCEPT ![c].pc = "answer", ![c].meta = loc[c].cached]
           ELSE loc' = [loc EXCEPT ![c].pc = "open", ![c].stat = st]
    /\ UNCHANGED <<dirVars, writeVars, queueVars, memVars, backendVars, boundVars, histVars>>

\* read_entry_and_checksum, through one descriptor.
ReadFile(c) ==
    /\ At(c, "open")
    /\ IF ReadsAs(c, entry)
         THEN loc' = [loc EXCEPT ![c].pc = "decide", ![c].file = entry, ![c].meta = file[entry].meta]
         ELSE Goto(c, "miss")
    /\ IF entry = NoFile /\ loc[c].op = "get"
         THEN Drop(On[c])
         ELSE UNCHANGED memVars
    /\ UNCHANGED <<dirVars, writeVars, queueVars, backendVars, boundVars, histVars>>

\* Mutant: remembered metadata stands in whatever the file holds.
SameKey(c) == loc[c].cached # NoFile

SameWrite(c) ==
    loc[c].cached # NoFile /\ touched[On[c]].id = <<loc[c].file, loc[c].meta>>

\* get: the remembered metadata stands in for the file's when the identity
\* agrees.  A metadata-only entry is a miss, an expired one is deleted.
GetDecide(c) ==
    LET b == On[c]
        meta == IF SameWrite(c) THEN loc[c].cached ELSE loc[c].meta
    IN
    /\ At(c, "decide")
    /\ loc[c].op = "get"
    /\ IF SameWrite(c)
         THEN UNCHANGED touched
         ELSE Remember(b, meta, <<loc[c].file, meta>>, NoStat)
    /\ \/ /\ kind[meta] = "only"
          /\ Goto(c, "miss")
          /\ UNCHANGED <<unflushed, pending>>
       \/ /\ kind[meta] = "full"
          /\ "expire" \in Operations
          /\ loc' = [loc EXCEPT ![c] = [Idle EXCEPT !.pc = "wait", !.op = "delete",
                                            !.waits = PendingOn(b), !.mark = last]]
          /\ pending' = [pending EXCEPT ![b] = NoFile]
          /\ UNCHANGED unflushed
       \/ /\ kind[meta] = "full"
          /\ loc' = [loc EXCEPT ![c].pc = "hit", ![c].meta = meta]
          /\ unflushed' = [unflushed EXCEPT ![b] = TRUE]
          /\ UNCHANGED pending
    /\ UNCHANGED <<dirVars, writeVars, queue, backendVars, boundVars, histVars>>

MetadataDecide(c) ==
    LET b == On[c] IN
    /\ At(c, "decide")
    /\ loc[c].op = "get_metadata"
    /\ IF SameWrite(c)
         THEN /\ touched' = [touched EXCEPT ![b].stat = loc[c].stat]
              /\ loc' = [loc EXCEPT ![c].pc = "answer", ![c].meta = loc[c].cached]
         ELSE /\ Remember(b, loc[c].meta, <<loc[c].file, loc[c].meta>>, loc[c].stat)
              /\ Goto(c, "answer")
    /\ UNCHANGED <<dirVars, writeVars, queueVars, unflushed, backendVars, boundVars, histVars>>

Return(c) ==
    /\ \E where \in {"hit", "answer", "miss"} : At(c, where)
    /\ Finish(c)
    /\ UNCHANGED <<dirVars, writeVars, queueVars, memVars, backendVars, boundVars, histVars>>

-----------------------------------------------------------------------------
(* set_metadata_only, delete, clear.                                       *)

\* What is there already: from memory when that is metadata only, else read.
OnlyKnown(c) ==
    LET known == touched[On[c]].meta # NoFile /\ kind[touched[On[c]].meta] = "only"
        found == HeadWhole(entry)
    IN
    /\ At(c, "known")
    /\ IF ~known /\ found /\ kind[file[entry].meta] = "full"
         THEN Finish(c)
         ELSE Goto(c, IF known \/ found THEN "temp" ELSE "place")
    /\ UNCHANGED <<dirVars, writeVars, queueVars, memVars, backendVars, boundVars, histVars>>

\* delete: remove_path, under the entry's lock.  clear removes without it.
Unlink(c) ==
    /\ At(c, "remove")
    /\ loc[c].op = "delete" => lock[On[c]] = Free
    /\ entry' = NoFile
    /\ calm' = {}
    /\ deleted' = deleted \cup {w \in 1 .. loc[c].mark :
                                  kind[w] = "full" /\ ofBackend[w] \in Cohort(On[c])}
    /\ Goto(c, "forget")
    /\ UNCHANGED <<dir, file, temps, orphans, writeVars, queueVars, memVars, backendVars, boundVars>>

Forget(c) ==
    /\ At(c, "forget")
    /\ Drop(On[c])
    /\ Finish(c)
    /\ UNCHANGED <<dirVars, writeVars, queueVars, backendVars, boundVars, histVars>>

-----------------------------------------------------------------------------
(* Access stamps (_flush_metadata): by a flusher, or by shutdown.          *)

\* take_unflushed
FlushBegin(t) ==
    LET b == On[t] IN
    /\ \/ t \in Flushers /\ At(t, "idle") /\ ~closed[b] /\ flushes < MaxFlushes /\ UNCHANGED closed
       \/ At(t, "stop") /\ closed' = [closed EXCEPT ![b] = TRUE]
    /\ IF unflushed[b]
         THEN Goto(t, "flush") /\ flushes' = flushes + 1
         ELSE At(t, "stop") /\ Finish(t) /\ UNCHANGED flushes
    /\ unflushed' = [unflushed EXCEPT ![b] = FALSE]
    /\ UNCHANGED <<dirVars, writeVars, queueVars, touched, lock, swept, crashes, wipes, histVars>>

\* meta = self._touched.metadata(key)
FlushCached(t) ==
    LET b == On[t] IN
    /\ At(t, "flush")
    /\ IF touched[b].meta = NoFile
         THEN Finish(t)
         ELSE loc' = [loc EXCEPT ![t].pc = "flush_lock", ![t].cached = touched[b].meta]
    /\ UNCHANGED <<dirVars, writeVars, queueVars, memVars, backendVars, boundVars, histVars>>

\* Mutant: the metadata goes to whatever entry is there.
FlushOpenAny(t) ==
    /\ At(t, "flush_lock")
    /\ lock[On[t]] = Free
    /\ IF HeadWhole(entry)
         THEN /\ lock' = [lock EXCEPT ![On[t]] = t]
              /\ loc' = [loc EXCEPT ![t].pc = "flush_write", ![t].file = entry]
         ELSE Finish(t) /\ UNCHANGED lock
    /\ UNCHANGED <<dirVars, writeVars, queueVars, memVars, swept, closed, boundVars, histVars>>

\* update_metadata_in_place, under the entry's lock: open, check the identity.
FlushOpen(t) ==
    LET b == On[t]
        expected == touched[b].id
    IN
    /\ At(t, "flush_lock")
    /\ lock[b] = Free
    /\ \/ /\ HeadWhole(entry)
          /\ expected \in {NoIdentity, Identity(entry)}
          /\ lock' = [lock EXCEPT ![b] = t]
          /\ loc' = [loc EXCEPT ![t].pc = "flush_write", ![t].file = entry]
          /\ UNCHANGED memVars
       \/ /\ entry = NoFile             \* FileNotFoundError
          /\ Finish(t)
          /\ UNCHANGED <<lock, memVars>>
       \/ /\ entry # NoFile             \* not that write, or it outgrew its region
          /\ Drop(b)
          /\ Finish(t)
          /\ UNCHANGED lock
    /\ UNCHANGED <<dirVars, writeVars, queueVars, swept, closed, boundVars, histVars>>

FlushWriteBegin(t) ==
    /\ At(t, "flush_write")
    /\ Fill(loc[t].file, [file[loc[t].file] EXCEPT !.head = "torn"])
    /\ calm' = {}
    /\ Goto(t, "flush_end")
    /\ UNCHANGED <<dir, entry, temps, orphans, writeVars, queueVars, memVars, backendVars, boundVars, deleted>>

FlushWriteEnd(t) ==
    /\ At(t, "flush_end")
    /\ Fill(loc[t].file, [file[loc[t].file] EXCEPT !.head = "whole", !.meta = loc[t].cached, !.mtime = @ + 1])
    /\ Unlock(t)
    /\ Finish(t)
    /\ UNCHANGED <<dir, entry, temps, orphans, writeVars, queueVars, memVars, swept, closed, boundVars, histVars>>

-----------------------------------------------------------------------------
(* The environment.                                                        *)

\* A process is killed and started again: its memory is gone, what it had
\* written of a file stays, and its temp files have no owner.
Crash(p) ==
    LET dead(b) == ProcessOf[b] = p
        reset(f, v) == [b \in Backends |-> IF dead(b) THEN v ELSE f[b]]
    IN
    /\ crashes < MaxCrashes
    /\ crashes' = crashes + 1
    /\ queue' = reset(queue, <<>>)
    /\ pending' = reset(pending, NoFile)
    /\ touched' = reset(touched, Untouched)
    /\ unflushed' = reset(unflushed, FALSE)
    /\ lock' = reset(lock, Free)
    /\ swept' = reset(swept, FALSE)
    /\ closed' = reset(closed, FALSE)
    /\ loc' = [t \in Threads |-> IF dead(On[t]) THEN Idle ELSE loc[t]]
    /\ orphans' = orphans \cup {w \in temps : dead(ofBackend[w])}
    /\ calm' = {}
    /\ UNCHANGED <<dir, entry, file, temps, writeVars, flushes, wipes, deleted>>

\* The directory is deleted under the processes (cash clear --all, or by hand).
Wipe ==
    /\ wipes < MaxWipes
    /\ wipes' = wipes + 1
    /\ dir' = FALSE
    /\ entry' = NoFile
    /\ temps' = {}
    /\ orphans' = {}
    /\ calm' = {}
    /\ UNCHANGED <<file, writeVars, queueVars, memVars, backendVars, loc, flushes, crashes, deleted>>

WriteStep(t) ==
    \/ WriterTake(t) \/ Sweep(t) \/ Lock(t) \/ Place(t) \/ PlaceBody(t)
    \/ PlaceHeadBegin(t) \/ PlaceHeadEnd(t) \/ PlaceClose(t) \/ PlaceFails(t)
    \/ TempCreate(t) \/ TempFill(t) \/ TempFails(t) \/ Rename(t)
    \/ Written(t) \/ RememberWritten(t) \/ WriteFailed(t)

CallStep(c) ==
    \/ SetBegin(c) \/ SetSubmit(c) \/ ReadBegin(c) \/ OnlyBegin(c)
    \/ DeleteBegin(c) \/ ClearBegin(c) \/ WaitOwn(c) \/ WaitSiblings(c)
    \/ Cached(c) \/ Stat(c) \/ ReadFile(c) \/ GetDecide(c) \/ MetadataDecide(c)
    \/ Return(c) \/ OnlyKnown(c) \/ Unlink(c) \/ Forget(c)

FlushStep(t) ==
    \/ FlushBegin(t) \/ FlushCached(t) \/ FlushOpen(t)
    \/ FlushWriteBegin(t) \/ FlushWriteEnd(t)

Next ==
    \/ \E t \in Threads : WriteStep(t) \/ FlushStep(t)
    \/ \E c \in Callers : CallStep(c)
    \/ \E p \in Processes : Crash(p)
    \/ Wipe

Spec == Init /\ [][Next]_vars

-----------------------------------------------------------------------------
(* Properties.                                                             *)

\* Types; a temp file is there only while a thread is filling it or after its
\* process was killed, and a write's file is empty until the write begins.
TypeOK ==
    /\ dir \in BOOLEAN
    /\ entry \in Writes \cup {NoFile}
    /\ file \in [Writes -> [head : {"none", "torn", "whole"}, meta : Writes \cup {NoFile},
                            body : BOOLEAN, mtime : Nat]]
    /\ orphans \subseteq temps /\ temps \subseteq Writes
    /\ temps \ orphans \subseteq {loc[t].w : t \in Threads}
    /\ \A b \in Backends : lock[b] \in Threads \cup {Free}
    /\ \A w \in Writes : w > last => file[w] = Blank

\* The header goes last (_write_new_in_place): no file, whoever fills, stamps
\* or abandons it, has a head before all of its payload is there.
HeadLast == \A w \in Writes : file[w].head # "none" => file[w].body

\* A head describes the payload under it: the metadata of one write is never
\* put over the payload of another (update_metadata_in_place's identity check).
DiskPairs == \A w \in Writes : file[w].head = "whole" => file[w].meta = w

\* What get returns is one write's: the metadata remembered from an earlier
\* write is never paired with a later write's payload (TouchedEntries).
HitPairs == \A c \in Callers : At(c, "hit") => loc[c].meta = loc[c].file

\* The entry's lock is held only inside a write or a flush, whichever way it
\* ends: a failed write, a missing directory or a refused flush releases it,
\* or every later write and delete of the key would wait for ever.
LockReleased ==
    \A b \in Backends : lock[b] # Free =>
      loc[lock[b]].pc \in {"place", "body", "head", "head_end", "close", "temp", "fill", "rename",
                          "written", "failed", "flush_write", "flush_end"}

\* A write that succeeded left the key readable: unless something was removed
\* or failed meanwhile, the path names a file with a head, whatever a killed
\* writer left there before and whoever else wrote the key at the same time.
LandedReadable ==
    \A t \in Threads : At(t, "written") /\ t \in calm
                         => entry # NoFile /\ file[entry].head # "none"

\* get never reports a miss when it races set: once a process has set the key,
\* through any of its backends, and nothing was removed or failed since, its
\* reads find a value, though other processes replace the entry meanwhile.
\* (A head that is being stamped does not parse: a read may miss then.)
NeverMissAfterSet ==
    \A c \in Callers : At(c, "miss") /\ loc[c].op = "get" => c \notin calm

\* A delete or a clear is not undone: no write of the same process that was
\* set before it began puts the entry back after it.
NoGhost == entry \notin deleted

=============================================================================
