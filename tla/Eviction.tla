------------------------------ MODULE Eviction ------------------------------
(***************************************************************************)
(* FileEvictor: the byte count of one cache directory and its GreedyDual   *)
(* eviction, in one process.  The write worker lands a write, accounts for *)
(* it and evicts; a caller's thread reads, deletes and clears; the flusher *)
(* puts reads on disk.  An entry's rank is the clock when it was last used *)
(* plus its value per byte, which a read raises.  Left out: chunks, the    *)
(* adaptive cap, the eviction log, the thrash warning, other processes'    *)
(* writes.                                                                 *)
(***************************************************************************)
EXTENDS Integers, Sequences, FiniteSets

CONSTANTS
    Keys, None,
    Sizes,          \* the sizes an entry may have
    Cost,           \* what each key's value cost to compute
    Left,           \* the keys whose entries earlier processes may have left
    Cap,            \* max_size_bytes
    MaxOps,         \* bound on what the caller's thread does
    UnlinkMayFail   \* a removal may be refused (a file held open)

ASSUME EvictionAssumption ==
    /\ IsFiniteSet(Keys) /\ None \notin Keys
    /\ Sizes \subseteq Nat \ {0} /\ Cost \in [Keys -> Nat] /\ Left \subseteq Keys
    /\ Cap \in Nat \ {0} /\ MaxOps \in Nat /\ UnlinkMayFail \in BOOLEAN
    /\ None \notin Int \cup [size : Nat, mtime : Nat] \cup [access : Nat, reads : Nat]

VARIABLES
    disk,           \* the entries: size and mtime
    index,          \* the rank index: each key's recorded rank, the clock
    now,            \* the time; every write and read has a time of its own
    bytes, scanned, \* current_bytes, size_scanned
    queue, fresh, ranked,   \* the ranking's candidates, and the writes since
    clock, clockLoaded, base,
    meta,           \* TouchedEntries: last_access and reads of the keys this process used
    unflushed,      \*   and the reads not on disk
    jobs,           \* the writes scheduled, the one running first
    pc, rm,         \* per thread: where it is, the removal it is in
    pass,           \* the worker's evict: scan, rebuilt, evicted, and the candidates
                    \*   it passed over since the ranking
    ops,            \* what the caller's thread did
    overlapped      \* a removal overlapped another of the entry, or the scan

rankVars == <<queue, fresh, ranked, clock, clockLoaded, base, index>>
countVars == <<bytes, scanned, overlapped>>
useVars == <<meta, unflushed, now>>
vars == <<disk, rankVars, countVars, useVars, jobs, pc, rm, pass, ops>>

Read == -1
Worker == "worker"
Caller == "caller"
Removing == {"measure", "unlink", "account"}
NoRemoval == [key |-> None, freed |-> 0, rank |-> 0]
NoPass == [scan |-> 0, rebuilt |-> FALSE, evicted |-> FALSE, spared |-> {}]

OnDisk == {k \in Keys : disk[k] # None}
\* The bytes of an entry, one by one, and how many some entries have.
BytesOf(k) == {k} \X (1 .. disk[k].size)
Total(S) == Cardinality(UNION {BytesOf(k) : k \in S})
MaxOf(a, b) == IF a >= b THEN a ELSE b

\* A process starts over what earlier ones left: entries, ranks, a clock.
Init ==
    /\ disk \in [Keys -> {None} \cup [size : Sizes, mtime : {0}]]
    /\ index \in [rank : [Keys -> {None, 1}], clock : {1}]
    /\ \A k \in Keys : index.rank[k] # None => disk[k] # None
    /\ OnDisk \subseteq Left
    /\ now = 0 /\ bytes = 0 /\ scanned = FALSE /\ overlapped = FALSE
    /\ queue = {} /\ fresh = {} /\ ranked = FALSE
    /\ clock = 0 /\ clockLoaded = FALSE /\ base = [k \in Keys |-> None]
    /\ meta = [k \in Keys |-> None] /\ unflushed = {}
    /\ jobs = <<>> /\ ops = 0
    /\ pc = [t \in {Worker, Caller} |-> "idle"]
    /\ rm = [t \in {Worker, Caller} |-> NoRemoval]
    /\ pass = NoPass

At(t, where) == pc[t] = where
Goto(t, where) == pc' = [pc EXCEPT ![t] = where]
Does == At(Caller, "idle") /\ ops < MaxOps /\ ops' = ops + 1
Pending(k) == \E i \in 1 .. Len(jobs) : jobs[i].key = k

\* gdsf_value: hits times cost per byte, in steps; an unknown cost is small.
ValueOf(k, m, size) == IF m = None THEN 0 ELSE ((m.reads + 1) * Cost[k]) \div size

-----------------------------------------------------------------------------
(* The caller's thread.                                                    *)

Schedule(k, size) ==
    /\ Does
    /\ jobs' = Append(jobs, [key |-> k, size |-> size])
    /\ UNCHANGED <<disk, rankVars, countVars, useVars, pc, rm, pass>>

\* A read waits for the key's write; note_read leaves its rank to its next use.
Get(k) ==
    /\ Does /\ ~Pending(k) /\ disk[k] # None
    /\ now' = now + 1
    /\ meta' = [meta EXCEPT ![k] = [access |-> now + 1,
                                    reads |-> IF meta[k] = None THEN 1 ELSE meta[k].reads + 1]]
    /\ unflushed' = unflushed \cup {k}
    /\ base' = [base EXCEPT ![k] = Read]
    /\ UNCHANGED <<disk, queue, fresh, ranked, clock, clockLoaded, index, countVars, jobs, pc, rm, pass>>

\* A delete waits for the key's write too.
Delete(k) ==
    /\ Does /\ ~Pending(k)
    /\ rm' = [rm EXCEPT ![Caller] = [NoRemoval EXCEPT !.key = k]]
    /\ Goto(Caller, "measure")
    /\ UNCHANGED <<disk, rankVars, countVars, useVars, jobs, pass>>

\* clear waits for every write.
Clear ==
    /\ Does /\ jobs = <<>>
    /\ disk' = [k \in Keys |-> None]
    /\ index' = [rank |-> [k \in Keys |-> None], clock |-> 0]
    /\ queue' = {} /\ fresh' = {} /\ ranked' = FALSE
    /\ base' = [k \in Keys |-> None] /\ clock' = 0 /\ bytes' = 0
    /\ meta' = [k \in Keys |-> None] /\ unflushed' = {}
    /\ UNCHANGED <<clockLoaded, scanned, overlapped, now, jobs, pc, rm, pass>>

-----------------------------------------------------------------------------
(* The flusher: _flush_metadata of one read, access_record.                *)

\* ensure_clock resumes the clock from the index, once.
Loaded == IF clockLoaded THEN clock ELSE MaxOf(clock, index.clock)

FlushRead(k) ==
    /\ k \in unflushed
    /\ unflushed' = unflushed \ {k}
    /\ clock' = Loaded /\ clockLoaded' = TRUE
    /\ IF disk[k] # None
       THEN LET from == IF base[k] \in {None, Read} THEN Loaded ELSE base[k]
            IN  /\ now' = now + 1
                /\ disk' = [disk EXCEPT ![k].mtime = now + 1]
                /\ base' = [base EXCEPT ![k] = from]
                /\ index' = [index EXCEPT !.rank[k] = from + ValueOf(k, meta[k], disk[k].size)]
       ELSE UNCHANGED <<now, disk, base, index>>
    /\ UNCHANGED <<queue, fresh, ranked, countVars, meta, jobs, pc, rm, pass, ops>>

-----------------------------------------------------------------------------
(* remove_path, by either thread.                                          *)

RemoveMeasure(t) ==
    /\ At(t, "measure")
    /\ rm' = [rm EXCEPT ![t].freed = IF disk[rm[t].key] = None THEN 0 ELSE disk[rm[t].key].size]
    /\ Goto(t, "unlink")
    /\ UNCHANGED <<disk, rankVars, countVars, useVars, jobs, pass, ops>>

\* A file that is gone already counts as removed.
RemoveUnlink(t) ==
    /\ At(t, "unlink")
    /\ disk' = [disk EXCEPT ![rm[t].key] = None]
    /\ overlapped' = (overlapped \/ (disk[rm[t].key] = None /\ rm[t].freed > 0)
                                 \/ (t = Caller /\ At(Worker, "adopt")))
    /\ Goto(t, "account")
    /\ UNCHANGED <<rankVars, bytes, scanned, useVars, jobs, rm, pass, ops>>

\* One that stays keeps its bookkeeping.
RemoveRefused(t) ==
    /\ At(t, "unlink") /\ UnlinkMayFail /\ disk[rm[t].key] # None
    /\ rm' = [rm EXCEPT ![t] = NoRemoval]
    /\ pass' = IF t = Worker THEN [pass EXCEPT !.spared = @ \cup {rm[t].key}] ELSE pass
    /\ Goto(t, IF t = Worker THEN "loop" ELSE "idle")
    /\ UNCHANGED <<disk, rankVars, countVars, useVars, jobs, ops>>

\* Mutant: the bytes stay on the count.
RemoveAccountKeepsBytes(t) ==
    /\ At(t, "account")
    /\ meta' = [meta EXCEPT ![rm[t].key] = None]
    /\ unflushed' = unflushed \ {rm[t].key}
    /\ base' = [base EXCEPT ![rm[t].key] = None]
    /\ bytes' = bytes
    /\ rm' = [rm EXCEPT ![t] = NoRemoval]
    /\ Goto(t, IF t = Worker THEN "loop" ELSE "idle")
    /\ UNCHANGED <<disk, queue, fresh, ranked, clock, clockLoaded, index, scanned, overlapped, now, jobs, pass, ops>>

\* Mutant: the entry's read is still to be flushed.
RemoveAccountKeepsRead(t) ==
    /\ At(t, "account")
    /\ meta' = [meta EXCEPT ![rm[t].key] = None]
    /\ unflushed' = unflushed
    /\ base' = [base EXCEPT ![rm[t].key] = None]
    /\ bytes' = bytes - rm[t].freed
    /\ rm' = [rm EXCEPT ![t] = NoRemoval]
    /\ Goto(t, IF t = Worker THEN "loop" ELSE "idle")
    /\ UNCHANGED <<disk, queue, fresh, ranked, clock, clockLoaded, index, scanned, overlapped, now, jobs, pass, ops>>

\* The bookkeeping goes with the bytes; the clock rises to a victim's rank.
RemoveAccount(t) ==
    LET k == rm[t].key
        victim == t = Worker /\ rm[t].freed > 0
    IN  /\ At(t, "account")
        /\ meta' = [meta EXCEPT ![k] = None]
        /\ unflushed' = unflushed \ {k}
        /\ base' = [base EXCEPT ![k] = None]
        /\ bytes' = bytes - rm[t].freed
        /\ clock' = IF victim THEN MaxOf(clock, rm[t].rank) ELSE clock
        /\ pass' = [pass EXCEPT !.evicted = @ \/ victim]
        /\ rm' = [rm EXCEPT ![t] = NoRemoval]
        /\ Goto(t, IF t = Worker THEN "loop" ELSE "idle")
        /\ UNCHANGED <<disk, queue, fresh, ranked, clockLoaded, index, scanned, overlapped, now, jobs, ops>>

-----------------------------------------------------------------------------
(* The write worker: a write, then evict.                                  *)

\* Mutant: a write keeps the clock its key was last used at.
RecordRankOldBase(k, size) ==
    LET from == IF base[k] \in {None, Read} THEN Loaded ELSE base[k]
        h == Loaded + ValueOf(k, [access |-> 0, reads |-> 0], size)
    IN  /\ clock' = Loaded /\ clockLoaded' = TRUE
        /\ base' = [base EXCEPT ![k] = from]
        /\ fresh' = IF ranked THEN fresh \cup {[key |-> k, h |-> h, at |-> now + 1, recency |-> now + 1]} ELSE fresh
        /\ index' = [index EXCEPT !.rank[k] = h]

\* A write is ranked at the clock, and a candidate at once if there is a ranking.
RecordRank(k, size) ==
    LET h == Loaded + ValueOf(k, [access |-> 0, reads |-> 0], size)
    IN  /\ clock' = Loaded /\ clockLoaded' = TRUE
        /\ base' = [base EXCEPT ![k] = Loaded]
        /\ fresh' = IF ranked THEN fresh \cup {[key |-> k, h |-> h, at |-> now + 1, recency |-> now + 1]} ELSE fresh
        /\ index' = [index EXCEPT !.rank[k] = h]

\* The entry is written and accounted for.
Land ==
    LET k == jobs[1].key
        old == IF disk[k] = None THEN 0 ELSE disk[k].size
    IN  /\ At(Worker, "idle") /\ jobs # <<>>
        /\ now' = now + 1
        /\ disk' = [disk EXCEPT ![k] = [size |-> jobs[1].size, mtime |-> now + 1]]
        /\ bytes' = bytes + jobs[1].size - old
        /\ meta' = [meta EXCEPT ![k] = [access |-> 0, reads |-> 0]]
        /\ RecordRank(k, jobs[1].size)
        /\ Goto(Worker, "begin")
        /\ UNCHANGED <<queue, ranked, scanned, overlapped, unflushed, jobs, rm, pass, ops>>

\* ensure_size_scanned: the first write's evict walks the directory, ...
Scan ==
    /\ At(Worker, "begin") /\ ~scanned
    /\ pass' = [pass EXCEPT !.scan = Total(OnDisk)]
    /\ overlapped' = (overlapped \/ At(Caller, "account"))
    /\ Goto(Worker, "adopt")
    /\ UNCHANGED <<disk, rankVars, bytes, scanned, useVars, jobs, rm, ops>>

\* ... which replaces the count.
Adopt ==
    /\ At(Worker, "adopt")
    /\ bytes' = pass.scan /\ scanned' = TRUE
    /\ Goto(Worker, "begin")
    /\ UNCHANGED <<disk, rankVars, overlapped, useVars, jobs, rm, pass, ops>>

OverTarget == 10 * bytes > 9 * Cap

EvictBegin ==
    /\ At(Worker, "begin") /\ scanned
    /\ Goto(Worker, IF bytes <= Cap THEN "done" ELSE "loop")
    /\ UNCHANGED <<disk, rankVars, countVars, useVars, jobs, rm, pass, ops>>

\* The first of some candidates: the lowest, the least recently used of equals.
Heads(S) == {c \in S : \A d \in S : c.h < d.h \/ (c.h = d.h /\ c.recency <= d.recency)}

\* _pop_candidate: the lower of the two heads, the ranking's if they are equal.
FromQueue(c, d) == c.h < d.h \/ (c.h = d.h /\ c.at <= d.at)
Popped ==
    {c \in Heads(queue) : fresh = {} \/ \E d \in Heads(fresh) : FromQueue(c, d)}
    \cup {d \in Heads(fresh) : queue = {} \/ \E c \in Heads(queue) : ~FromQueue(c, d)}

\* Used since it was ranked, here or (by its mtime) on disk.
TouchedSince(c) ==
    \/ meta[c.key] # None /\ meta[c.key].access > c.at
    \/ disk[c.key] # None /\ disk[c.key].mtime > c.at

\* The next candidate: passed over if it was used since, or has another write
\* behind the one running.
Consider ==
    /\ At(Worker, "loop") /\ OverTarget
    /\ \E c \in Popped :
         LET inFlight == meta[c.key] # None /\ c.key # jobs[1].key /\ Pending(c.key)
         IN  /\ queue' = queue \ {c} /\ fresh' = fresh \ {c}
             /\ IF TouchedSince(c) \/ inFlight
                THEN /\ pass' = [pass EXCEPT !.spared = @ \cup {c.key}]
                     /\ UNCHANGED <<pc, rm>>
                ELSE /\ rm' = [rm EXCEPT ![Worker] = [key |-> c.key, freed |-> 0, rank |-> c.h]]
                     /\ Goto(Worker, "measure")
                     /\ UNCHANGED pass
    /\ UNCHANGED <<disk, ranked, clock, clockLoaded, base, index, countVars, useVars, jobs, ops>>

\* The rank rebuild_queue gives an entry, at clock l: one used here from memory,
\* another as recorded.
Rank(k, l) ==
    LET value == ValueOf(k, meta[k], disk[k].size)
    IN  IF meta[k] # None /\ base[k] # None THEN (IF base[k] = Read THEN l ELSE base[k]) + value
        ELSE IF index.rank[k] # None THEN index.rank[k] ELSE value

\* Mutant: the pass forgets that it ranked already.
RebuildForgets ==
    /\ At(Worker, "loop") /\ OverTarget /\ queue = {} /\ fresh = {}
    /\ clock' = MaxOf(clock, index.clock) /\ clockLoaded' = TRUE
    /\ queue' = {[key |-> k, h |-> Rank(k, clock'), at |-> disk[k].mtime, recency |-> disk[k].mtime] : k \in OnDisk}
    /\ ranked' = TRUE
    /\ UNCHANGED <<disk, base, fresh, index, countVars, useVars, jobs, pc, rm, pass, ops>>

\* rebuild_queue, once a pass: every entry.
Rebuild ==
    LET l == MaxOf(clock, index.clock)
        used(k) == IF meta[k] = None THEN disk[k].mtime ELSE MaxOf(disk[k].mtime, meta[k].access)
        recency(k) == IF k \in unflushed THEN used(k) ELSE disk[k].mtime
    IN  /\ At(Worker, "loop") /\ OverTarget /\ queue = {} /\ fresh = {} /\ ~pass.rebuilt
        /\ clock' = l /\ clockLoaded' = TRUE
        /\ base' = [k \in Keys |-> IF k \in OnDisk /\ meta[k] # None /\ base[k] = Read THEN l ELSE base[k]]
        /\ queue' = {[key |-> k, h |-> Rank(k, l), at |-> used(k), recency |-> recency(k)] : k \in OnDisk}
        /\ ranked' = TRUE
        /\ pass' = [pass EXCEPT !.rebuilt = TRUE, !.spared = {}]
        /\ UNCHANGED <<disk, fresh, index, countVars, useVars, jobs, pc, rm, ops>>

\* Mutant: an exhausted ranking ends the pass.
LoopEndsEarly ==
    /\ At(Worker, "loop")
    /\ ~OverTarget \/ (queue = {} /\ fresh = {})
    /\ Goto(Worker, "done")
    /\ UNCHANGED <<disk, rankVars, countVars, useVars, jobs, rm, pass, ops>>

LoopEnds ==
    /\ At(Worker, "loop")
    /\ ~OverTarget \/ (queue = {} /\ fresh = {} /\ pass.rebuilt)
    /\ Goto(Worker, "done")
    /\ UNCHANGED <<disk, rankVars, countVars, useVars, jobs, rm, pass, ops>>

\* The clock goes to the rank index, for the next process.
EvictDone ==
    /\ At(Worker, "done")
    /\ index' = IF pass.evicted THEN [index EXCEPT !.clock = MaxOf(@, clock)] ELSE index
    /\ jobs' = Tail(jobs)
    /\ pass' = NoPass
    /\ Goto(Worker, "idle")
    /\ UNCHANGED <<disk, queue, fresh, ranked, clock, clockLoaded, base, countVars, useVars, rm, ops>>

-----------------------------------------------------------------------------
WorkerStep ==
    \/ Land \/ Scan \/ Adopt \/ EvictBegin \/ Consider \/ Rebuild \/ LoopEnds \/ EvictDone
    \/ RemoveMeasure(Worker) \/ RemoveUnlink(Worker) \/ RemoveRefused(Worker) \/ RemoveAccount(Worker)

CallerStep ==
    \/ \E k \in Keys : Get(k) \/ Delete(k) \/ \E size \in Sizes : Schedule(k, size)
    \/ Clear
    \/ RemoveMeasure(Caller) \/ RemoveUnlink(Caller) \/ RemoveRefused(Caller) \/ RemoveAccount(Caller)

Next == WorkerStep \/ CallerStep \/ \E k \in Keys : FlushRead(k)

\* The worker is a thread of the process; nothing makes a caller call.
Spec == Init /\ [][Next]_vars /\ WF_vars(WorkerStep)

-----------------------------------------------------------------------------
(* Properties.                                                             *)

Candidates == queue \cup fresh

\* The types; and what the evictor remembers of an entry goes with its
\* removal: an unflushed read belongs to a key in use, a removal to a thread
\* that is inside remove_path, a pass to a worker inside evict.
TypeOK ==
    /\ disk \in [Keys -> {None} \cup [size : Sizes, mtime : 0 .. now]]
    /\ index \in [rank : [Keys -> {None} \cup Nat], clock : Nat]
    /\ now \in Nat /\ bytes \in Int /\ {scanned, ranked, clockLoaded, overlapped} \subseteq BOOLEAN
    /\ Candidates \subseteq [key : Keys, h : Nat, at : 0 .. now, recency : 0 .. now]
    /\ clock \in Nat /\ base \in [Keys -> {None, Read} \cup Nat]
    /\ meta \in [Keys -> {None} \cup [access : 0 .. now, reads : Nat]]
    /\ unflushed \subseteq {k \in Keys : meta[k] # None}
    /\ jobs \in Seq([key : Keys, size : Sizes])
    /\ pc \in [{Worker, Caller} -> {"idle", "begin", "adopt", "loop", "done"} \cup Removing]
    /\ \A t \in {Worker, Caller} : (rm[t] # NoRemoval) <=> (pc[t] \in Removing)
    /\ pc[Worker] = "idle" => pass = NoPass

\* The evictor's count is the directory's bytes whenever no removal is under
\* way, once the directory was walked.  (Until two removals of one entry
\* overlap, or one overlaps that walk: each then counts what the other did.)
BytesExact ==
    scanned /\ ~overlapped /\ At(Caller, "idle") /\ pc[Worker] \notin {"account", "adopt"}
        => bytes = Total(OnDisk)

\* A pass of evict leaves the directory within its cap, or has passed over
\* every entry left, each for a use or a write since it was ranked, or because
\* it could not be removed.
CapKept ==
    At(Worker, "done") /\ ~overlapped /\ Total(OnDisk) > Cap => OnDisk \subseteq pass.spared

\* A candidate not used since it was ranked is queued at the rank its
\* bookkeeping gives it now, whatever was read, flushed, rewritten or removed
\* meanwhile: evict takes the least valuable entry.
RanksCurrent ==
    \A c \in Candidates :
        disk[c.key] # None /\ ~TouchedSince(c) => c.h = Rank(c.key, clock)

\* Every scheduled write is done at last: evict never goes round for an entry
\* whose own write waits behind it.
WritesDone == <>[](jobs = <<>>)
=============================================================================
