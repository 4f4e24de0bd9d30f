--------------------------- MODULE EvictionProofs ---------------------------
(***************************************************************************)
(* Proofs about Eviction, for any keys, sizes, costs and cap and any       *)
(* number of calls: a candidate that was not used since it was ranked is   *)
(* queued at the rank it has now; the count of bytes is exact; a pass ends *)
(* within the cap; and the types.                                          *)
(***************************************************************************)
EXTENDS Eviction, FiniteSetTheorems, TLAPS

Threads == {Worker, Caller}
Stats == [size : Sizes, mtime : Nat]
Uses == [access : Nat, reads : Nat]
Cands == [key : Keys, h : Nat, at : Nat, recency : Nat]
Places == {"idle", "begin", "adopt", "loop", "done", "measure", "unlink", "account"}

Types ==
    /\ disk \in [Keys -> {None} \cup Stats]
    /\ index \in [rank : [Keys -> {None} \cup Nat], clock : Nat]
    /\ now \in Nat /\ clock \in Nat
    /\ base \in [Keys -> {None, Read} \cup Nat]
    /\ meta \in [Keys -> {None} \cup Uses]
    /\ queue \subseteq Cands /\ fresh \subseteq Cands
    /\ jobs \in Seq([key : Keys, size : Sizes])
    /\ pc \in [Threads -> Places]
    /\ pc[Worker] # "idle" => jobs # <<>>
    /\ rm \in [Threads -> [key : {None} \cup Keys, freed : Nat, rank : Nat]]
    /\ \A t \in Threads : pc[t] \in Removing => rm[t].key \in Keys

\* No time is ahead of the clock.
Past ==
    /\ \A k \in Keys : disk[k] # None => disk[k].mtime <= now
    /\ \A k \in Keys : meta[k] # None => meta[k].access <= now
    /\ \A c \in queue \cup fresh : c.at <= now

\* Only an entry this process knows is marked as read.
ReadsKnown == \A k \in Keys : meta[k] = None => base[k] # Read

\* An entry whose bookkeeping is about to go is gone: no write of it is
\* queued behind a delete.
GoneFirst ==
    /\ \A t \in Threads : pc[t] = "account" => disk[rm[t].key] = None
    /\ pc[Caller] \in Removing => \A i \in 1 .. Len(jobs) : jobs[i].key # rm[Caller].key

\* RanksCurrent, and that an unused candidate is not marked as read.
Current ==
    \A c \in queue \cup fresh :
        disk[c.key] # None /\ ~TouchedSince(c)
            => base[c.key] # Read /\ c.h = Rank(c.key, clock)

RankInv == Types /\ Past /\ ReadsKnown /\ GoneFirst /\ Current

-----------------------------------------------------------------------------
(* Types.                                                                  *)

\* A value per byte is a natural number.
LEMMA ValueType ==
    ASSUME NEW k \in Keys, NEW m \in {None} \cup Uses, NEW size \in Sizes
    PROVE  ValueOf(k, m, size) \in Nat
<1>1. CASE m = None
  BY <1>1, Zenon DEF ValueOf
<1>2. CASE m \in Uses /\ m # None
  <2>1. m.reads + 1 \in Nat /\ Cost[k] \in Nat /\ size \in Nat /\ size > 0
    BY <1>2, EvictionAssumption DEF Uses
  <2>2. \A a, b \in Nat : a * b \in Nat
    OBVIOUS
  <2>3. \A a \in Nat, b \in Nat \ {0} : a \div b \in Nat
    OBVIOUS
  <2> QED
    BY <1>2, <2>1, <2>2, <2>3 DEF ValueOf
<1> QED
  BY <1>1, <1>2, Zenon

\* So is a rank.
LEMMA RankType ==
    ASSUME Types, NEW k \in Keys, disk[k] # None, NEW l \in Nat
    PROVE  Rank(k, l) \in Nat
<1>1. ValueOf(k, meta[k], disk[k].size) \in Nat
  <2>1. disk[k].size \in Sizes /\ meta[k] \in {None} \cup Uses
    BY Zenon DEF Types, Stats
  <2> QED
    BY <2>1, ValueType, Zenon
<1>2. base[k] \in {None, Read} \cup Nat /\ index.rank[k] \in {None} \cup Nat
  BY Zenon DEF Types
<1> QED
  BY <1>1, <1>2 DEF Rank

\* The first of a sequence is one of its elements.
LEMMA FirstOf ==
    ASSUME NEW S, NEW s \in Seq(S), s # <<>>
    PROVE  s[1] \in S
OBVIOUS

\* The clock resumed from the index is a natural number.
LEMMA LoadedType == Types => Loaded \in Nat
BY Zenon DEF Types, Loaded, MaxOf

\* remove_path keeps the types.
LEMMA RemoveTypes ==
    ASSUME Types, NEW t \in Threads,
           RemoveMeasure(t) \/ RemoveUnlink(t) \/ RemoveRefused(t) \/ RemoveAccount(t)
    PROVE  Types'
<1> USE DEF Types, At, Goto, Threads, Worker, Caller, Places, Removing, rankVars, countVars, useVars
<1>1. CASE RemoveMeasure(t)
  <2>1. disk[rm[t].key] # None => disk[rm[t].key].size \in Nat
    BY <1>1, EvictionAssumption, Zenon DEF RemoveMeasure, Stats
  <2> QED
    BY <1>1, <2>1 DEF RemoveMeasure
<1>2. CASE RemoveUnlink(t)
  BY <1>2, Zenon DEF RemoveUnlink
<1>3. CASE RemoveRefused(t)
  BY <1>3, Zenon DEF RemoveRefused, NoRemoval
<1>4. CASE RemoveAccount(t)
  BY <1>4, Zenon DEF RemoveAccount, NoRemoval, MaxOf
<1> QED
  BY <1>1, <1>2, <1>3, <1>4, Zenon

\* So do the caller's operations and the flusher.
LEMMA CallerTypes ==
    ASSUME Types, NEW k \in Keys,
           \/ Get(k) \/ Delete(k) \/ Clear \/ FlushRead(k)
           \/ \E size \in Sizes : Schedule(k, size)
    PROVE  Types'
<1> USE DEF Types, At, Goto, Does, Threads, Worker, Caller, Places, Removing, rankVars, countVars, useVars
<1>1. CASE Get(k)
  <2>1. [access |-> now + 1, reads |-> IF meta[k] = None THEN 1 ELSE meta[k].reads + 1] \in Uses
    BY DEF Uses
  <2>2. meta' \in [Keys -> {None} \cup Uses]
    BY <1>1, <2>1, Zenon DEF Get
  <2> QED
    BY <1>1, <2>2 DEF Get
<1>2. CASE Delete(k)
  BY <1>2, Zenon DEF Delete, NoRemoval
<1>3. CASE Clear
  BY <1>3, Zenon DEF Clear
<1>4. CASE FlushRead(k)
  <2>1. Loaded \in Nat
    BY LoadedType, Zenon
  <2>2. CASE disk[k] # None
    <3> DEFINE from == IF base[k] \in {None, Read} THEN Loaded ELSE base[k]
    <3>1. from \in Nat
      BY <2>1, Zenon
    <3>2. ValueOf(k, meta[k], disk[k].size) \in Nat
      <4>1. disk[k].size \in Sizes /\ meta[k] \in {None} \cup Uses
        BY <2>2, Zenon DEF Stats
      <4> QED
        BY <4>1, ValueType, Zenon
    <3>3. disk' \in [Keys -> {None} \cup Stats]
      <4>1. disk' = [disk EXCEPT ![k] = [disk[k] EXCEPT !.mtime = now + 1]]
        BY <1>4, <2>2, Zenon DEF FlushRead
      <4>2. disk[k] \in Stats /\ now + 1 \in Nat
        BY <2>2
      <4>3. [disk[k] EXCEPT !.mtime = now + 1] \in Stats
        BY <4>2, Zenon DEF Stats
      <4> HIDE DEF from
      <4> QED
        BY <4>1, <4>3, Zenon
    <3>4. base' \in [Keys -> {None, Read} \cup Nat]
      BY <1>4, <2>2, <3>1, Zenon DEF FlushRead
    <3>5. index' \in [rank : [Keys -> {None} \cup Nat], clock : Nat]
      <4>1. from + ValueOf(k, meta[k], disk[k].size) \in Nat
        BY <3>1, <3>2
      <4>2. index' = [index EXCEPT !.rank[k] = from + ValueOf(k, meta[k], disk[k].size)]
        BY <1>4, <2>2, Zenon DEF FlushRead
      <4> HIDE DEF from
      <4> QED
        BY <4>1, <4>2, Zenon
    <3> QED
      BY <1>4, <2>1, <2>2, <3>3, <3>4, <3>5 DEF FlushRead
  <2>3. CASE disk[k] = None
    BY <1>4, <2>1, <2>3, Zenon DEF FlushRead
  <2> QED
    BY <2>2, <2>3, Zenon
<1>5. CASE \E size \in Sizes : Schedule(k, size)
  <2>1. PICK size \in Sizes : Schedule(k, size)
    BY <1>5, Zenon
  <2>2. jobs' \in Seq([key : Keys, size : Sizes])
    BY <2>1 DEF Schedule
  <2>3. jobs' # <<>>
    BY <2>1 DEF Schedule
  <2> QED
    BY <2>1, <2>2, <2>3, Zenon DEF Schedule
<1> QED
  BY <1>1, <1>2, <1>3, <1>4, <1>5, Zenon

\* And the worker's steps.
LEMMA WorkerTypes ==
    ASSUME Types,
           Land \/ Scan \/ Adopt \/ EvictBegin \/ Consider \/ Rebuild \/ LoopEnds \/ EvictDone
    PROVE  Types'
<1> USE DEF Types, At, Goto, Threads, Worker, Caller, Places, Removing, rankVars, countVars, useVars
<1>1. CASE Land
  <2> DEFINE k == jobs[1].key
             size == jobs[1].size
             h == Loaded + ValueOf(k, [access |-> 0, reads |-> 0], size)
  <2>1. k \in Keys /\ size \in Sizes
    <3>1. jobs # <<>>
      BY <1>1, Zenon DEF Land
    <3>2. jobs[1] \in [key : Keys, size : Sizes]
      BY <3>1, FirstOf, Zenon
    <3> QED
      BY <3>2, Zenon
  <2>2. Loaded \in Nat
    BY LoadedType, Zenon
  <2>3. [access |-> 0, reads |-> 0] \in Uses
    BY Zenon DEF Uses
  <2>4. h \in Nat
    <3>1. ValueOf(k, [access |-> 0, reads |-> 0], size) \in Nat
      <4> HIDE DEF k, size
      <4> QED
        BY <2>1, <2>3, ValueType, Zenon
    <3> QED
      BY <2>2, <3>1
  <2>5. disk' \in [Keys -> {None} \cup Stats] /\ meta' \in [Keys -> {None} \cup Uses]
    BY <1>1, <2>1, <2>3 DEF Land, Stats
  <2>6. fresh' \subseteq Cands
    BY <1>1, <2>1, <2>4 DEF Land, RecordRank, Cands
  <2>7. base' \in [Keys -> {None, Read} \cup Nat] /\ index' \in [rank : [Keys -> {None} \cup Nat], clock : Nat]
    BY <1>1, <2>1, <2>2, <2>4, Zenon DEF Land, RecordRank
  <2>8. clock' \in Nat /\ now' \in Nat /\ UNCHANGED <<queue, jobs, rm>> /\ jobs # <<>>
    BY <1>1, <2>2 DEF Land, RecordRank
  <2>9. pc' = [pc EXCEPT ![Worker] = "begin"]
    BY <1>1, Zenon DEF Land
  <2> QED
    BY <2>5, <2>6, <2>7, <2>8, <2>9, Zenon
<1>2. CASE Scan \/ Adopt \/ EvictBegin \/ LoopEnds
  BY <1>2, Zenon DEF Scan, Adopt, EvictBegin, LoopEnds
<1>3. CASE Consider
  <2>1. PICK c \in Popped :
            /\ queue' = queue \ {c} /\ fresh' = fresh \ {c}
            /\ \/ UNCHANGED <<pc, rm>>
               \/ /\ rm' = [rm EXCEPT ![Worker] = [key |-> c.key, freed |-> 0, rank |-> c.h]]
                  /\ Goto(Worker, "measure")
    BY <1>3, Zenon DEF Consider
  <2>2. c \in Cands
    BY <2>1, Zenon DEF Popped, Heads
  <2>3. UNCHANGED <<disk, clock, base, index, meta, now, jobs>> /\ jobs # <<>>
    BY <1>3, Zenon DEF Consider
  <2>4. c.key \in Keys /\ c.h \in Nat
    BY <2>2, Zenon DEF Cands
  <2>5. pc' \in [Threads -> Places] /\ (pc'[Worker] # "idle" => jobs' # <<>>)
    BY <2>1, <2>3, Zenon
  <2>6. rm' \in [Threads -> [key : {None} \cup Keys, freed : Nat, rank : Nat]]
    BY <2>1, <2>4
  <2>7. \A t \in Threads : pc'[t] \in Removing => rm'[t].key \in Keys
    BY <2>1, <2>4
  <2> QED
    BY <2>1, <2>3, <2>5, <2>6, <2>7, Zenon
<1>4. CASE Rebuild
  <2> DEFINE l == MaxOf(clock, index.clock)
             used(k) == IF meta[k] = None THEN disk[k].mtime ELSE MaxOf(disk[k].mtime, meta[k].access)
             recency(k) == IF k \in unflushed THEN used(k) ELSE disk[k].mtime
  <2>1. l \in Nat
    BY Zenon DEF MaxOf
  <2>2. \A k \in OnDisk : used(k) \in Nat /\ recency(k) \in Nat
    BY Zenon DEF OnDisk, Stats, Uses, MaxOf
  <2>3. \A k \in OnDisk : k \in Keys /\ Rank(k, l) \in Nat
    BY <2>1, RankType, Zenon DEF OnDisk
  <2>4. queue' = {[key |-> k, h |-> Rank(k, l), at |-> used(k), recency |-> recency(k)] : k \in OnDisk}
    BY <1>4, Zenon DEF Rebuild
  <2>5. queue' \subseteq Cands
    BY <2>2, <2>3, <2>4 DEF Cands
  <2>6. base' \in [Keys -> {None, Read} \cup Nat]
    BY <1>4, <2>1, Zenon DEF Rebuild
  <2> QED
    BY <1>4, <2>1, <2>5, <2>6, Zenon DEF Rebuild
<1>5. CASE EvictDone
  <2>1. index' \in [rank : [Keys -> {None} \cup Nat], clock : Nat]
    BY <1>5, Zenon DEF EvictDone, MaxOf
  <2>2. jobs' \in Seq([key : Keys, size : Sizes])
    <3>1. jobs # <<>> /\ jobs' = Tail(jobs)
      BY <1>5, Zenon DEF EvictDone
    <3> QED
      BY <3>1
  <2> QED
    BY <1>5, <2>1, <2>2, Zenon DEF EvictDone
<1> QED
  BY <1>1, <1>2, <1>3, <1>4, <1>5, Zenon

-----------------------------------------------------------------------------
(* Ranks.                                                                  *)

\* A step that leaves an entry and its bookkeeping alone leaves its
\* candidates' ranks current: the clock enters only the rank of one just read.
LEMMA SameRank ==
    ASSUME Current, NEW c \in queue \cup fresh,
           disk'[c.key] = disk[c.key], meta'[c.key] = meta[c.key],
           base'[c.key] = base[c.key], index'.rank[c.key] = index.rank[c.key],
           disk'[c.key] # None, ~TouchedSince(c)'
    PROVE  base'[c.key] # Read /\ c.h = Rank(c.key, clock)'
<1>1. ~TouchedSince(c)
  BY Zenon DEF TouchedSince
<1>2. base[c.key] # Read /\ c.h = Rank(c.key, clock)
  BY <1>1, Zenon DEF Current
<1> QED
  BY <1>2, Zenon DEF Rank, ValueOf

\* A candidate ranked before an entry's new mtime or access was used since.
LEMMA UsedSince ==
    ASSUME Types, Past, NEW c \in queue \cup fresh,
           \/ disk'[c.key] # None /\ disk'[c.key].mtime = now + 1
           \/ meta'[c.key] # None /\ meta'[c.key].access = now + 1
    PROVE  TouchedSince(c)'
<1>1. c.at \in Nat /\ c.at <= now /\ now \in Nat
  BY Zenon DEF Types, Past, Cands
<1> QED
  BY <1>1 DEF TouchedSince

\* remove_path drops the bookkeeping of entries that are gone.
LEMMA RemoveInv ==
    ASSUME RankInv, NEW t \in Threads,
           RemoveMeasure(t) \/ RemoveUnlink(t) \/ RemoveRefused(t) \/ RemoveAccount(t)
    PROVE  (Past /\ ReadsKnown /\ GoneFirst /\ Current)'
<1> DEFINE k == rm[t].key
<1>1. k \in Keys
  BY Zenon DEF RankInv, Types, RemoveMeasure, RemoveUnlink, RemoveRefused, RemoveAccount, At, Removing
<1>2. UNCHANGED <<queue, fresh, index, now, jobs>>
  BY Zenon DEF RemoveMeasure, RemoveUnlink, RemoveRefused, RemoveAccount, rankVars, useVars
<1>3. /\ disk' \in {disk, [disk EXCEPT ![k] = None]}
      /\ meta' \in {meta, [meta EXCEPT ![k] = None]}
      /\ base' \in {base, [base EXCEPT ![k] = None]}
  BY Zenon DEF RemoveMeasure, RemoveUnlink, RemoveRefused, RemoveAccount, rankVars, useVars
<1>4. disk'[k] # None => UNCHANGED <<meta, base>>
  BY <1>1, Zenon DEF RankInv, Types, GoneFirst, RemoveMeasure, RemoveUnlink, RemoveRefused, RemoveAccount, rankVars, useVars, At
<1>5. meta'[k] = None => base'[k] # Read
  <2>1. CASE RemoveAccount(t)
    <3>1. base' = [base EXCEPT ![k] = None] /\ None # Read
      BY <2>1, EvictionAssumption DEF RemoveAccount, Read
    <3> QED
      BY <1>1, <3>1, Zenon DEF RankInv, Types
  <2>2. CASE ~RemoveAccount(t)
    BY <1>1, <2>2, Zenon DEF RankInv, ReadsKnown, RemoveMeasure, RemoveUnlink, RemoveRefused, rankVars, useVars
  <2> QED
    BY <2>1, <2>2, Zenon
<1>6. \A j \in Keys \ {k} : disk'[j] = disk[j] /\ meta'[j] = meta[j] /\ base'[j] = base[j]
  BY <1>3, Zenon DEF RankInv, Types
<1>7. Past'
  BY <1>1, <1>2, <1>3, <1>6, Zenon DEF RankInv, Types, Past
<1>8. ReadsKnown'
  BY <1>5, <1>6, Zenon DEF RankInv, ReadsKnown
<1>9. GoneFirst'
  <2>1. \A u \in Threads \ {t} : pc'[u] = pc[u] /\ rm'[u] = rm[u]
    BY Zenon DEF RankInv, Types, RemoveMeasure, RemoveUnlink, RemoveRefused, RemoveAccount, Goto
  <2>2. \A u \in Threads \ {t} : pc'[u] = "account" => disk'[rm'[u].key] = None
    BY <1>3, <2>1 DEF RankInv, Types, GoneFirst, Removing
  <2>3. pc'[t] \in Removing => pc[t] \in Removing /\ rm'[t].key = k
    BY DEF RankInv, Types, RemoveMeasure, RemoveUnlink, RemoveRefused, RemoveAccount, At, Goto, Removing, Worker
  <2>4. pc'[t] = "account" => disk'[k] = None
    BY <1>1, Zenon DEF RankInv, Types, RemoveMeasure, RemoveUnlink, RemoveRefused, RemoveAccount, At, Goto, Worker
  <2>5. pc'[Caller] \in Removing => pc[Caller] \in Removing /\ rm'[Caller].key = rm[Caller].key
    BY <2>1, <2>3, Zenon DEF Threads
  <2>6. \A u \in Threads : pc'[u] = "account" => disk'[rm'[u].key] = None
    BY <2>2, <2>3, <2>4, Zenon DEF Removing
  <2> QED
    BY <1>2, <2>5, <2>6, Zenon DEF RankInv, GoneFirst
<1>10. Current'
  <2> SUFFICES ASSUME NEW c \in queue \cup fresh, disk'[c.key] # None, ~TouchedSince(c)'
               PROVE  base'[c.key] # Read /\ c.h = Rank(c.key, clock)'
    BY <1>2, Zenon DEF Current
  <2>1. c.key \in Keys
    BY Zenon DEF RankInv, Types, Cands
  <2>2. meta'[c.key] = meta[c.key] /\ base'[c.key] = base[c.key]
    BY <1>4, <1>6, <2>1, Zenon
  <2>3. disk'[c.key] = disk[c.key]
    BY <1>1, <1>3, <2>1, Zenon DEF RankInv, Types
  <2> QED
    BY <1>2, <2>2, <2>3, SameRank, Zenon DEF RankInv
<1> QED
  BY <1>7, <1>8, <1>9, <1>10, Zenon

\* A read makes its entry's candidates used; a delete begins with no write of
\* its key queued.
LEMMA CallerInv ==
    ASSUME RankInv, NEW k \in Keys,
           Get(k) \/ Delete(k) \/ Clear \/ \E size \in Sizes : Schedule(k, size)
    PROVE  (Past /\ ReadsKnown /\ GoneFirst /\ Current)'
<1>1. CASE Get(k)
  <2> DEFINE use == [access |-> now + 1, reads |-> IF meta[k] = None THEN 1 ELSE meta[k].reads + 1]
  <2>1. /\ meta' = [meta EXCEPT ![k] = use] /\ base' = [base EXCEPT ![k] = Read]
        /\ now' = now + 1
        /\ UNCHANGED <<disk, queue, fresh, clock, index, jobs, pc, rm>>
    BY <1>1, Zenon DEF Get
  <2>2. use \in Uses /\ use # None
    <3>1. use \in Uses
      BY DEF RankInv, Types, Uses
    <3> QED
      BY <3>1, EvictionAssumption, Zenon DEF Uses
  <2>3. meta'[k] = use /\ use.access = now + 1
    BY <2>1, Zenon DEF RankInv, Types
  <2>4. \A j \in Keys \ {k} : meta'[j] = meta[j] /\ base'[j] = base[j]
    BY <2>1, Zenon DEF RankInv, Types
  <2> HIDE DEF use
  <2>5. Past'
    <3>1. \A j \in Keys : disk'[j] # None => disk'[j].mtime <= now'
      BY <2>1 DEF RankInv, Types, Past, Stats
    <3>2. \A j \in Keys : meta'[j] # None => meta'[j].access <= now'
      BY <2>1, <2>3, <2>4 DEF RankInv, Types, Past, Uses
    <3>3. \A c \in queue' \cup fresh' : c.at <= now'
      BY <2>1 DEF RankInv, Types, Past, Cands
    <3> QED
      BY <3>1, <3>2, <3>3, Zenon DEF Past
  <2>6. ReadsKnown'
    BY <2>2, <2>3, <2>4, Zenon DEF RankInv, ReadsKnown
  <2>7. GoneFirst'
    BY <2>1, Zenon DEF RankInv, GoneFirst
  <2>8. Current'
    <3> SUFFICES ASSUME NEW c \in queue \cup fresh, disk'[c.key] # None, ~TouchedSince(c)'
                 PROVE  base'[c.key] # Read /\ c.h = Rank(c.key, clock)'
      BY <2>1, Zenon DEF Current
    <3>1. c.key # k
      BY <2>2, <2>3, UsedSince, Zenon DEF RankInv
    <3>2. c.key \in Keys
      BY Zenon DEF RankInv, Types, Cands
    <3> QED
      BY <2>1, <2>4, <3>1, <3>2, SameRank, Zenon DEF RankInv
  <2> QED
    BY <2>5, <2>6, <2>7, <2>8, Zenon
<1>2. CASE Delete(k)
  <2>1. /\ UNCHANGED <<disk, meta, base, index, clock, now, queue, fresh, jobs>>
        /\ rm' = [rm EXCEPT ![Caller] = [NoRemoval EXCEPT !.key = k]]
        /\ pc' = [pc EXCEPT ![Caller] = "measure"] /\ ~Pending(k)
    BY <1>2, Zenon DEF Delete, Goto, rankVars, useVars
  <2>2. GoneFirst'
    <3>1. pc'[Caller] = "measure" /\ rm'[Caller].key = k
      BY <2>1, Zenon DEF RankInv, Types, Threads, NoRemoval
    <3>2. pc'[Worker] = pc[Worker] /\ rm'[Worker] = rm[Worker]
      BY <2>1, Zenon DEF RankInv, Types, Threads, Worker, Caller
    <3> QED
      BY <2>1, <3>1, <3>2, Zenon DEF RankInv, GoneFirst, Threads, Pending
  <2>3. Past' /\ ReadsKnown'
    BY <2>1, Zenon DEF RankInv, Past, ReadsKnown
  <2>4. Current'
    BY <2>1, Zenon DEF RankInv, Current, TouchedSince, Rank, ValueOf
  <2> QED
    BY <2>2, <2>3, <2>4, Zenon
<1>3. CASE Clear
  <2>1. None # Read
    BY EvictionAssumption DEF Read
  <2> QED
    BY <1>3, <2>1, Zenon DEF Clear, RankInv, Types, Past, ReadsKnown, GoneFirst, Current, Removing, Does, At, Threads
<1>4. CASE \E size \in Sizes : Schedule(k, size)
  <2>1. /\ UNCHANGED <<disk, meta, base, index, clock, now, queue, fresh, pc, rm>>
        /\ pc[Caller] = "idle"
    BY <1>4, Zenon DEF Schedule, Does, At, rankVars, useVars
  <2>2. Past' /\ ReadsKnown' /\ GoneFirst'
    BY <2>1, Zenon DEF RankInv, Past, ReadsKnown, GoneFirst, Removing
  <2>3. Current'
    BY <2>1, Zenon DEF RankInv, Current, TouchedSince, Rank, ValueOf
  <2> QED
    BY <2>2, <2>3, Zenon
<1> QED
  BY <1>1, <1>2, <1>3, <1>4, Zenon

\* A flushed read shows in the entry's mtime.
LEMMA FlushInv ==
    ASSUME RankInv, NEW k \in Keys, FlushRead(k)
    PROVE  (Past /\ ReadsKnown /\ GoneFirst /\ Current)'
<1>1. UNCHANGED <<queue, fresh, meta, jobs, pc, rm>>
  BY Zenon DEF FlushRead
<1>2. CASE disk[k] = None
  <2>1. UNCHANGED <<now, disk, base, index>>
    BY <1>2, Zenon DEF FlushRead
  <2>2. Past' /\ ReadsKnown' /\ GoneFirst'
    BY <1>1, <2>1, Zenon DEF RankInv, Past, ReadsKnown, GoneFirst
  <2>3. Current'
    <3> SUFFICES ASSUME NEW c \in queue \cup fresh, disk'[c.key] # None, ~TouchedSince(c)'
                 PROVE  base'[c.key] # Read /\ c.h = Rank(c.key, clock)'
      BY <1>1, Zenon DEF Current
    <3> QED
      BY <1>1, <2>1, SameRank, Zenon DEF RankInv
  <2> QED
    BY <2>2, <2>3, Zenon
<1>3. CASE disk[k] # None
  <2> DEFINE from == IF base[k] \in {None, Read} THEN Loaded ELSE base[k]
  <2>1. /\ now' = now + 1 /\ disk' = [disk EXCEPT ![k].mtime = now + 1]
        /\ base' = [base EXCEPT ![k] = from]
        /\ index' = [index EXCEPT !.rank[k] = from + ValueOf(k, meta[k], disk[k].size)]
    BY <1>3, Zenon DEF FlushRead
  <2>2. from \in Nat
    BY LoadedType, Zenon DEF RankInv, Types
  <2> HIDE DEF from
  <2>3. disk'[k] # None /\ disk'[k].mtime = now + 1
    <3>1. disk[k] \in Stats /\ disk'[k] = [disk[k] EXCEPT !.mtime = now + 1]
      BY <1>3, <2>1, Zenon DEF RankInv, Types
    <3>2. disk'[k] \in [size : Nat, mtime : Nat] /\ disk'[k].mtime = now + 1
      <4>1. Sizes \subseteq Nat /\ now + 1 \in Nat
        BY EvictionAssumption DEF RankInv, Types
      <4> QED
        BY <3>1, <4>1, Zenon DEF Stats
    <3> QED
      BY <3>2, EvictionAssumption, Zenon
  <2>4. \A j \in Keys \ {k} : disk'[j] = disk[j] /\ base'[j] = base[j] /\ index'.rank[j] = index.rank[j]
    BY <2>1, Zenon DEF RankInv, Types
  <2>5. base'[k] # Read
    BY <2>1, <2>2 DEF RankInv, Types, Read
  <2>6. Past'
    <3>1. \A j \in Keys : disk'[j] # None => disk'[j].mtime <= now'
      BY <2>1, <2>3, <2>4 DEF RankInv, Types, Past, Stats
    <3>2. \A j \in Keys : meta'[j] # None => meta'[j].access <= now'
      BY <1>1, <2>1 DEF RankInv, Types, Past, Uses
    <3>3. \A c \in queue' \cup fresh' : c.at <= now'
      BY <1>1, <2>1 DEF RankInv, Types, Past, Cands
    <3> QED
      BY <3>1, <3>2, <3>3, Zenon DEF Past
  <2>7. ReadsKnown'
    BY <1>1, <2>4, <2>5, Zenon DEF RankInv, ReadsKnown
  <2>8. GoneFirst'
    BY <1>1, <1>3, <2>4, Zenon DEF RankInv, Types, GoneFirst, Removing
  <2>9. Current'
    <3> SUFFICES ASSUME NEW c \in queue \cup fresh, disk'[c.key] # None, ~TouchedSince(c)'
                 PROVE  base'[c.key] # Read /\ c.h = Rank(c.key, clock)'
      BY <1>1, Zenon DEF Current
    <3>1. c.key # k
      BY <2>3, UsedSince, Zenon DEF RankInv
    <3>2. c.key \in Keys
      BY Zenon DEF RankInv, Types, Cands
    <3> QED
      BY <1>1, <2>4, <3>1, <3>2, SameRank, Zenon DEF RankInv
  <2> QED
    BY <2>6, <2>7, <2>8, <2>9, Zenon
<1> QED
  BY <1>2, <1>3, Zenon

\* A write is newer than its key's candidates, and its own is ranked as
\* rebuild_queue would rank it.
LEMMA LandInv ==
    ASSUME RankInv, Land
    PROVE  (Past /\ ReadsKnown /\ GoneFirst /\ Current)'
<1>1. jobs # <<>> /\ pc[Worker] = "idle"
  BY Zenon DEF Land, At
<1>2. PICK k \in Keys, size \in Sizes :
          k = jobs[1].key /\ size = jobs[1].size /\ 1 \in 1 .. Len(jobs)
  <2>1. jobs[1] \in [key : Keys, size : Sizes]
    BY <1>1, FirstOf, Zenon DEF RankInv, Types
  <2>2. 1 \in 1 .. Len(jobs)
    BY <1>1 DEF RankInv, Types
  <2> QED
    BY <2>1, <2>2, Zenon
<1> DEFINE stat == [size |-> size, mtime |-> now + 1]
           use == [access |-> 0, reads |-> 0]
           h == Loaded + ValueOf(k, use, size)
           new == [key |-> k, h |-> h, at |-> now + 1, recency |-> now + 1]
<1>3. /\ now' = now + 1 /\ disk' = [disk EXCEPT ![k] = stat]
      /\ meta' = [meta EXCEPT ![k] = use] /\ base' = [base EXCEPT ![k] = Loaded]
      /\ index' = [index EXCEPT !.rank[k] = h]
      /\ fresh' \in {fresh, fresh \cup {new}}
      /\ UNCHANGED <<queue, jobs, rm>> /\ pc' = [pc EXCEPT ![Worker] = "begin"]
  BY <1>2, Zenon DEF Land, RecordRank, Goto
<1>4. Loaded \in Nat /\ now \in Nat
  BY LoadedType, Zenon DEF RankInv, Types
<1>5. use # None /\ stat # None
  <2>1. use \in [access : Nat, reads : Nat]
    OBVIOUS
  <2>2. size \in Nat
    BY <1>2, EvictionAssumption, Zenon
  <2>3. stat \in [size : Nat, mtime : Nat]
    BY <1>4, <2>2
  <2> QED
    BY <2>1, <2>3, EvictionAssumption, Zenon
<1>6. disk'[k] = stat /\ meta'[k] = use /\ base'[k] = Loaded
  BY <1>2, <1>3, Zenon DEF RankInv, Types
<1>7. \A j \in Keys \ {k} : /\ disk'[j] = disk[j] /\ meta'[j] = meta[j]
                            /\ base'[j] = base[j] /\ index'.rank[j] = index.rank[j]
  BY <1>3, Zenon DEF RankInv, Types
<1>8. stat.mtime = now + 1 /\ stat.size = size /\ use.access = 0
  OBVIOUS
<1>9. new.key = k /\ new.h = h /\ new.at = now + 1
  OBVIOUS
<1>10. base'[k] # Read /\ base'[k] # None
  BY <1>4, <1>6, EvictionAssumption DEF Read
<1>11. Rank(k, clock)' = h
  <2>1. Rank(k, clock)' = base'[k] + ValueOf(k, meta'[k], disk'[k].size)
    BY <1>5, <1>6, <1>10, Zenon DEF Rank, ValueOf
  <2> QED
    BY <1>6, <1>8, <2>1, Zenon
<1> HIDE DEF stat, use, h, new
<1>12. Past'
  <2>1. \A j \in Keys : disk'[j] # None => disk'[j].mtime <= now'
    BY <1>3, <1>4, <1>6, <1>7, <1>8 DEF RankInv, Types, Past, Stats
  <2>2. \A j \in Keys : meta'[j] # None => meta'[j].access <= now'
    BY <1>3, <1>4, <1>6, <1>7, <1>8 DEF RankInv, Types, Past, Uses
  <2>3. \A c \in queue' \cup fresh' : c.at <= now'
    BY <1>3, <1>4, <1>9 DEF RankInv, Types, Past, Cands
  <2> QED
    BY <2>1, <2>2, <2>3, Zenon DEF Past
<1>13. ReadsKnown'
  BY <1>7, <1>10, Zenon DEF RankInv, ReadsKnown
<1>14. GoneFirst'
  <2>1. pc'[Worker] = "begin" /\ pc'[Caller] = pc[Caller]
    BY <1>3, Zenon DEF RankInv, Types, Threads, Worker, Caller
  <2>2. pc[Caller] \in Removing => rm[Caller].key # k
    BY <1>2, Zenon DEF RankInv, GoneFirst
  <2>3. pc[Caller] = "account" => disk'[rm[Caller].key] = None
    BY <1>7, <2>2, Zenon DEF RankInv, Types, GoneFirst, Threads, Removing
  <2> QED
    BY <1>3, <2>1, <2>3, Zenon DEF RankInv, GoneFirst, Threads
<1>15. Current'
  <2> SUFFICES ASSUME NEW c \in queue' \cup fresh', disk'[c.key] # None, ~TouchedSince(c)'
               PROVE  base'[c.key] # Read /\ c.h = Rank(c.key, clock)'
    BY Zenon DEF Current
  <2>1. CASE c = new
    BY <1>9, <1>10, <1>11, <2>1, Zenon
  <2>2. CASE c # new
    <3>1. c \in queue \cup fresh
      BY <1>3, <2>2, Zenon
    <3>2. c.key # k
      BY <1>5, <1>6, <1>8, <3>1, UsedSince, Zenon DEF RankInv
    <3>3. c.key \in Keys
      BY <3>1, Zenon DEF RankInv, Types, Cands
    <3> QED
      BY <1>7, <3>1, <3>2, <3>3, SameRank, Zenon DEF RankInv
  <2> QED
    BY <2>1, <2>2, Zenon
<1> QED
  BY <1>12, <1>13, <1>14, <1>15, Zenon

\* rebuild_queue settles the clock each read entry is ranked at.
LEMMA RebuildInv ==
    ASSUME RankInv, Rebuild
    PROVE  (Past /\ ReadsKnown /\ GoneFirst /\ Current)'
<1> DEFINE l == MaxOf(clock, index.clock)
           used(k) == IF meta[k] = None THEN disk[k].mtime ELSE MaxOf(disk[k].mtime, meta[k].access)
           recency(k) == IF k \in unflushed THEN used(k) ELSE disk[k].mtime
<1>1. /\ clock' = l
      /\ base' = [k \in Keys |-> IF k \in OnDisk /\ meta[k] # None /\ base[k] = Read THEN l ELSE base[k]]
      /\ queue' = {[key |-> k, h |-> Rank(k, l), at |-> used(k), recency |-> recency(k)] : k \in OnDisk}
      /\ fresh = {}
      /\ UNCHANGED <<disk, fresh, index, meta, now, jobs, pc, rm>>
  BY Zenon DEF Rebuild, useVars
<1>2. l \in Nat /\ Read \notin Nat
  BY DEF RankInv, Types, MaxOf, Read
<1>3. \A k \in OnDisk : k \in Keys /\ used(k) <= now
  BY Zenon DEF RankInv, Types, Past, OnDisk, MaxOf, Stats, Uses
<1> HIDE DEF l, used, recency
<1>4. \A c \in queue' : \E k \in OnDisk : c.key = k /\ c.h = Rank(k, l) /\ c.at = used(k)
  BY <1>1
<1>5. Past'
  <2>1. \A c \in queue' \cup fresh' : c.at <= now'
    BY <1>1, <1>3, <1>4, Zenon
  <2> QED
    BY <1>1, <2>1, Zenon DEF RankInv, Past
<1>6. \A k \in Keys : base'[k] # Read \/ (k \notin OnDisk /\ base'[k] = base[k] /\ meta[k] # None)
  BY <1>1, <1>2, Zenon DEF RankInv, ReadsKnown
<1>7. ReadsKnown'
  BY <1>1, <1>6, Zenon DEF RankInv, ReadsKnown
<1>8. GoneFirst'
  BY <1>1, Zenon DEF RankInv, GoneFirst
<1>9. Current'
  <2> SUFFICES ASSUME NEW c \in queue', disk'[c.key] # None, ~TouchedSince(c)'
               PROVE  base'[c.key] # Read /\ c.h = Rank(c.key, clock)'
    BY <1>1, Zenon DEF Current
  <2>1. PICK k \in OnDisk : c.key = k /\ c.h = Rank(k, l)
    BY <1>4, Zenon
  <2>2. k \in Keys
    BY <1>3, <2>1, Zenon
  <2>3. base'[k] # Read
    BY <1>6, <2>1, <2>2, Zenon
  <2>4. Rank(k, clock)' = Rank(k, l)
    <3>0. /\ UNCHANGED <<meta, disk, index>> /\ clock' = l
          /\ base'[k] = IF k \in OnDisk /\ meta[k] # None /\ base[k] = Read THEN l ELSE base[k]
      BY <1>1, <2>2, Zenon
    <3>1. CASE meta[k] # None /\ base[k] = Read
      <4>1. base'[k] = l
        BY <2>1, <3>0, <3>1, Zenon
      <4>2. Read # None /\ l # None
        <5>1. None \notin Int
          BY EvictionAssumption, Zenon
        <5> QED
          BY <1>2, <5>1 DEF Read
      <4>3. Rank(k, l) = l + ValueOf(k, meta[k], disk[k].size)
        BY <3>1, <4>2, Zenon DEF Rank
      <4>4. Rank(k, clock)' = base'[k] + ValueOf(k, meta[k], disk[k].size)
        BY <2>3, <3>0, <3>1, <4>1, <4>2, Zenon DEF Rank, ValueOf
      <4> QED
        BY <4>1, <4>3, <4>4, Zenon
    <3>2. CASE ~(meta[k] # None /\ base[k] = Read)
      <4>1. base'[k] = base[k]
        BY <3>0, <3>2, Zenon
      <4> QED
        BY <3>0, <3>2, <4>1, Zenon DEF Rank, ValueOf
    <3> QED
      BY <3>1, <3>2, Zenon
  <2> QED
    BY <2>1, <2>3, <2>4, Zenon
<1> QED
  BY <1>5, <1>7, <1>8, <1>9, Zenon

\* The other steps of evict only drop candidates.
LEMMA PassInv ==
    ASSUME RankInv,
           Scan \/ Adopt \/ EvictBegin \/ Consider \/ LoopEnds \/ EvictDone
    PROVE  (Past /\ ReadsKnown /\ GoneFirst /\ Current)'
<1>1. /\ UNCHANGED <<disk, meta, base, clock, now>> /\ index'.rank = index.rank
      /\ queue' \subseteq queue /\ fresh' \subseteq fresh
  BY Zenon DEF RankInv, Types, Scan, Adopt, EvictBegin, Consider, LoopEnds, EvictDone, rankVars, useVars
<1>2. pc'[Worker] # "account" /\ pc'[Caller] = pc[Caller] /\ rm'[Caller] = rm[Caller]
  BY Zenon DEF RankInv, Types, Scan, Adopt, EvictBegin, Consider, LoopEnds, EvictDone, Goto, At, Threads, Worker, Caller
<1>3. \A i \in 1 .. Len(jobs') : \E j \in 1 .. Len(jobs) : jobs'[i] = jobs[j]
  <2>1. CASE EvictDone
    <3>1. jobs' = Tail(jobs) /\ jobs # <<>> /\ jobs \in Seq([key : Keys, size : Sizes])
      BY <2>1, Zenon DEF EvictDone, RankInv, Types, At
    <3>2. \A i \in 1 .. Len(Tail(jobs)) : i + 1 \in 1 .. Len(jobs) /\ Tail(jobs)[i] = jobs[i + 1]
      BY <3>1
    <3> QED
      BY <3>1, <3>2, Zenon
  <2>2. CASE ~EvictDone
    BY <2>2, Zenon DEF Scan, Adopt, EvictBegin, Consider, LoopEnds
  <2> QED
    BY <2>1, <2>2, Zenon
<1>4. Past' /\ ReadsKnown'
  BY <1>1, Zenon DEF RankInv, Past, ReadsKnown
<1>5. GoneFirst'
  BY <1>1, <1>2, <1>3, Zenon DEF RankInv, GoneFirst, Threads
<1>6. Current'
  <2> SUFFICES ASSUME NEW c \in queue \cup fresh, disk'[c.key] # None, ~TouchedSince(c)'
               PROVE  base'[c.key] # Read /\ c.h = Rank(c.key, clock)'
    BY <1>1, Zenon DEF Current
  <2> QED
    BY <1>1, SameRank, Zenon DEF RankInv
<1> QED
  BY <1>4, <1>5, <1>6, Zenon

-----------------------------------------------------------------------------
\* A process starts with nothing ranked.
LEMMA RankInit == Init => RankInv
<1> SUFFICES ASSUME Init PROVE RankInv
  OBVIOUS
<1>1. Types
  <2>1. disk \in [Keys -> {None} \cup Stats]
    <3>1. [size : Sizes, mtime : {0}] \subseteq Stats
      BY DEF Stats
    <3>2. disk \in [Keys -> {None} \cup [size : Sizes, mtime : {0}]]
      BY Zenon DEF Init
    <3> QED
      BY <3>1, <3>2, Zenon
  <2>2. index \in [rank : [Keys -> {None} \cup Nat], clock : Nat]
    BY DEF Init
  <2>3. NoRemoval \in [key : {None} \cup Keys, freed : Nat, rank : Nat]
    BY Zenon DEF NoRemoval
  <2> QED
    BY <2>1, <2>2, <2>3 DEF Init, Types, Threads, Places, Removing
<1>2. None # Read
  BY EvictionAssumption DEF Read
<1>3. Past
  BY DEF Init, Past
<1>4. ReadsKnown /\ GoneFirst /\ Current
  BY <1>2, Zenon DEF Init, ReadsKnown, GoneFirst, Current, Threads, Removing
<1> QED
  BY <1>1, <1>3, <1>4, Zenon DEF RankInv

\* Every step keeps RankInv.
LEMMA RankNext == RankInv /\ [Next]_vars => RankInv'
<1> SUFFICES ASSUME RankInv, [Next]_vars PROVE RankInv'
  OBVIOUS
<1>1. CASE \E t \in Threads : RemoveMeasure(t) \/ RemoveUnlink(t) \/ RemoveRefused(t) \/ RemoveAccount(t)
  BY <1>1, RemoveTypes, RemoveInv, Zenon DEF RankInv
<1>2. CASE \E k \in Keys : Get(k) \/ Delete(k) \/ \E size \in Sizes : Schedule(k, size)
  BY <1>2, CallerTypes, CallerInv, Zenon DEF RankInv
<1>3. CASE Clear
  <2>1. CASE \E k \in Keys : TRUE
    BY <1>3, <2>1, CallerTypes, CallerInv, Zenon DEF RankInv
  <2>2. CASE Keys = {}
    <3>1. Types'
      BY <1>3, <2>2, Zenon DEF Clear, RankInv, Types, Does
    <3>2. (Past /\ ReadsKnown /\ GoneFirst /\ Current)'
      BY <1>3, <2>2, Zenon DEF Clear, RankInv, Types, Past, ReadsKnown, GoneFirst, Current, Does, Removing, Threads, At
    <3> QED
      BY <3>1, <3>2, Zenon DEF RankInv
  <2> QED
    BY <2>1, <2>2, Zenon
<1>4. CASE \E k \in Keys : FlushRead(k)
  BY <1>4, CallerTypes, FlushInv, Zenon DEF RankInv
<1>5. CASE Land
  BY <1>5, WorkerTypes, LandInv, Zenon DEF RankInv
<1>6. CASE Rebuild
  BY <1>6, WorkerTypes, RebuildInv, Zenon DEF RankInv
<1>7. CASE Scan \/ Adopt \/ EvictBegin \/ Consider \/ LoopEnds \/ EvictDone
  BY <1>7, WorkerTypes, PassInv, Zenon DEF RankInv
<1>8. CASE UNCHANGED vars
  <2>1. UNCHANGED <<disk, index, now, clock, base, meta, queue, fresh, jobs, pc, rm>>
    BY <1>8, Zenon DEF vars, rankVars, countVars, useVars
  <2>2. Types' /\ Past' /\ ReadsKnown' /\ GoneFirst'
    BY <2>1, Zenon DEF RankInv, Types, Past, ReadsKnown, GoneFirst
  <2>3. Current'
    BY <2>1, Zenon DEF RankInv, Current, TouchedSince, Rank, ValueOf
  <2> QED
    BY <2>2, <2>3, Zenon DEF RankInv
<1> QED
  BY <1>1, <1>2, <1>3, <1>4, <1>5, <1>6, <1>7, <1>8, Zenon DEF Next, WorkerStep, CallerStep, Threads

\* However reads, flushes, writes, deletes and passes of evict interleave, the
\* candidates evict has not seen used since they were ranked are queued at the
\* ranks the bookkeeping gives them now.
THEOREM RanksStayCurrent == Spec => []RanksCurrent
<1>1. RankInv => RanksCurrent
  BY Zenon DEF RankInv, Current, RanksCurrent, Candidates
<1> QED
  BY <1>1, RankInit, RankNext, PTL DEF Spec

-----------------------------------------------------------------------------
(* Bytes.                                                                  *)

Disks == [Keys -> {None} \cup Stats]
Held(d) == {k \in Keys : d[k] # None}
Bytes(d, S) == UNION {{k} \X (1 .. d[k].size) : k \in S}
BytesIn(d) == Cardinality(Bytes(d, Held(d)))

\* What Total counts.
LEMMA TotalIs == Total(OnDisk) = BytesIn(disk)
BY Zenon DEF Total, OnDisk, BytesOf, BytesIn, Bytes, Held

\* An entry of n bytes has n bytes.
LEMMA ByteCount ==
    ASSUME NEW k, NEW n \in Nat
    PROVE  IsFiniteSet({k} \X (1 .. n)) /\ Cardinality({k} \X (1 .. n)) = n
<1>1. 1 \in Int /\ n \in Int
  OBVIOUS
<1>2. PICK T : T = 1 .. n
  OBVIOUS
<1>3. IsFiniteSet(T) /\ Cardinality(T) = IF 1 > n THEN 0 ELSE n - 1 + 1
  BY <1>1, <1>2, FS_Interval, Zenon
<1>4. Cardinality(T) = n
  BY <1>3
<1>5. PICK S : S = {k}
  OBVIOUS
<1>6. IsFiniteSet(S) /\ Cardinality(S) = 1
  BY <1>5, FS_Singleton, Zenon
<1>7. IsFiniteSet(S \X T) /\ Cardinality(S \X T) = Cardinality(S) * Cardinality(T)
  BY <1>3, <1>6, FS_Product, Zenon
<1>8. Cardinality(S \X T) = n
  BY <1>4, <1>6, <1>7
<1> QED
  BY <1>2, <1>5, <1>7, <1>8, Zenon

\* A directory has finitely many bytes.
LEMMA BytesFinite ==
    ASSUME NEW d \in Disks, NEW S \in SUBSET Held(d)
    PROVE  IsFiniteSet(Bytes(d, S))
<1> DEFINE f == [k \in S |-> {k} \X (1 .. d[k].size)]
           T == {{k} \X (1 .. d[k].size) : k \in S}
<1>1. IsFiniteSet(S)
  <2>1. S \in SUBSET Keys /\ IsFiniteSet(Keys)
    BY EvictionAssumption, Zenon DEF Held
  <2> QED
    BY <2>1, FS_Subset, Zenon
<1>2. f \in Surjection(S, T)
  BY Zenon DEF Surjection
<1>3. IsFiniteSet(T)
  BY <1>1, <1>2, FS_Surjection, Zenon
<1>4. \A x \in T : IsFiniteSet(x)
  <2> SUFFICES ASSUME NEW k \in S PROVE IsFiniteSet({k} \X (1 .. d[k].size))
    OBVIOUS
  <2>1. k \in Keys /\ d[k] \in Stats
    BY Zenon DEF Disks, Held
  <2>2. d[k].size \in Sizes
    BY <2>1, Zenon DEF Stats
  <2>3. d[k].size \in Nat
    BY <2>2, EvictionAssumption, Zenon
  <2> QED
    BY <2>3, ByteCount, Zenon
<1> HIDE DEF f, T
<1>5. IsFiniteSet(UNION T)
  BY <1>3, <1>4, FS_UNION, Zenon
<1> QED
  BY <1>5, Zenon DEF Bytes, T

\* Entries of the same sizes have the same bytes.
LEMMA SameBytes ==
    ASSUME NEW d, NEW e, NEW S, \A k \in S : d[k].size = e[k].size
    PROVE  Bytes(d, S) = Bytes(e, S)
BY Zenon DEF Bytes

\* An entry that goes takes its bytes along.
LEMMA Unlinked ==
    ASSUME NEW d \in Disks, NEW k \in Keys
    PROVE  /\ BytesIn(d) \in Nat /\ BytesIn([d EXCEPT ![k] = None]) \in Nat
           /\ BytesIn(d) = BytesIn([d EXCEPT ![k] = None]) + IF d[k] = None THEN 0 ELSE d[k].size
<1> DEFINE e == [d EXCEPT ![k] = None]
           B == {k} \X (1 .. d[k].size)
<1>1. e \in Disks /\ Held(e) = Held(d) \ {k} /\ \A j \in Held(e) : e[j] = d[j]
  BY Zenon DEF Disks, Held
<1> HIDE DEF e
<1>2. IsFiniteSet(Bytes(d, Held(d))) /\ IsFiniteSet(Bytes(e, Held(e)))
  BY <1>1, BytesFinite, Zenon
<1>3. BytesIn(d) \in Nat /\ BytesIn(e) \in Nat
  BY <1>2, FS_CardinalityType, Zenon DEF BytesIn
<1>4. Bytes(e, Held(e)) = Bytes(d, Held(e))
  BY <1>1, SameBytes
<1>5. CASE d[k] = None
  <2>1. Held(e) = Held(d)
    BY <1>1, <1>5, Zenon DEF Held
  <2>2. BytesIn(e) = BytesIn(d)
    BY <1>4, <2>1, Zenon DEF BytesIn
  <2> QED
    BY <1>3, <1>5, <2>2 DEF e
<1>6. CASE d[k] # None
  <2>1. d[k].size \in Nat
    BY <1>6, EvictionAssumption, Zenon DEF Disks, Stats
  <2>2. IsFiniteSet(B) /\ Cardinality(B) = d[k].size
    BY <2>1, ByteCount, Zenon
  <2>3. Bytes(d, Held(d)) = Bytes(e, Held(e)) \cup B
    <3>1. k \in Held(d) /\ Held(d) = Held(e) \cup {k}
      BY <1>1, <1>6, Zenon DEF Held
    <3> QED
      BY <1>4, <3>1 DEF Bytes
  <2>4. Bytes(e, Held(e)) \cap B = {}
    BY <1>1, <1>4 DEF Bytes
  <2> HIDE DEF B
  <2>5. Cardinality(Bytes(d, Held(d))) = Cardinality(Bytes(e, Held(e))) + Cardinality(B) - Cardinality({})
    BY <1>2, <2>2, <2>3, <2>4, FS_Union
  <2>6. Cardinality({}) = 0
    BY FS_EmptySet, Zenon
  <2> QED
    BY <1>3, <1>6, <2>1, <2>2, <2>5, <2>6 DEF BytesIn, e
<1> QED
  BY <1>5, <1>6, Zenon

\* An entry that is written brings its own, and the older one's go.
LEMMA Written ==
    ASSUME NEW d \in Disks, NEW k \in Keys, NEW entry \in Stats, entry # None
    PROVE  BytesIn([d EXCEPT ![k] = entry]) = BytesIn(d) + entry.size - IF d[k] = None THEN 0 ELSE d[k].size
<1> DEFINE e == [d EXCEPT ![k] = entry]
<1>1. e \in Disks /\ e[k] = entry /\ [e EXCEPT ![k] = None] = [d EXCEPT ![k] = None]
  BY Zenon DEF Disks
<1> HIDE DEF e
<1>2. PICK n : n = BytesIn([d EXCEPT ![k] = None])
  OBVIOUS
<1>3. n \in Nat /\ BytesIn(d) = n + (IF d[k] = None THEN 0 ELSE d[k].size)
  BY <1>2, Unlinked, Zenon
<1>4. BytesIn(e) = n + entry.size
  <2>1. BytesIn(e) = BytesIn([e EXCEPT ![k] = None]) + IF e[k] = None THEN 0 ELSE e[k].size
    BY <1>1, Unlinked, Zenon
  <2> QED
    BY <1>1, <1>2, <2>1, Zenon
<1>5. entry.size \in Nat /\ (d[k] # None => d[k].size \in Nat)
  BY EvictionAssumption, Zenon DEF Disks, Stats
<1> QED
  BY <1>3, <1>4, <1>5 DEF e

\* A new mtime changes no size.
LEMMA Touched ==
    ASSUME NEW d \in Disks, NEW k \in Keys, d[k] # None, NEW t \in Nat
    PROVE  BytesIn([d EXCEPT ![k].mtime = t]) = BytesIn(d)
<1> DEFINE entry == [d[k] EXCEPT !.mtime = t]
<1>1. d[k] \in Stats
  BY Zenon DEF Disks
<1>2. entry \in Stats /\ entry.size = d[k].size
  BY <1>1, Zenon DEF Stats
<1>3. entry # None
  <2>1. entry \in [size : Nat, mtime : Nat]
    BY <1>2, EvictionAssumption, Zenon DEF Stats
  <2> QED
    BY <2>1, EvictionAssumption, Zenon
<1>4. BytesIn(d) \in Nat /\ d[k].size \in Nat
  BY <1>1, Unlinked, EvictionAssumption, Zenon DEF Stats
<1> HIDE DEF entry
<1>5. BytesIn([d EXCEPT ![k] = entry]) = BytesIn(d) + entry.size - d[k].size
  BY <1>2, <1>3, Written, Zenon
<1> QED
  BY <1>2, <1>4, <1>5 DEF entry

\* The bytes a thread's removal has freed and not yet taken off the count.
Taken(t) == IF pc[t] = "account" THEN rm[t].freed ELSE 0

\* The count is right but for the removals under way; what the walk found is
\* right until the count adopts it.
Counted ==
    /\ bytes \in Int /\ {scanned, overlapped} \subseteq BOOLEAN
    /\ scanned /\ ~overlapped /\ pc[Worker] # "adopt"
           => bytes = BytesIn(disk) + Taken(Worker) + Taken(Caller)
    /\ pc[Worker] = "adopt" /\ ~overlapped => pc[Caller] # "account" /\ pass.scan = BytesIn(disk)
    /\ pc[Worker] \in {"loop", "done"} \cup Removing => scanned

\* A removal measured what it is about to unlink.
Measured ==
    \A t \in Threads : pc[t] = "unlink" /\ disk[rm[t].key] # None => rm[t].freed = disk[rm[t].key].size

\* A pass that ranked every entry has passed over it, has it still to consider,
\* is removing it, or it is gone.
Considered ==
    /\ pass \in [scan : Nat, rebuilt : BOOLEAN, evicted : BOOLEAN, spared : SUBSET Keys]
    /\ pc[Worker] = "idle" => pass = NoPass
    /\ pass.rebuilt => \A k \in Keys : disk[k] # None =>
           \/ k \in pass.spared
           \/ \E c \in queue \cup fresh : c.key = k
           \/ pc[Worker] \in {"measure", "unlink"} /\ rm[Worker].key = k

\* A pass ends under the cap, or with nothing left to consider.
Ended ==
    pc[Worker] = "done" /\ ~overlapped /\ BytesIn(disk) > Cap
        => pass.rebuilt /\ queue = {} /\ fresh = {}

CountInv == Counted /\ Measured /\ Considered /\ Ended

\* How many bytes a directory has is a natural number.
LEMMA BytesNat ==
    ASSUME Types PROVE BytesIn(disk) \in Nat
<1>1. disk \in Disks /\ Held(disk) \in SUBSET Held(disk)
  BY Zenon DEF Types, Disks
<1> QED
  BY <1>1, BytesFinite, FS_CardinalityType, Zenon DEF BytesIn

\* So is what a removal has freed.
LEMMA TakenNat ==
    ASSUME Types, NEW t \in Threads PROVE Taken(t) \in Nat
BY Zenon DEF Types, Taken

\* A call that reads, schedules or begins a delete, and a flushed read, leave
\* every size as it was.
LEMMA QuietCount ==
    ASSUME RankInv, CountInv,
           UNCHANGED <<bytes, scanned, overlapped, pass, queue, fresh>>,
           BytesIn(disk') = BytesIn(disk),
           \A k \in Keys : /\ disk'[k] # None => disk[k] # None
                           /\ disk[k] # None => disk'[k].size = disk[k].size,
           pc'[Worker] = pc[Worker], rm'[Worker] = rm[Worker],
           \/ pc'[Caller] = pc[Caller] /\ rm'[Caller] = rm[Caller]
           \/ pc[Caller] = "idle" /\ pc'[Caller] = "measure"
    PROVE  CountInv'
<1>1. Taken(Worker)' = Taken(Worker) /\ Taken(Caller)' = Taken(Caller)
  BY Zenon DEF Taken
<1>2. Counted'
  BY <1>1, Zenon DEF CountInv, Counted
<1>3. Measured'
  <2>1. \A t \in Threads : pc[t] = "unlink" => rm[t].key \in Keys
    BY Zenon DEF RankInv, Types, Removing
  <2>2. \A t \in Threads : pc'[t] = "unlink" => pc[t] = "unlink" /\ rm'[t] = rm[t]
    BY Zenon DEF Threads
  <2> QED
    BY <2>1, <2>2, Zenon DEF CountInv, Measured
<1>4. Considered'
  BY Zenon DEF CountInv, Considered
<1>5. Ended'
  BY Zenon DEF CountInv, Ended
<1> QED
  BY <1>2, <1>3, <1>4, <1>5, Zenon DEF CountInv

\* The caller's calls, and the flusher.
LEMMA CallerCount ==
    ASSUME RankInv, CountInv, NEW k \in Keys,
           \/ Get(k) \/ Delete(k) \/ FlushRead(k)
           \/ \E size \in Sizes : Schedule(k, size)
    PROVE  CountInv'
<1>1. disk \in Disks /\ now \in Nat /\ pc = [t \in Threads |-> pc[t]] /\ rm = [t \in Threads |-> rm[t]]
  BY Zenon DEF RankInv, Types, Disks
<1>2. CASE FlushRead(k)
  <2>1. UNCHANGED <<bytes, scanned, overlapped, pass, queue, fresh, pc, rm>>
    BY <1>2, Zenon DEF FlushRead, countVars
  <2>2. CASE disk[k] = None
    <3>1. disk' = disk
      BY <1>2, <2>2, Zenon DEF FlushRead
    <3> QED
      BY <2>1, <3>1, QuietCount, Zenon
  <2>3. CASE disk[k] # None
    <3>1. disk' = [disk EXCEPT ![k].mtime = now + 1]
      BY <1>2, <2>3, Zenon DEF FlushRead
    <3>2. now + 1 \in Nat
      BY <1>1
    <3>3. BytesIn(disk') = BytesIn(disk)
      BY <1>1, <2>3, <3>1, <3>2, Touched, Zenon
    <3>4. \A j \in Keys \ {k} : disk'[j] = disk[j]
      BY <1>1, <3>1, Zenon DEF Disks
    <3>5. disk[k] \in Stats /\ disk'[k] = [disk[k] EXCEPT !.mtime = now + 1]
      BY <1>1, <2>3, <3>1, Zenon DEF Disks
    <3>6. disk'[k].size = disk[k].size
      BY <3>5, Zenon DEF Stats
    <3> QED
      BY <2>1, <2>3, <3>3, <3>4, <3>6, QuietCount, Zenon
  <2> QED
    BY <2>2, <2>3, Zenon
<1>3. CASE Get(k) \/ \E size \in Sizes : Schedule(k, size)
  <2>1. UNCHANGED <<bytes, scanned, overlapped, pass, queue, fresh, pc, rm, disk>>
    BY <1>3, Zenon DEF Get, Schedule, countVars, rankVars
  <2> QED
    BY <2>1, QuietCount, Zenon
<1>4. CASE Delete(k)
  <2>1. /\ UNCHANGED <<bytes, scanned, overlapped, pass, queue, fresh, disk>>
        /\ pc[Caller] = "idle" /\ pc' = [pc EXCEPT ![Caller] = "measure"]
        /\ \E r : rm' = [rm EXCEPT ![Caller] = r]
    BY <1>4, Zenon DEF Delete, countVars, rankVars, Does, At, Goto
  <2>2. pc'[Worker] = pc[Worker] /\ rm'[Worker] = rm[Worker] /\ pc'[Caller] = "measure"
    BY <1>1, <2>1, Zenon DEF Threads, Worker, Caller
  <2> QED
    BY <2>1, <2>2, QuietCount, Zenon
<1> QED
  BY <1>2, <1>3, <1>4, Zenon

\* clear runs with the worker idle: it leaves no byte and counts none.
LEMMA ClearCount ==
    ASSUME RankInv, CountInv, Clear
    PROVE  CountInv'
<1>1. /\ pc[Worker] = "idle" /\ pc[Caller] = "idle"
      /\ UNCHANGED <<scanned, overlapped, pc, rm, pass>>
      /\ disk' = [k \in Keys |-> None] /\ bytes' = 0 /\ queue' = {} /\ fresh' = {}
  BY Zenon DEF Clear, Does, At, RankInv, Types
<1>2. BytesIn(disk') = 0
  <2>1. Held(disk') = {}
    BY <1>1, Zenon DEF Held
  <2>2. Bytes(disk', Held(disk')) = {}
    BY <2>1, Zenon DEF Bytes
  <2> QED
    BY <2>2, FS_EmptySet, Zenon DEF BytesIn
<1>3. Counted'
  <2>1. {scanned, overlapped} \subseteq BOOLEAN
    BY Zenon DEF CountInv, Counted
  <2>2. Taken(Worker)' = 0 /\ Taken(Caller)' = 0
    BY <1>1, Zenon DEF Taken
  <2>3. bytes' = BytesIn(disk') + Taken(Worker)' + Taken(Caller)' /\ bytes' \in Int
    BY <1>1, <1>2, <2>2
  <2>4. pc'[Worker] \notin {"adopt", "loop", "done"} \cup Removing
    BY <1>1, Zenon DEF Removing
  <2> QED
    BY <1>1, <2>1, <2>3, <2>4, Zenon DEF Counted
<1>4. Measured' /\ Considered' /\ Ended'
  BY <1>1, Zenon DEF CountInv, Measured, Considered, Ended, Threads
<1> QED
  BY <1>3, <1>4, Zenon DEF CountInv

\* remove_path measures.
LEMMA MeasureCount ==
    ASSUME RankInv, CountInv, NEW t \in Threads, RemoveMeasure(t)
    PROVE  CountInv'
<1> DEFINE n == IF disk[rm[t].key] = None THEN 0 ELSE disk[rm[t].key].size
<1>1. /\ UNCHANGED <<disk, bytes, scanned, overlapped, pass, queue, fresh>>
      /\ pc[t] = "measure" /\ pc' = [pc EXCEPT ![t] = "unlink"] /\ rm' = [rm EXCEPT ![t].freed = n]
  BY Zenon DEF RemoveMeasure, At, Goto, countVars, rankVars
<1> HIDE DEF n
<1>2. \A u \in Threads \ {t} : pc'[u] = pc[u] /\ rm'[u] = rm[u]
  BY <1>1, Zenon DEF RankInv, Types
<1>3. pc'[t] = "unlink" /\ rm'[t].freed = n /\ rm'[t].key = rm[t].key
  BY <1>1, Zenon DEF RankInv, Types
<1>4. \A u \in Threads : Taken(u)' = Taken(u)
  BY <1>1, <1>2, <1>3 DEF Taken
<1>5. Worker \in Threads /\ Caller \in Threads
  BY Zenon DEF Threads
<1>6. pc'[Worker] = pc[Worker] \/ (pc[Worker] = "measure" /\ pc'[Worker] = "unlink")
  BY <1>1, <1>2, <1>3, <1>5, Zenon
<1>7. pc'[Caller] = "account" => pc[Caller] = "account"
  BY <1>2, <1>3, <1>5, Zenon
<1>8. Counted'
  BY <1>1, <1>4, <1>5, <1>6, <1>7, Zenon DEF CountInv, Counted, Removing
<1>9. Measured'
  <2> SUFFICES ASSUME NEW u \in Threads, pc'[u] = "unlink", disk'[rm'[u].key] # None
               PROVE  rm'[u].freed = disk'[rm'[u].key].size
    BY Zenon DEF Measured
  <2>1. CASE u = t
    BY <1>1, <1>3, <2>1, Zenon DEF n
  <2>2. CASE u # t
    BY <1>1, <1>2, <2>2, Zenon DEF CountInv, Measured
  <2> QED
    BY <2>1, <2>2, Zenon
<1>10. Considered'
  <2>1. rm'[Worker].key = rm[Worker].key
    BY <1>2, <1>3, <1>5, Zenon
  <2> QED
    BY <1>1, <1>6, <2>1, Zenon DEF CountInv, Considered
<1>11. Ended'
  BY <1>1, <1>6, Zenon DEF CountInv, Ended
<1> QED
  BY <1>8, <1>9, <1>10, <1>11, Zenon DEF CountInv

\* What it measured goes, unless another removal was faster.
LEMMA UnlinkCount ==
    ASSUME RankInv, CountInv, NEW t \in Threads, RemoveUnlink(t)
    PROVE  CountInv'
<1> DEFINE k == rm[t].key
<1>1. /\ UNCHANGED <<bytes, scanned, pass, queue, fresh, rm>>
      /\ pc[t] = "unlink" /\ pc' = [pc EXCEPT ![t] = "account"]
      /\ disk' = [disk EXCEPT ![k] = None]
      /\ overlapped' = (overlapped \/ (disk[k] = None /\ rm[t].freed > 0) \/ (t = Caller /\ pc[Worker] = "adopt"))
  BY Zenon DEF RemoveUnlink, At, Goto, rankVars
<1>2. k \in Keys /\ disk \in Disks /\ rm[t].freed \in Nat
  BY <1>1, Zenon DEF RankInv, Types, Removing, Disks
<1> HIDE DEF k
<1>3. \A u \in Threads \ {t} : pc'[u] = pc[u]
  BY <1>1, Zenon DEF RankInv, Types
<1>4. pc'[t] = "account"
  BY <1>1, Zenon DEF RankInv, Types
<1>5. Worker \in Threads /\ Caller \in Threads /\ Worker # Caller /\ Threads = {Worker, Caller}
  BY Zenon DEF Threads, Worker, Caller
<1>6. BytesIn(disk) \in Nat /\ BytesIn(disk') \in Nat
      /\ BytesIn(disk) = BytesIn(disk') + IF disk[k] = None THEN 0 ELSE disk[k].size
  BY <1>1, <1>2, Unlinked, Zenon
<1>7. ~overlapped' => BytesIn(disk) = BytesIn(disk') + rm[t].freed
  <2>1. disk[k] # None => rm[t].freed = disk[k].size
    BY <1>1, Zenon DEF CountInv, Measured, k
  <2>2. ~overlapped' /\ disk[k] = None => rm[t].freed = 0
    <3>1. ~overlapped' => ~(disk[k] = None /\ rm[t].freed > 0)
      BY <1>1, Zenon
    <3> QED
      BY <1>2, <3>1
  <2>3. CASE disk[k] = None
    BY <1>6, <2>2, <2>3, Zenon
  <2>4. CASE disk[k] # None
    BY <1>6, <2>1, <2>4, Zenon
  <2> QED
    BY <2>3, <2>4, Zenon
<1>8. Taken(t) = 0 /\ Taken(t)' = rm[t].freed /\ \A u \in Threads \ {t} : Taken(u)' = Taken(u)
  BY <1>1, <1>3, <1>4, Zenon DEF Taken
<1>9. overlapped \in BOOLEAN /\ overlapped' \in BOOLEAN /\ (~overlapped' => ~overlapped)
  BY <1>1, Zenon DEF CountInv, Counted
<1>10. pc'[Worker] = pc[Worker] \/ (pc[Worker] = "unlink" /\ pc'[Worker] = "account")
  BY <1>1, <1>3, <1>4, <1>5, Zenon
<1>11. pc[Worker] = "adopt" => overlapped'
  BY <1>1, <1>5, <1>9, Zenon
<1>12. Counted'
  <2>1. bytes' \in Int /\ {scanned', overlapped'} \subseteq BOOLEAN
    BY <1>1, <1>9, Zenon DEF CountInv, Counted
  <2>2. ASSUME scanned', ~overlapped', pc'[Worker] # "adopt"
        PROVE  bytes' = BytesIn(disk') + Taken(Worker)' + Taken(Caller)'
    <3>1. scanned /\ ~overlapped /\ pc[Worker] # "adopt"
      BY <1>1, <1>9, <1>10, <2>2, Zenon
    <3>2. bytes = BytesIn(disk) + Taken(Worker) + Taken(Caller)
      BY <3>1, Zenon DEF CountInv, Counted
    <3>3. Taken(Worker) \in Nat /\ Taken(Caller) \in Nat
      BY <1>5, TakenNat, Zenon DEF RankInv
    <3> QED
      BY <1>1, <1>2, <1>5, <1>6, <1>7, <1>8, <2>2, <3>2, <3>3
  <2>3. pc'[Worker] = "adopt" => overlapped'
    BY <1>10, <1>11, Zenon
  <2>4. pc'[Worker] \in {"loop", "done"} \cup Removing => scanned'
    BY <1>1, <1>10, Zenon DEF CountInv, Counted, Removing
  <2> QED
    BY <2>1, <2>2, <2>3, <2>4, Zenon DEF Counted
<1>13. \A j \in Keys : disk'[j] # None => disk'[j] = disk[j] /\ j # k
  BY <1>1, <1>2, Zenon DEF Disks
<1>14. Measured'
  <2>1. \A u \in Threads : pc'[u] = "unlink" => pc[u] = "unlink" /\ rm'[u] = rm[u] /\ rm[u].key \in Keys
    BY <1>1, <1>3, <1>4, Zenon DEF RankInv, Types, Removing
  <2> SUFFICES ASSUME NEW u \in Threads, pc'[u] = "unlink", disk'[rm'[u].key] # None
               PROVE  rm'[u].freed = disk'[rm'[u].key].size
    BY Zenon DEF Measured
  <2>2. rm'[u] = rm[u] /\ disk'[rm[u].key] = disk[rm[u].key] /\ disk[rm[u].key] # None
    BY <1>13, <2>1, Zenon
  <2> QED
    BY <2>1, <2>2 DEF CountInv, Measured
<1>15. Considered'
  <2>1. pc'[Worker] = "idle" => pc[Worker] = "idle"
    BY <1>10, Zenon
  <2>2. \A j \in Keys : disk'[j] # None /\ pc[Worker] \in {"measure", "unlink"} /\ rm[Worker].key = j
            => pc'[Worker] \in {"measure", "unlink"}
    BY <1>1, <1>3, <1>5, <1>13, Zenon DEF k
  <2> QED
    BY <1>1, <1>13, <2>1, <2>2, Zenon DEF CountInv, Considered
<1>16. Ended'
  <2>1. BytesIn(disk') > Cap => BytesIn(disk) > Cap
    <3>1. disk[k] # None => disk[k].size \in Nat
      BY <1>2, EvictionAssumption, Zenon DEF Disks, Stats
    <3>2. Cap \in Nat
      BY EvictionAssumption, Zenon
    <3> QED
      BY <1>6, <3>1, <3>2
  <2> QED
    BY <1>1, <1>9, <1>10, <2>1, Zenon DEF CountInv, Ended
<1> QED
  BY <1>12, <1>14, <1>15, <1>16, Zenon DEF CountInv

\* A refused removal is passed over.
LEMMA RefusedCount ==
    ASSUME RankInv, CountInv, NEW t \in Threads, RemoveRefused(t)
    PROVE  CountInv'
<1>1. /\ UNCHANGED <<disk, bytes, scanned, overlapped, queue, fresh>>
      /\ pc[t] = "unlink" /\ pc' = [pc EXCEPT ![t] = IF t = Worker THEN "loop" ELSE "idle"]
      /\ rm' = [rm EXCEPT ![t] = NoRemoval]
      /\ pass' = IF t = Worker THEN [pass EXCEPT !.spared = @ \cup {rm[t].key}] ELSE pass
  BY Zenon DEF RemoveRefused, At, Goto, countVars, rankVars
<1>2. rm[t].key \in Keys
  BY <1>1, Zenon DEF RankInv, Types, Removing
<1>3. \A u \in Threads \ {t} : pc'[u] = pc[u] /\ rm'[u] = rm[u]
  BY <1>1, Zenon DEF RankInv, Types
<1>4. pc'[t] = IF t = Worker THEN "loop" ELSE "idle"
  BY <1>1, Zenon DEF RankInv, Types
<1>5. Worker \in Threads /\ Caller \in Threads /\ Worker # Caller /\ Threads = {Worker, Caller}
  BY Zenon DEF Threads, Worker, Caller
<1>6. Taken(Worker)' = Taken(Worker) /\ Taken(Caller)' = Taken(Caller)
  BY <1>1, <1>3, <1>4, <1>5 DEF Taken
<1>7. pc'[Worker] = pc[Worker] \/ (pc[Worker] = "unlink" /\ pc'[Worker] = "loop" /\ t = Worker)
  BY <1>1, <1>3, <1>4, <1>5, Zenon
<1>8. pc'[Caller] = "account" => pc[Caller] = "account"
  BY <1>1, <1>3, <1>4, <1>5
<1>9. pass \in [scan : Nat, rebuilt : BOOLEAN, evicted : BOOLEAN, spared : SUBSET Keys]
  BY Zenon DEF CountInv, Considered
<1>10. /\ pass' \in [scan : Nat, rebuilt : BOOLEAN, evicted : BOOLEAN, spared : SUBSET Keys]
       /\ pass'.scan = pass.scan /\ pass'.rebuilt = pass.rebuilt
       /\ pass.spared \subseteq pass'.spared
       /\ t = Worker => rm[t].key \in pass'.spared
       /\ t # Worker => pass' = pass
  BY <1>1, <1>2, <1>9, Zenon
<1>11. Counted'
  BY <1>1, <1>6, <1>7, <1>8, <1>10, Zenon DEF CountInv, Counted, Removing
<1>12. Measured'
  <2>1. \A u \in Threads : pc'[u] = "unlink" => pc[u] = "unlink" /\ rm'[u] = rm[u]
    BY <1>3, <1>4, Zenon
  <2> QED
    BY <1>1, <2>1, Zenon DEF CountInv, Measured
<1>13. Considered'
  <2>1. pc'[Worker] = "idle" => pc[Worker] = "idle" /\ pass' = pass
    BY <1>1, <1>3, <1>4, <1>5, <1>10
  <2>2. pc[Worker] \in {"measure", "unlink"} =>
          \/ pc'[Worker] = pc[Worker] /\ rm'[Worker] = rm[Worker]
          \/ rm[Worker].key \in pass'.spared
    BY <1>3, <1>5, <1>10, Zenon
  <2> QED
    BY <1>1, <1>10, <2>1, <2>2, Zenon DEF CountInv, Considered
<1>14. Ended'
  BY <1>1, <1>7, <1>10, Zenon DEF CountInv, Ended
<1> QED
  BY <1>11, <1>12, <1>13, <1>14, Zenon DEF CountInv

\* One that is done is taken off the count.
LEMMA AccountCount ==
    ASSUME RankInv, CountInv, NEW t \in Threads, RemoveAccount(t)
    PROVE  CountInv'
<1>1. /\ UNCHANGED <<disk, scanned, overlapped, queue, fresh>>
      /\ pc[t] = "account" /\ pc' = [pc EXCEPT ![t] = IF t = Worker THEN "loop" ELSE "idle"]
      /\ rm' = [rm EXCEPT ![t] = NoRemoval] /\ bytes' = bytes - rm[t].freed
      /\ pass' = [pass EXCEPT !.evicted = @ \/ (t = Worker /\ rm[t].freed > 0)]
  BY Zenon DEF RemoveAccount, At, Goto
<1>2. rm[t].freed \in Nat /\ bytes \in Int
  BY Zenon DEF RankInv, Types, CountInv, Counted
<1>3. \A u \in Threads \ {t} : pc'[u] = pc[u] /\ rm'[u] = rm[u]
  BY <1>1, Zenon DEF RankInv, Types
<1>4. pc'[t] = IF t = Worker THEN "loop" ELSE "idle"
  BY <1>1, Zenon DEF RankInv, Types
<1>5. Worker \in Threads /\ Caller \in Threads /\ Worker # Caller /\ Threads = {Worker, Caller}
  BY Zenon DEF Threads, Worker, Caller
<1>6. Taken(t) = rm[t].freed /\ Taken(t)' = 0 /\ \A u \in Threads \ {t} : Taken(u)' = Taken(u)
  BY <1>1, <1>3, <1>4 DEF Taken
<1>7. pc'[Worker] = pc[Worker] \/ (pc[Worker] = "account" /\ pc'[Worker] = "loop")
  BY <1>1, <1>3, <1>4, <1>5, Zenon
<1>8. pass \in [scan : Nat, rebuilt : BOOLEAN, evicted : BOOLEAN, spared : SUBSET Keys]
  BY Zenon DEF CountInv, Considered
<1>9. /\ pass' \in [scan : Nat, rebuilt : BOOLEAN, evicted : BOOLEAN, spared : SUBSET Keys]
      /\ pass'.scan = pass.scan /\ pass'.rebuilt = pass.rebuilt /\ pass'.spared = pass.spared
      /\ t # Worker => pass' = pass
  BY <1>1, <1>8, Zenon
<1>10. Counted'
  <2>1. bytes' \in Int /\ {scanned', overlapped'} \subseteq BOOLEAN
    BY <1>1, <1>2 DEF CountInv, Counted
  <2>2. ASSUME scanned', ~overlapped', pc'[Worker] # "adopt"
        PROVE  bytes' = BytesIn(disk') + Taken(Worker)' + Taken(Caller)'
    <3>1. scanned /\ ~overlapped /\ pc[Worker] # "adopt"
      BY <1>1, <1>7, <2>2, Zenon
    <3>2. bytes = BytesIn(disk) + Taken(Worker) + Taken(Caller)
      BY <3>1, Zenon DEF CountInv, Counted
    <3>3. Taken(Worker) \in Nat /\ Taken(Caller) \in Nat /\ BytesIn(disk) \in Nat
      BY <1>5, TakenNat, BytesNat, Zenon DEF RankInv
    <3> QED
      BY <1>1, <1>2, <1>5, <1>6, <3>2, <3>3
  <2>3. pc'[Worker] = "adopt" /\ ~overlapped' => pc'[Caller] # "account" /\ pass'.scan = BytesIn(disk')
    BY <1>1, <1>3, <1>4, <1>5, <1>7, <1>9, Zenon DEF CountInv, Counted
  <2>4. pc'[Worker] \in {"loop", "done"} \cup Removing => scanned'
    BY <1>1, <1>7, Zenon DEF CountInv, Counted, Removing
  <2> QED
    BY <2>1, <2>2, <2>3, <2>4, Zenon DEF Counted
<1>11. Measured'
  <2>1. \A u \in Threads : pc'[u] = "unlink" => pc[u] = "unlink" /\ rm'[u] = rm[u]
    BY <1>3, <1>4, Zenon
  <2> QED
    BY <1>1, <2>1, Zenon DEF CountInv, Measured
<1>12. Considered'
  <2>1. pc'[Worker] = "idle" => pc[Worker] = "idle" /\ pass' = pass
    BY <1>1, <1>3, <1>4, <1>5, <1>9
  <2>2. pc[Worker] \in {"measure", "unlink"} => pc'[Worker] = pc[Worker] /\ rm'[Worker] = rm[Worker]
    BY <1>1, <1>3, <1>5, Zenon
  <2> QED
    BY <1>1, <1>9, <2>1, <2>2 DEF CountInv, Considered
<1>13. Ended'
  BY <1>1, <1>7, <1>9, Zenon DEF CountInv, Ended
<1> QED
  BY <1>10, <1>11, <1>12, <1>13, Zenon DEF CountInv

\* A write changes the count by what it changes on disk.
LEMMA LandCount ==
    ASSUME RankInv, CountInv, Land
    PROVE  CountInv'
<1> DEFINE k == jobs[1].key
           size == jobs[1].size
           old == IF disk[k] = None THEN 0 ELSE disk[k].size
<1>1. /\ UNCHANGED <<scanned, overlapped, pass, rm, jobs, queue>>
      /\ jobs # <<>> /\ pc[Worker] = "idle" /\ pc' = [pc EXCEPT ![Worker] = "begin"]
      /\ disk' = [disk EXCEPT ![k] = [size |-> size, mtime |-> now + 1]]
      /\ bytes' = bytes + size - old
  BY Zenon DEF Land, At, Goto
<1>2. jobs[1] \in [key : Keys, size : Sizes] /\ 1 \in 1 .. Len(jobs)
  <2>1. jobs \in Seq([key : Keys, size : Sizes])
    BY Zenon DEF RankInv, Types
  <2>2. 1 \in 1 .. Len(jobs)
    BY <1>1, <2>1
  <2> QED
    BY <1>1, <2>1, <2>2, FirstOf, Zenon
<1>3. k \in Keys /\ size \in Nat /\ disk \in Disks /\ (disk[k] # None => disk[k].size \in Nat)
  BY <1>2, EvictionAssumption, Zenon DEF RankInv, Types, Disks, Stats
<1>4. pc[Caller] \in Removing => k # rm[Caller].key
  BY <1>2, Zenon DEF RankInv, GoneFirst
<1>5. [size |-> size, mtime |-> now + 1] \in Stats /\ [size |-> size, mtime |-> now + 1] # None
  <2>1. size \in Sizes /\ now + 1 \in Nat
    BY <1>2 DEF RankInv, Types
  <2>2. [size |-> size, mtime |-> now + 1] \in [size : Nat, mtime : Nat]
    BY <1>3, <2>1, Zenon
  <2> QED
    BY <2>1, <2>2, EvictionAssumption, Zenon DEF Stats
<1> HIDE DEF k, size
<1>6. BytesIn(disk') = BytesIn(disk) + size - old
  BY <1>1, <1>3, <1>5, Written, Zenon
<1>7. BytesIn(disk) \in Nat /\ Taken(Caller) \in Nat
  BY BytesNat, TakenNat, Zenon DEF RankInv, Threads
<1>8. pc'[Worker] = "begin" /\ pc'[Caller] = pc[Caller]
  BY <1>1, Zenon DEF RankInv, Types, Threads, Worker, Caller
<1>9. Taken(Worker) = 0 /\ Taken(Worker)' = 0 /\ Taken(Caller)' = Taken(Caller)
  BY <1>1, <1>8, Zenon DEF Taken
<1>10. Counted'
  <2>1. old \in Nat
    BY <1>3, Zenon
  <2>2. bytes \in Int
    BY Zenon DEF CountInv, Counted
  <2>3. scanned /\ ~overlapped => bytes = BytesIn(disk) + Taken(Worker) + Taken(Caller)
    BY <1>1, Zenon DEF CountInv, Counted
  <2> HIDE DEF old
  <2>4. bytes' \in Int /\ (scanned /\ ~overlapped => bytes' = BytesIn(disk') + Taken(Worker)' + Taken(Caller)')
    BY <1>1, <1>3, <1>6, <1>7, <1>9, <2>1, <2>2, <2>3
  <2> QED
    BY <1>1, <1>8, <2>4, Zenon DEF CountInv, Counted, Removing
<1>11. Measured'
  <2>1. pc'[Caller] = "unlink" => disk'[rm'[Caller].key] = disk[rm[Caller].key]
    BY <1>1, <1>3, <1>4, <1>8, Zenon DEF RankInv, Types, Removing, Threads
  <2> QED
    BY <1>1, <1>8, <2>1, Zenon DEF CountInv, Measured, Threads
<1>12. Considered'
  BY <1>1, <1>8 DEF CountInv, Considered, NoPass
<1>13. Ended'
  BY <1>8, Zenon DEF Ended
<1> QED
  BY <1>10, <1>11, <1>12, <1>13, Zenon DEF CountInv

\* The walk of the directory.
LEMMA ScanCount ==
    ASSUME RankInv, CountInv, Scan \/ Adopt
    PROVE  CountInv'
<1>1. /\ UNCHANGED <<disk, queue, fresh, rm>>
      /\ pc' = [pc EXCEPT ![Worker] = IF Scan THEN "adopt" ELSE "begin"]
      /\ pc[Worker] = IF Scan THEN "begin" ELSE "adopt"
  BY Zenon DEF Scan, Adopt, At, Goto, rankVars
<1>2. pc'[Worker] = (IF Scan THEN "adopt" ELSE "begin") /\ pc'[Caller] = pc[Caller]
  BY <1>1, Zenon DEF RankInv, Types, Threads, Worker, Caller
<1>3. Taken(Worker) = 0 /\ Taken(Worker)' = 0 /\ Taken(Caller)' = Taken(Caller)
  BY <1>1, <1>2 DEF Taken
<1>4. BytesIn(disk) \in Nat /\ Taken(Caller) \in Nat
  BY BytesNat, TakenNat, Zenon DEF RankInv, Threads
<1>5. pass \in [scan : Nat, rebuilt : BOOLEAN, evicted : BOOLEAN, spared : SUBSET Keys]
  BY Zenon DEF CountInv, Considered
<1>6. /\ pass' \in [scan : Nat, rebuilt : BOOLEAN, evicted : BOOLEAN, spared : SUBSET Keys]
      /\ pass'.rebuilt = pass.rebuilt /\ pass'.spared = pass.spared
  <2>1. CASE Scan
    <3>1. pass' = [pass EXCEPT !.scan = BytesIn(disk)]
      BY <2>1, TotalIs, Zenon DEF Scan
    <3> QED
      BY <1>4, <1>5, <3>1, Zenon
  <2>2. CASE Adopt
    BY <1>5, <2>2, Zenon DEF Adopt
  <2> QED
    BY <2>1, <2>2, Zenon
<1>7. Counted'
  <2>1. CASE Scan
    <3>1. /\ pass'.scan = BytesIn(disk) /\ UNCHANGED <<bytes, scanned>>
          /\ overlapped' = (overlapped \/ pc[Caller] = "account")
      BY <1>5, <2>1, TotalIs, Zenon DEF Scan, At
    <3>2. pc'[Worker] = "adopt" /\ overlapped' \in BOOLEAN /\ bytes' \in Int /\ scanned' \in BOOLEAN
      BY <1>2, <2>1, <3>1, Zenon DEF CountInv, Counted
    <3>3. ~overlapped' => pc'[Caller] # "account"
      BY <1>2, <3>1, Zenon
    <3> QED
      BY <1>1, <3>1, <3>2, <3>3, Zenon DEF Counted, Removing
  <2>2. CASE Adopt /\ ~Scan
    <3>1. bytes' = pass.scan /\ scanned' = TRUE /\ UNCHANGED overlapped
      BY <2>2, Zenon DEF Adopt
    <3>2. bytes' \in Int
      BY <1>5, <3>1
    <3>3. ~overlapped => pc[Caller] # "account" /\ pass.scan = BytesIn(disk)
      BY <1>1, <2>2, Zenon DEF CountInv, Counted
    <3>4. ~overlapped => Taken(Caller) = 0
      BY <3>3, Zenon DEF Taken
    <3>5. ~overlapped => bytes' = BytesIn(disk) + Taken(Worker)' + Taken(Caller)'
      BY <1>3, <1>4, <3>1, <3>3, <3>4
    <3>6. overlapped \in BOOLEAN
      BY Zenon DEF CountInv, Counted
    <3> QED
      BY <1>1, <1>2, <2>2, <3>1, <3>2, <3>5, <3>6 DEF Counted, Removing
  <2> QED
    BY <2>1, <2>2, Zenon
<1>8. Measured'
  BY <1>1, <1>2 DEF CountInv, Measured, Threads
<1>9. Considered'
  BY <1>1, <1>2, <1>6 DEF CountInv, Considered
<1>10. Ended'
  BY <1>2, Zenon DEF Ended
<1> QED
  BY <1>7, <1>8, <1>9, <1>10, Zenon DEF CountInv

\* The other steps of a pass leave the directory and the count alone.
LEMMA PassCount ==
    ASSUME RankInv, CountInv, EvictBegin \/ Consider \/ Rebuild \/ LoopEnds \/ EvictDone
    PROVE  CountInv'
<1>1. UNCHANGED <<disk, bytes, scanned, overlapped>>
  BY Zenon DEF EvictBegin, Consider, Rebuild, LoopEnds, EvictDone, countVars
<1>2. pc'[Caller] = pc[Caller] /\ rm'[Caller] = rm[Caller]
  BY Zenon DEF RankInv, Types, EvictBegin, Consider, Rebuild, LoopEnds, EvictDone, Goto, Threads, Worker, Caller
<1>3. /\ pc[Worker] \in {"begin", "loop", "done"}
      /\ pc'[Worker] \in {"idle", "loop", "done", "measure"}
      /\ pc[Worker] = "begin" => scanned
  BY Zenon DEF RankInv, Types, EvictBegin, Consider, Rebuild, LoopEnds, EvictDone, At, Goto, Threads
<1>4. scanned /\ (~overlapped => BytesIn(disk) <= bytes)
  <2>1. scanned
    BY <1>3, Zenon DEF CountInv, Counted
  <2>2. ~overlapped => bytes = BytesIn(disk) + Taken(Worker) + Taken(Caller)
    BY <1>3, <2>1, Zenon DEF CountInv, Counted
  <2>3. BytesIn(disk) \in Nat /\ Taken(Worker) \in Nat /\ Taken(Caller) \in Nat
    BY BytesNat, TakenNat, Zenon DEF RankInv, Threads
  <2> QED
    BY <2>1, <2>2, <2>3
<1>5. Taken(Worker)' = Taken(Worker) /\ Taken(Caller)' = Taken(Caller)
  BY <1>2, <1>3, Zenon DEF Taken
<1>6. Counted'
  BY <1>1, <1>2, <1>3, <1>4, <1>5, Zenon DEF CountInv, Counted
<1>7. Measured'
  BY <1>1, <1>2, <1>3, Zenon DEF CountInv, Measured, Threads
<1>8. pass \in [scan : Nat, rebuilt : BOOLEAN, evicted : BOOLEAN, spared : SUBSET Keys]
  BY Zenon DEF CountInv, Considered
<1>9. Considered' /\ Ended'
  <2>1. CASE EvictBegin
    <3>1. UNCHANGED <<pass, queue, fresh>> /\ pc[Worker] = "begin"
          /\ pc'[Worker] = IF bytes <= Cap THEN "done" ELSE "loop"
      BY <2>1, Zenon DEF EvictBegin, At, Goto, rankVars, RankInv, Types, Threads
    <3>2. Considered'
      BY <1>1, <3>1, Zenon DEF CountInv, Considered
    <3>3. bytes \in Int /\ Cap \in Nat /\ BytesIn(disk) \in Nat
      BY EvictionAssumption, BytesNat, Zenon DEF CountInv, Counted, RankInv
    <3>4. pc'[Worker] = "done" /\ ~overlapped => ~(BytesIn(disk) > Cap)
      BY <1>4, <3>1, <3>3
    <3> QED
      BY <1>1, <3>2, <3>4, Zenon DEF Ended
  <2>2. CASE LoopEnds
    <3>1. UNCHANGED <<pass, queue, fresh>> /\ pc[Worker] = "loop" /\ pc'[Worker] = "done"
          /\ (~OverTarget \/ (queue = {} /\ fresh = {} /\ pass.rebuilt))
      BY <2>2, Zenon DEF LoopEnds, At, Goto, rankVars, RankInv, Types, Threads
    <3>2. Considered'
      BY <1>1, <3>1, Zenon DEF CountInv, Considered
    <3>3. bytes \in Int /\ Cap \in Nat /\ BytesIn(disk) \in Nat
      BY EvictionAssumption, BytesNat, Zenon DEF CountInv, Counted, RankInv
    <3>4. ~OverTarget /\ ~overlapped => ~(BytesIn(disk) > Cap)
      BY <1>4, <3>3 DEF OverTarget
    <3> QED
      BY <1>1, <3>1, <3>2, <3>4, Zenon DEF Ended
  <2>3. CASE EvictDone
    <3>1. pass' = NoPass /\ pc'[Worker] = "idle"
      BY <2>3, Zenon DEF EvictDone, Goto, RankInv, Types, Threads
    <3> QED
      BY <3>1, Zenon DEF Considered, Ended, NoPass
  <2>4. CASE Rebuild
    <3>1. /\ pass' = [pass EXCEPT !.rebuilt = TRUE, !.spared = {}]
          /\ pc[Worker] = "loop" /\ pc'[Worker] = "loop"
      BY <2>4, Zenon DEF Rebuild, At
    <3>2. \A k \in Keys : disk[k] # None => \E c \in queue' : c.key = k
      <4> DEFINE l == MaxOf(clock, index.clock)
                 used(k) == IF meta[k] = None THEN disk[k].mtime ELSE MaxOf(disk[k].mtime, meta[k].access)
                 recency(k) == IF k \in unflushed THEN used(k) ELSE disk[k].mtime
                 cand(k) == [key |-> k, h |-> Rank(k, l), at |-> used(k), recency |-> recency(k)]
      <4>2. queue' = {cand(k) : k \in OnDisk}
        BY <2>4, Zenon DEF Rebuild
      <4>3. \A k : cand(k).key = k
        OBVIOUS
      <4> HIDE DEF cand
      <4>1. \A k \in OnDisk : \E c \in queue' : c.key = k
        BY <4>2, <4>3, Zenon
      <4> QED
        BY <4>1, Zenon DEF OnDisk
    <3>3. pass' \in [scan : Nat, rebuilt : BOOLEAN, evicted : BOOLEAN, spared : SUBSET Keys]
      BY <1>8, <3>1, Zenon
    <3> QED
      BY <1>1, <3>1, <3>2, <3>3, Zenon DEF Considered, Ended
  <2>5. CASE Consider
    <3>1. PICK c \in Popped :
            /\ queue' = queue \ {c} /\ fresh' = fresh \ {c}
            /\ \/ pass' = [pass EXCEPT !.spared = @ \cup {c.key}] /\ UNCHANGED <<pc, rm>>
               \/ /\ rm' = [rm EXCEPT ![Worker] = [key |-> c.key, freed |-> 0, rank |-> c.h]]
                  /\ pc' = [pc EXCEPT ![Worker] = "measure"]
                  /\ UNCHANGED pass
      BY <2>5, Zenon DEF Consider, Goto
    <3>2. pc[Worker] = "loop" /\ c \in Cands
      BY <2>5, <3>1, Zenon DEF Consider, At, Popped, Heads, RankInv, Types
    <3>3. c.key \in Keys
      BY <3>2, Zenon DEF Cands
    <3>4. \/ /\ pass' = [pass EXCEPT !.spared = @ \cup {c.key}]
             /\ pc'[Worker] = "loop"
          \/ rm'[Worker].key = c.key /\ pc'[Worker] = "measure" /\ pass' = pass
      BY <3>1, <3>2 DEF RankInv, Types, Threads
    <3>5. /\ pass' \in [scan : Nat, rebuilt : BOOLEAN, evicted : BOOLEAN, spared : SUBSET Keys]
          /\ pass'.rebuilt = pass.rebuilt /\ pass.spared \subseteq pass'.spared
          /\ \/ c.key \in pass'.spared
             \/ rm'[Worker].key = c.key /\ pc'[Worker] = "measure"
      BY <1>8, <3>3, <3>4
    <3>6. pc'[Worker] \notin {"idle", "done"}
      BY <3>4, Zenon
    <3>7. \A k \in Keys : pass.rebuilt /\ disk[k] # None =>
             k \in pass.spared \/ \E d \in queue \cup fresh : d.key = k
      BY <3>2, Zenon DEF CountInv, Considered
    <3>8. \A k \in Keys : (\E d \in queue \cup fresh : d.key = k) =>
             k = c.key \/ \E d \in queue' \cup fresh' : d.key = k
      BY <3>1, Zenon
    <3> QED
      BY <1>1, <3>5, <3>6, <3>7, <3>8, Zenon DEF Considered, Ended
  <2> QED
    BY <2>1, <2>2, <2>3, <2>4, <2>5, Zenon
<1> QED
  BY <1>6, <1>7, <1>9, Zenon DEF CountInv

\* A process starts with nothing counted and no pass.
LEMMA CountInit == Init => CountInv
<1> SUFFICES ASSUME Init PROVE CountInv
  OBVIOUS
<1>1. /\ bytes = 0 /\ scanned = FALSE /\ overlapped = FALSE /\ pass = NoPass
      /\ \A t \in Threads : pc[t] = "idle"
  BY Zenon DEF Init, Threads
<1>2. NoPass \in [scan : Nat, rebuilt : BOOLEAN, evicted : BOOLEAN, spared : SUBSET Keys] /\ ~NoPass.rebuilt
  BY Zenon DEF NoPass
<1>3. pc[Worker] = "idle" /\ pc[Caller] = "idle"
  BY <1>1, Zenon DEF Threads
<1>4. Counted
  <2>1. {scanned, overlapped} \subseteq BOOLEAN /\ ~scanned
    BY <1>1, Zenon
  <2>2. bytes \in Int
    BY <1>1
  <2>3. pc[Worker] # "adopt" /\ pc[Worker] \notin {"loop", "done"} \cup Removing
    BY <1>3, Zenon DEF Removing
  <2> QED
    BY <2>1, <2>2, <2>3, Zenon DEF Counted
<1>5. Measured /\ Ended
  BY <1>1, <1>3, Zenon DEF Measured, Ended
<1>6. Considered
  BY <1>1, <1>2, Zenon DEF Considered
<1> QED
  BY <1>4, <1>5, <1>6, Zenon DEF CountInv

\* Every step keeps CountInv.
LEMMA CountNext == RankInv /\ CountInv /\ [Next]_vars => CountInv'
<1> SUFFICES ASSUME RankInv, CountInv, [Next]_vars PROVE CountInv'
  OBVIOUS
<1>1. CASE \E t \in Threads : RemoveMeasure(t) \/ RemoveUnlink(t) \/ RemoveRefused(t) \/ RemoveAccount(t)
  BY <1>1, MeasureCount, UnlinkCount, RefusedCount, AccountCount, Zenon
<1>2. CASE \E k \in Keys : Get(k) \/ Delete(k) \/ FlushRead(k) \/ \E size \in Sizes : Schedule(k, size)
  BY <1>2, CallerCount, Zenon
<1>3. CASE Clear
  BY <1>3, ClearCount, Zenon
<1>4. CASE Land
  BY <1>4, LandCount, Zenon
<1>5. CASE Scan \/ Adopt
  BY <1>5, ScanCount, Zenon
<1>6. CASE EvictBegin \/ Consider \/ Rebuild \/ LoopEnds \/ EvictDone
  BY <1>6, PassCount, Zenon
<1>7. CASE UNCHANGED vars
  <2>1. UNCHANGED <<disk, bytes, scanned, overlapped, pass, queue, fresh, pc, rm>>
    BY <1>7, Zenon DEF vars, rankVars, countVars
  <2> QED
    BY <2>1, QuietCount, Zenon
<1> QED
  BY <1>1, <1>2, <1>3, <1>4, <1>5, <1>6, <1>7, Zenon DEF Next, WorkerStep, CallerStep, Threads

\* The evictor's count is the directory's bytes whenever no removal is under
\* way, for any keys, sizes and cap and any number of calls.
THEOREM CountStaysExact == Spec => []BytesExact
<1>1. RankInv /\ CountInv => BytesExact
  <2> SUFFICES ASSUME RankInv, CountInv, scanned, ~overlapped, pc[Caller] = "idle",
                      pc[Worker] \notin {"account", "adopt"}
               PROVE  bytes = Total(OnDisk)
    BY Zenon DEF BytesExact, At
  <2>1. bytes = BytesIn(disk) + Taken(Worker) + Taken(Caller)
    BY Zenon DEF CountInv, Counted
  <2>2. Taken(Worker) = 0 /\ Taken(Caller) = 0
    BY Zenon DEF Taken
  <2>3. BytesIn(disk) \in Nat
    BY BytesNat, Zenon DEF RankInv
  <2> QED
    BY <2>1, <2>2, <2>3, TotalIs
<1> QED
  BY <1>1, RankInit, RankNext, CountInit, CountNext, PTL DEF Spec

\* A pass of evict ends within the cap, or it passed over every entry left.
THEOREM PassesKeepTheCap == Spec => []CapKept
<1>1. RankInv /\ CountInv => CapKept
  <2> SUFFICES ASSUME RankInv, CountInv, pc[Worker] = "done", ~overlapped, Total(OnDisk) > Cap,
                      NEW k \in OnDisk
               PROVE  k \in pass.spared
    BY Zenon DEF CapKept, At
  <2>1. pass.rebuilt /\ queue = {} /\ fresh = {}
    BY TotalIs, Zenon DEF CountInv, Ended
  <2> QED
    BY <2>1, Zenon DEF CountInv, Considered, OnDisk
<1> QED
  BY <1>1, RankInit, RankNext, CountInit, CountNext, PTL DEF Spec

-----------------------------------------------------------------------------
(* What is remembered of an entry goes with it.                            *)

UseInv ==
    /\ {ranked, clockLoaded} \subseteq BOOLEAN
    /\ unflushed \subseteq {k \in Keys : meta[k] # None}
    /\ \A c \in queue \cup fresh : c.recency <= now
    /\ \A t \in Threads : (rm[t] # NoRemoval) <=> (pc[t] \in Removing)

\* A removal has a key.
LEMMA RemovalHasKey ==
    ASSUME NEW r, r.key \in Keys PROVE r # NoRemoval
BY EvictionAssumption DEF NoRemoval

\* remove_path drops the read with the bookkeeping.
LEMMA RemoveUse ==
    ASSUME RankInv, UseInv, NEW t \in Threads,
           RemoveMeasure(t) \/ RemoveUnlink(t) \/ RemoveRefused(t) \/ RemoveAccount(t)
    PROVE  UseInv'
<1>1. UNCHANGED <<ranked, clockLoaded, queue, fresh, now>>
  BY Zenon DEF RemoveMeasure, RemoveUnlink, RemoveRefused, RemoveAccount, rankVars, useVars
<1>2. \A u \in Threads \ {t} : pc'[u] = pc[u] /\ rm'[u] = rm[u]
  BY Zenon DEF RankInv, Types, RemoveMeasure, RemoveUnlink, RemoveRefused, RemoveAccount, Goto
<1>3. rm[t].key \in Keys /\ rm[t] \in [key : {None} \cup Keys, freed : Nat, rank : Nat]
  BY Zenon DEF RankInv, Types, RemoveMeasure, RemoveUnlink, RemoveRefused, RemoveAccount, At, Removing
<1>4. (rm'[t] # NoRemoval) <=> (pc'[t] \in Removing)
  <2>1. CASE RemoveMeasure(t) \/ RemoveUnlink(t)
    <3>1. rm'[t].key = rm[t].key
      BY <1>3, <2>1, Zenon DEF RankInv, Types, RemoveMeasure, RemoveUnlink
    <3>2. pc'[t] \in Removing
      BY <2>1, Zenon DEF RankInv, Types, RemoveMeasure, RemoveUnlink, Goto, Removing
    <3> QED
      BY <1>3, <3>1, <3>2, RemovalHasKey, Zenon
  <2>2. CASE RemoveRefused(t) \/ RemoveAccount(t)
    <3>1. rm'[t] = NoRemoval /\ pc'[t] \in {"loop", "idle"}
      BY <2>2, Zenon DEF RankInv, Types, RemoveRefused, RemoveAccount, Goto
    <3> QED
      BY <3>1, Zenon DEF Removing
  <2> QED
    BY <2>1, <2>2, Zenon
<1>5. unflushed' \subseteq {k \in Keys : meta'[k] # None}
  <2>1. CASE RemoveAccount(t)
    <3>1. meta' = [meta EXCEPT ![rm[t].key] = None] /\ unflushed' = unflushed \ {rm[t].key}
      BY <2>1, Zenon DEF RemoveAccount
    <3>2. meta \in [Keys -> {None} \cup Uses] /\ unflushed \subseteq {k \in Keys : meta[k] # None}
      BY Zenon DEF RankInv, Types, UseInv
    <3> QED
      BY <3>1, <3>2, Zenon
  <2>2. CASE ~RemoveAccount(t)
    <3>1. UNCHANGED <<meta, unflushed>>
      BY <2>2, Zenon DEF RemoveMeasure, RemoveUnlink, RemoveRefused, useVars
    <3> QED
      BY <3>1, Zenon DEF UseInv
  <2> QED
    BY <2>1, <2>2, Zenon
<1> QED
  BY <1>1, <1>2, <1>4, <1>5, Zenon DEF UseInv

\* A read is noted with its entry's bookkeeping, a removal begins with a key.
LEMMA CallerUse ==
    ASSUME RankInv, UseInv,
           \/ Clear
           \/ \E k \in Keys : Get(k) \/ Delete(k) \/ FlushRead(k) \/ \E size \in Sizes : Schedule(k, size)
    PROVE  UseInv'
<1>1. /\ ranked \in BOOLEAN /\ clockLoaded \in BOOLEAN
      /\ unflushed \subseteq {k \in Keys : meta[k] # None}
      /\ \A c \in queue \cup fresh : c.recency <= now
      /\ \A t \in Threads : (rm[t] # NoRemoval) <=> (pc[t] \in Removing)
  BY Zenon DEF UseInv
<1>2. /\ meta \in [Keys -> {None} \cup Uses] /\ now \in Nat
      /\ \A c \in queue \cup fresh : c.recency \in Nat
      /\ pc \in [Threads -> Places] /\ rm = [t \in Threads |-> rm[t]]
  BY Zenon DEF RankInv, Types, Cands
<1>3. CASE Clear
  BY <1>1, <1>3, Zenon DEF Clear, UseInv
<1>4. CASE \E k \in Keys : Get(k)
  <2>1. PICK k \in Keys : Get(k)
    BY <1>4, Zenon
  <2> DEFINE use == [access |-> now + 1, reads |-> IF meta[k] = None THEN 1 ELSE meta[k].reads + 1]
  <2>2. /\ meta' = [meta EXCEPT ![k] = use] /\ now' = now + 1 /\ unflushed' = unflushed \cup {k}
        /\ UNCHANGED <<ranked, clockLoaded, queue, fresh, pc, rm>>
    BY <2>1, Zenon DEF Get
  <2>3. use # None
    <3>1. use \in Uses
      BY <1>2 DEF Uses
    <3> QED
      BY <3>1, EvictionAssumption, Zenon DEF Uses
  <2> HIDE DEF use
  <2>4. unflushed' \subseteq {j \in Keys : meta'[j] # None}
    BY <1>1, <1>2, <2>2, <2>3, Zenon
  <2>5. \A c \in queue' \cup fresh' : c.recency <= now'
    BY <1>1, <1>2, <2>2
  <2> QED
    BY <1>1, <2>2, <2>4, <2>5, Zenon DEF UseInv
<1>5. CASE \E k \in Keys : Delete(k)
  <2>1. PICK k \in Keys : Delete(k)
    BY <1>5, Zenon
  <2>2. /\ rm' = [rm EXCEPT ![Caller] = [NoRemoval EXCEPT !.key = k]]
        /\ pc' = [pc EXCEPT ![Caller] = "measure"]
        /\ UNCHANGED <<ranked, clockLoaded, unflushed, meta, queue, fresh, now>>
    BY <2>1, Zenon DEF Delete, Goto, rankVars, useVars
  <2>3. rm'[Caller].key = k /\ pc'[Caller] = "measure"
    BY <1>2, <2>2, Zenon DEF Threads, NoRemoval
  <2>4. \A t \in Threads \ {Caller} : rm'[t] = rm[t] /\ pc'[t] = pc[t]
    BY <1>2, <2>2, Zenon
  <2>5. \A t \in Threads : (rm'[t] # NoRemoval) <=> (pc'[t] \in Removing)
    BY <1>1, <2>3, <2>4, RemovalHasKey, Zenon DEF Removing
  <2> QED
    BY <1>1, <2>2, <2>5, Zenon DEF UseInv
<1>6. CASE \E k \in Keys : \E size \in Sizes : Schedule(k, size)
  <2>1. UNCHANGED <<ranked, clockLoaded, unflushed, meta, queue, fresh, now, pc, rm>>
    BY <1>6, Zenon DEF Schedule, rankVars, useVars
  <2> QED
    BY <1>1, <2>1, Zenon DEF UseInv
<1>7. CASE \E k \in Keys : FlushRead(k)
  <2>1. /\ unflushed' \subseteq unflushed /\ clockLoaded' = TRUE /\ now' \in {now, now + 1}
        /\ UNCHANGED <<ranked, meta, queue, fresh, pc, rm>>
    BY <1>7, Zenon DEF FlushRead
  <2>2. \A c \in queue' \cup fresh' : c.recency <= now'
    BY <1>1, <1>2, <2>1
  <2>3. unflushed' \subseteq {k \in Keys : meta'[k] # None}
    BY <1>1, <2>1, Zenon
  <2> QED
    BY <1>1, <2>1, <2>2, <2>3, Zenon DEF UseInv
<1> QED
  BY <1>3, <1>4, <1>5, <1>6, <1>7, Zenon

\* The worker's steps.
LEMMA WorkerUse ==
    ASSUME RankInv, UseInv,
           Land \/ Scan \/ Adopt \/ EvictBegin \/ Consider \/ Rebuild \/ LoopEnds \/ EvictDone
    PROVE  UseInv'
<1>1. /\ ranked \in BOOLEAN /\ clockLoaded \in BOOLEAN
      /\ unflushed \subseteq {k \in Keys : meta[k] # None}
      /\ \A c \in queue \cup fresh : c.recency <= now
      /\ \A t \in Threads : (rm[t] # NoRemoval) <=> (pc[t] \in Removing)
  BY Zenon DEF UseInv
<1>2. /\ meta \in [Keys -> {None} \cup Uses] /\ now \in Nat /\ disk \in [Keys -> {None} \cup Stats]
      /\ \A c \in queue \cup fresh : c.recency \in Nat
      /\ pc \in [Threads -> Places] /\ rm = [t \in Threads |-> rm[t]] /\ Worker \in Threads
  BY Zenon DEF RankInv, Types, Cands, Threads
<1>3. CASE Land
  <2>1. jobs[1].key \in Keys
    <3>1. jobs # <<>>
      BY <1>3, Zenon DEF Land
    <3>2. jobs[1] \in [key : Keys, size : Sizes]
      BY <3>1, FirstOf, Zenon DEF RankInv, Types
    <3> QED
      BY <3>2, Zenon
  <2>2. /\ meta' = [meta EXCEPT ![jobs[1].key] = [access |-> 0, reads |-> 0]]
        /\ now' = now + 1 /\ clockLoaded' = TRUE
        /\ pc[Worker] = "idle" /\ pc' = [pc EXCEPT ![Worker] = "begin"]
        /\ UNCHANGED <<ranked, queue, rm, unflushed>>
    BY <1>3, Zenon DEF Land, RecordRank, At, Goto
  <2>3. \A c \in fresh' : c \in fresh \/ c.recency = now + 1
    BY <1>3 DEF Land, RecordRank
  <2>4. \A c \in queue' \cup fresh' : c.recency <= now'
    BY <1>1, <1>2, <2>2, <2>3
  <2>5. [access |-> 0, reads |-> 0] # None
    <3>1. [access |-> 0, reads |-> 0] \in [access : Nat, reads : Nat]
      OBVIOUS
    <3> QED
      BY <3>1, EvictionAssumption, Zenon
  <2>6. unflushed' \subseteq {k \in Keys : meta'[k] # None}
    BY <1>1, <1>2, <2>1, <2>2, <2>5, Zenon
  <2>7. \A t \in Threads : (rm'[t] # NoRemoval) <=> (pc'[t] \in Removing)
    <3>1. pc'[Worker] = "begin" /\ \A t \in Threads \ {Worker} : pc'[t] = pc[t]
      BY <1>2, <2>2, Zenon
    <3> QED
      BY <1>1, <1>2, <2>2, <3>1, Zenon DEF Removing
  <2> QED
    BY <1>1, <2>2, <2>4, <2>6, <2>7, Zenon DEF UseInv
<1>4. CASE Scan \/ Adopt \/ EvictBegin \/ LoopEnds \/ EvictDone
  <2>1. /\ UNCHANGED <<ranked, clockLoaded, queue, fresh, rm, unflushed, meta, now>>
        /\ pc[Worker] \in {"begin", "adopt", "loop", "done"}
        /\ \E where \in {"idle", "begin", "adopt", "loop", "done"} : pc' = [pc EXCEPT ![Worker] = where]
    BY <1>4, Zenon DEF Scan, Adopt, EvictBegin, LoopEnds, EvictDone, At, Goto, rankVars, useVars
  <2>2. \A t \in Threads : (rm'[t] # NoRemoval) <=> (pc'[t] \in Removing)
    <3>1. pc'[Worker] \in {"idle", "begin", "adopt", "loop", "done"} /\ \A t \in Threads \ {Worker} : pc'[t] = pc[t]
      BY <1>2, <2>1, Zenon
    <3> QED
      BY <1>1, <1>2, <2>1, <3>1, Zenon DEF Removing
  <2> QED
    BY <1>1, <2>1, <2>2, Zenon DEF UseInv
<1>5. CASE Consider
  <2>1. PICK c \in Popped :
          /\ queue' = queue \ {c} /\ fresh' = fresh \ {c}
          /\ \/ UNCHANGED <<pc, rm>>
             \/ /\ rm' = [rm EXCEPT ![Worker] = [key |-> c.key, freed |-> 0, rank |-> c.h]]
                /\ pc' = [pc EXCEPT ![Worker] = "measure"]
    BY <1>5, Zenon DEF Consider, Goto
  <2>2. UNCHANGED <<ranked, clockLoaded, unflushed, meta, now>>
    BY <1>5, Zenon DEF Consider, useVars
  <2>3. c.key \in Keys
    BY <2>1, Zenon DEF Popped, Heads, RankInv, Types, Cands
  <2>4. \A t \in Threads : (rm'[t] # NoRemoval) <=> (pc'[t] \in Removing)
    <3>1. CASE UNCHANGED <<pc, rm>>
      BY <1>1, <3>1, Zenon
    <3>2. CASE /\ rm' = [rm EXCEPT ![Worker] = [key |-> c.key, freed |-> 0, rank |-> c.h]]
               /\ pc' = [pc EXCEPT ![Worker] = "measure"]
      <4>1. rm'[Worker].key = c.key /\ pc'[Worker] = "measure"
        BY <1>2, <3>2, Zenon
      <4>2. \A t \in Threads \ {Worker} : rm'[t] = rm[t] /\ pc'[t] = pc[t]
        BY <1>2, <3>2, Zenon
      <4> QED
        BY <1>1, <2>3, <4>1, <4>2, RemovalHasKey, Zenon DEF Removing
    <3> QED
      BY <2>1, <3>1, <3>2, Zenon
  <2> QED
    BY <1>1, <2>1, <2>2, <2>4, Zenon DEF UseInv
<1>6. CASE Rebuild
  <2> DEFINE l == MaxOf(clock, index.clock)
             used(k) == IF meta[k] = None THEN disk[k].mtime ELSE MaxOf(disk[k].mtime, meta[k].access)
             recency(k) == IF k \in unflushed THEN used(k) ELSE disk[k].mtime
             cand(k) == [key |-> k, h |-> Rank(k, l), at |-> used(k), recency |-> recency(k)]
  <2>1. queue' = {cand(k) : k \in OnDisk} /\ clockLoaded' = TRUE /\ ranked' = TRUE
        /\ UNCHANGED <<fresh, unflushed, meta, now, pc, rm>>
    BY <1>6, Zenon DEF Rebuild, useVars
  <2>2. \A k \in OnDisk : recency(k) <= now
    <3> SUFFICES ASSUME NEW k \in OnDisk PROVE recency(k) <= now
      OBVIOUS
    <3>1. disk[k].mtime \in Nat /\ disk[k].mtime <= now
      BY <1>2, Zenon DEF OnDisk, Stats, RankInv, Past
    <3>2. meta[k] # None => meta[k].access \in Nat /\ meta[k].access <= now
      BY <1>2, Zenon DEF OnDisk, Uses, RankInv, Past
    <3> QED
      BY <3>1, <3>2, Zenon DEF MaxOf
  <2>3. \A k : cand(k).recency = recency(k)
    OBVIOUS
  <2> HIDE DEF cand, recency
  <2>4. \A c \in queue' : c.recency <= now
    BY <2>1, <2>2, <2>3, Zenon
  <2> QED
    BY <1>1, <2>1, <2>4, Zenon DEF UseInv
<1> QED
  BY <1>3, <1>4, <1>5, <1>6, Zenon

\* Every step keeps UseInv.
LEMMA UseNext == RankInv /\ UseInv /\ [Next]_vars => UseInv'
<1> SUFFICES ASSUME RankInv, UseInv, [Next]_vars PROVE UseInv'
  OBVIOUS
<1>1. CASE \E t \in Threads : RemoveMeasure(t) \/ RemoveUnlink(t) \/ RemoveRefused(t) \/ RemoveAccount(t)
  BY <1>1, RemoveUse, Zenon
<1>2. CASE \/ Clear
           \/ \E k \in Keys : Get(k) \/ Delete(k) \/ FlushRead(k) \/ \E size \in Sizes : Schedule(k, size)
  BY <1>2, CallerUse, Zenon
<1>3. CASE Land \/ Scan \/ Adopt \/ EvictBegin \/ Consider \/ Rebuild \/ LoopEnds \/ EvictDone
  BY <1>3, WorkerUse, Zenon
<1>4. CASE UNCHANGED vars
  <2>1. UNCHANGED <<ranked, clockLoaded, unflushed, meta, queue, fresh, now, rm, pc>>
    BY <1>4, Zenon DEF vars, rankVars, useVars
  <2> QED
    BY <2>1, Zenon DEF UseInv
<1> QED
  BY <1>1, <1>2, <1>3, <1>4, Zenon DEF Next, WorkerStep, CallerStep, Threads

\* The types, and that what the evictor remembers of an entry goes with its
\* removal.
THEOREM EvictionTyped == Spec => []TypeOK
<1>1. Init => UseInv
  <2> SUFFICES ASSUME Init PROVE UseInv
    OBVIOUS
  <2>1. ranked = FALSE /\ clockLoaded = FALSE /\ unflushed = {} /\ queue = {} /\ fresh = {}
    BY Zenon DEF Init
  <2>2. \A t \in Threads : rm[t] = NoRemoval /\ pc[t] = "idle"
    BY Zenon DEF Init, Threads
  <2> QED
    BY <2>1, <2>2, Zenon DEF UseInv, Removing
<1>2. RankInv /\ CountInv /\ UseInv => TypeOK
  <2> SUFFICES ASSUME RankInv, CountInv, UseInv PROVE TypeOK
    OBVIOUS
  <2>1. disk \in [Keys -> {None} \cup [size : Sizes, mtime : 0 .. now]]
    <3>1. /\ disk \in [Keys -> {None} \cup Stats] /\ now \in Nat
          /\ \A k \in Keys : disk[k] # None => disk[k].mtime <= now
      BY Zenon DEF RankInv, Types, Past
    <3> QED
      BY <3>1 DEF Stats
  <2>2. meta \in [Keys -> {None} \cup [access : 0 .. now, reads : Nat]]
    BY DEF RankInv, Types, Past, Uses
  <2>3. Candidates \subseteq [key : Keys, h : Nat, at : 0 .. now, recency : 0 .. now]
    BY DEF RankInv, Types, Past, UseInv, Candidates, Cands
  <2>4. {scanned, ranked, clockLoaded, overlapped} \subseteq BOOLEAN
    BY Zenon DEF CountInv, Counted, UseInv
  <2>5. pc \in [{Worker, Caller} -> {"idle", "begin", "adopt", "loop", "done"} \cup Removing]
    BY Zenon DEF RankInv, Types, Threads, Places, Removing
  <2>6. \A t \in {Worker, Caller} : (rm[t] # NoRemoval) <=> (pc[t] \in Removing)
    BY Zenon DEF UseInv, Threads
  <2>7. /\ index \in [rank : [Keys -> {None} \cup Nat], clock : Nat]
        /\ now \in Nat /\ clock \in Nat /\ base \in [Keys -> {None, Read} \cup Nat]
        /\ jobs \in Seq([key : Keys, size : Sizes])
    BY Zenon DEF RankInv, Types
  <2>8. /\ bytes \in Int /\ unflushed \subseteq {k \in Keys : meta[k] # None}
        /\ pc[Worker] = "idle" => pass = NoPass
    BY Zenon DEF CountInv, Counted, Considered, UseInv
  <2> QED
    BY <2>1, <2>2, <2>3, <2>4, <2>5, <2>6, <2>7, <2>8, Zenon DEF TypeOK
<1> QED
  BY <1>1, <1>2, RankInit, RankNext, CountInit, CountNext, UseNext, PTL DEF Spec
=============================================================================
