-------------------------- MODULE EntryFileTypeProofs -------------------------
(***************************************************************************)
(* Lemmas about EntryFile that the proofs of its properties share: what    *)
(* each step does to the locals of the thread that takes it, the types of  *)
(* the variables, and where each kind of thread may be.                    *)
(***************************************************************************)
EXTENDS EntryFile, TLAPS

-----------------------------------------------------------------------------
(* Types and roles.                                                        *)

Numbers == Writes \cup {NoFile}

Files == [head : {"none", "torn", "whole"}, meta : Numbers, body : BOOLEAN, mtime : Nat]

Memory == [meta : Numbers, id : Numbers \X Numbers, stat : Numbers \X Nat]

\* The steps of a write, and where a caller or a flusher may be beside them.
Making == {"place", "body", "head", "head_end", "close", "temp", "fill", "rename",
           "written", "remember", "failed"}
Flushing == {"flush", "flush_lock", "flush_write", "flush_end"}
WriterAt == {"idle", "sweep", "lock"} \cup Making
FlusherAt == {"idle"} \cup Flushing
CallerAt == {"idle", "submit", "wait", "wait_siblings", "cached", "stat", "open", "decide",
             "hit", "answer", "miss", "known", "remove", "forget", "stop"} \cup Making \cup Flushing

Ops == {"none", "set", "get", "get_metadata", "set_metadata_only", "delete", "clear", "shutdown"}

Locals == [pc : WriterAt \cup CallerAt, op : Ops, w : Numbers, waits : SUBSET Writes,
           retried : BOOLEAN, cached : Numbers, file : Numbers, meta : Numbers,
           stat : Numbers \X Nat, mark : 0 .. MaxWrites]

\* Every variable has its type.
DirShape ==
    /\ dir \in BOOLEAN /\ entry \in Numbers /\ file \in [Writes -> Files]
    /\ temps \subseteq Writes
WriteShape ==
    /\ last \in 0 .. MaxWrites
    /\ ofBackend \in [Writes -> Backends] /\ kind \in [Writes -> {"full", "only"}]
QueueShape == queue \in [Backends -> Seq(Writes)] /\ pending \in [Backends -> Numbers]
MemShape == touched \in [Backends -> Memory] /\ unflushed \in [Backends -> BOOLEAN]
BackendShape ==
    /\ lock \in [Backends -> Threads \cup {Free}]
    /\ swept \in [Backends -> BOOLEAN] /\ closed \in [Backends -> BOOLEAN]
LocShape == loc \in [Threads -> Locals]
BoundShape == flushes \in Nat /\ crashes \in Nat /\ wipes \in Nat
Shape ==
    /\ DirShape /\ WriteShape /\ QueueShape /\ MemShape /\ BackendShape
    /\ LocShape /\ BoundShape /\ deleted \subseteq Writes

\* Where a thread may be, and when it has a write.
RoleOf(t, r) ==
    /\ t \in Writers => r.pc \in WriterAt /\ (r.w = NoFile <=> r.pc = "idle")
    /\ t \in Flushers => r.pc \in FlusherAt /\ r.w = NoFile
    /\ t \in Callers => /\ r.pc \in CallerAt
                        /\ r.w # NoFile <=> r.op = "set_metadata_only"
                        /\ r.pc \in Making \cup {"known"} => r.op = "set_metadata_only"
                        /\ r.op = "set_metadata_only" =>
                             r.pc \in Making \cup {"wait", "wait_siblings", "known"}
Role(t) == RoleOf(t, loc[t])
Roles == \A t \in Threads : Role(t)

-----------------------------------------------------------------------------
(* Types.                                                                  *)

Places == WriterAt \cup CallerAt

LEMMA PlaceNames ==
    {"idle", "submit", "wait", "wait_siblings", "cached", "stat", "open", "decide", "hit",
     "answer", "miss", "known", "remove", "forget", "stop", "sweep", "lock", "place", "body",
     "head", "head_end", "close", "temp", "fill", "rename", "written", "remember", "failed",
     "flush", "flush_lock", "flush_write", "flush_end"} \subseteq Places
BY Zenon DEF Places, WriterAt, CallerAt, Making, Flushing

\* Thread t alone moves, and its locals become r.
Puts(t, r) ==
    /\ r \in Locals /\ LocShape'
    /\ loc'[t] = r
    /\ \A s \in Threads : s # t => loc'[s] = loc[s]

LEMMA PutMoves ==
    ASSUME LocShape, NEW t \in Threads, NEW r \in Locals, loc' = [loc EXCEPT ![t] = r]
    PROVE  Puts(t, r)
BY Zenon DEF LocShape, Puts

\* The locals a step leaves behind.
Went(l, where) == [l EXCEPT !.pc = where]
WentBack(l) == [l EXCEPT !.retried = TRUE, !.pc = "place"]
WentWaiting(l, where, those) == [l EXCEPT !.pc = where, !.waits = those]
WentCached(l, where, m) == [l EXCEPT !.pc = where, !.cached = m]
WentMeta(l, where, m) == [l EXCEPT !.pc = where, !.meta = m]
WentStat(l, where, st) == [l EXCEPT !.pc = where, !.stat = st]
WentFile(l, where, f) == [l EXCEPT !.pc = where, !.file = f]
WentRead(l, where, f, m) == [l EXCEPT !.pc = where, !.file = f, !.meta = m]
Waiting(c, op, mark) ==
    [Idle EXCEPT !.pc = "wait", !.op = op, !.waits = PendingOn(On[c]), !.mark = mark]
Submitting(c) ==
    [Idle EXCEPT !.pc = "submit", !.op = "set", !.waits = PendingOn(On[c]), !.mark = 0]
Marking(c, w) ==
    [Idle EXCEPT !.pc = "wait", !.op = "set_metadata_only", !.w = w, !.waits = PendingOn(On[c])]
Taking(where, w) == [Idle EXCEPT !.pc = where, !.w = w]

\* Where the waits and the look at the memory lead.
AfterWait(op) == CASE op = "delete" -> "remove"
                   [] op = "shutdown" -> "stop"
                   [] OTHER -> "wait_siblings"
AfterSiblings(op) == CASE op = "clear" -> "remove"
                       [] op = "set_metadata_only" -> "known"
                       [] OTHER -> "cached"
AfterCached(op, meta) == IF op = "get_metadata" /\ meta # NoFile THEN "stat" ELSE "open"
PendingNear(b) == UNION {PendingOn(s) : s \in Siblings(b)}

\* What those updates leave of the locals.
LEMMA WentFields ==
    ASSUME NEW l \in Locals, NEW where
    PROVE  LET r == Went(l, where) IN
           /\ r.pc = where /\ r.op = l.op /\ r.w = l.w /\ r.waits = l.waits /\ r.cached = l.cached
           /\ r.file = l.file /\ r.meta = l.meta /\ r.stat = l.stat /\ r.mark = l.mark
BY Zenon DEF Went, Locals

LEMMA WentBackFields ==
    ASSUME NEW l \in Locals
    PROVE  LET r == WentBack(l) IN
           /\ r.pc = "place" /\ r.op = l.op /\ r.w = l.w /\ r.waits = l.waits /\ r.cached = l.cached
           /\ r.file = l.file /\ r.meta = l.meta /\ r.stat = l.stat /\ r.mark = l.mark
BY Zenon DEF WentBack, Locals

LEMMA WentWaitingFields ==
    ASSUME NEW l \in Locals, NEW where, NEW those
    PROVE  LET r == WentWaiting(l, where, those) IN
           /\ r.pc = where /\ r.op = l.op /\ r.w = l.w /\ r.waits = those /\ r.cached = l.cached
           /\ r.file = l.file /\ r.meta = l.meta /\ r.stat = l.stat /\ r.mark = l.mark
BY Zenon DEF WentWaiting, Locals

LEMMA WentCachedFields ==
    ASSUME NEW l \in Locals, NEW where, NEW m
    PROVE  LET r == WentCached(l, where, m) IN
           /\ r.pc = where /\ r.op = l.op /\ r.w = l.w /\ r.waits = l.waits /\ r.cached = m
           /\ r.file = l.file /\ r.meta = l.meta /\ r.stat = l.stat /\ r.mark = l.mark
BY Zenon DEF WentCached, Locals

LEMMA WentMetaFields ==
    ASSUME NEW l \in Locals, NEW where, NEW m
    PROVE  LET r == WentMeta(l, where, m) IN
           /\ r.pc = where /\ r.op = l.op /\ r.w = l.w /\ r.waits = l.waits /\ r.cached = l.cached
           /\ r.file = l.file /\ r.meta = m /\ r.stat = l.stat /\ r.mark = l.mark
BY Zenon DEF WentMeta, Locals

LEMMA WentStatFields ==
    ASSUME NEW l \in Locals, NEW where, NEW st
    PROVE  LET r == WentStat(l, where, st) IN
           /\ r.pc = where /\ r.op = l.op /\ r.w = l.w /\ r.waits = l.waits /\ r.cached = l.cached
           /\ r.file = l.file /\ r.meta = l.meta /\ r.stat = st /\ r.mark = l.mark
BY Zenon DEF WentStat, Locals

LEMMA WentFileFields ==
    ASSUME NEW l \in Locals, NEW where, NEW f
    PROVE  LET r == WentFile(l, where, f) IN
           /\ r.pc = where /\ r.op = l.op /\ r.w = l.w /\ r.waits = l.waits /\ r.cached = l.cached
           /\ r.file = f /\ r.meta = l.meta /\ r.stat = l.stat /\ r.mark = l.mark
BY Zenon DEF WentFile, Locals

LEMMA WentReadFields ==
    ASSUME NEW l \in Locals, NEW where, NEW f, NEW m
    PROVE  LET r == WentRead(l, where, f, m) IN
           /\ r.pc = where /\ r.op = l.op /\ r.w = l.w /\ r.waits = l.waits /\ r.cached = l.cached
           /\ r.file = f /\ r.meta = m /\ r.stat = l.stat /\ r.mark = l.mark
BY Zenon DEF WentRead, Locals

LEMMA WaitingFields ==
    ASSUME NEW c, NEW op, NEW mark
    PROVE  LET r == Waiting(c, op, mark) IN
           /\ r.pc = "wait" /\ r.op = op /\ r.w = NoFile /\ r.waits = PendingOn(On[c])
           /\ r.cached = NoFile /\ r.file = NoFile /\ r.meta = NoFile /\ r.mark = mark
BY Zenon DEF Waiting, Idle

LEMMA SubmittingFields ==
    ASSUME NEW c
    PROVE  LET r == Submitting(c) IN
           /\ r.pc = "submit" /\ r.op = "set" /\ r.w = NoFile /\ r.waits = PendingOn(On[c])
           /\ r.cached = NoFile /\ r.file = NoFile /\ r.meta = NoFile /\ r.mark = 0
BY Zenon DEF Submitting, Idle

LEMMA MarkingFields ==
    ASSUME NEW c, NEW w
    PROVE  LET r == Marking(c, w) IN
           /\ r.pc = "wait" /\ r.op = "set_metadata_only" /\ r.w = w /\ r.waits = PendingOn(On[c])
           /\ r.cached = NoFile /\ r.file = NoFile /\ r.meta = NoFile /\ r.mark = 0
BY Zenon DEF Marking, Idle

LEMMA TakingFields ==
    ASSUME NEW where, NEW w
    PROVE  LET r == Taking(where, w) IN
           /\ r.pc = where /\ r.op = "none" /\ r.w = w /\ r.waits = {}
           /\ r.cached = NoFile /\ r.file = NoFile /\ r.meta = NoFile /\ r.mark = 0
BY Zenon DEF Taking, Idle

LEMMA IdleFields ==
    /\ Idle.pc = "idle" /\ Idle.op = "none" /\ Idle.w = NoFile /\ Idle.waits = {}
    /\ Idle.cached = NoFile /\ Idle.file = NoFile /\ Idle.meta = NoFile /\ Idle.mark = 0
BY Zenon DEF Idle

\* The number that stands for no file is no write's.
LEMMA NotNone ==
    \A v \in Writes : v # NoFile
BY DEF Writes, NoFile

\* A move is an update of the locals.
LEMMA GotoMoves ==
    ASSUME LocShape, NEW t \in Threads, NEW where \in Places,
           Goto(t, where)
    PROVE  Puts(t, Went(loc[t], where))
<1>0. loc[t] \in Locals
  BY Zenon DEF LocShape
<1>1. Went(loc[t], where) \in Locals
  BY <1>0, Zenon DEF Locals, Places, Went
<1>2. loc'[t] = Went(loc[t], where)
  BY Zenon DEF LocShape, Locals, Went, Goto
<1>3. loc' \in [Threads -> Locals] /\ \A s \in Threads : s # t => loc'[s] = loc[s]
  BY <1>1, <1>2, Zenon DEF LocShape, Goto
<1> QED BY <1>1, <1>2, <1>3, Zenon DEF Puts, LocShape

LEMMA BackMoves ==
    ASSUME LocShape, NEW t \in Threads,
           loc' = [loc EXCEPT ![t].retried = TRUE, ![t].pc = "place"]
    PROVE  Puts(t, WentBack(loc[t]))
<1>0. loc[t] \in Locals
  BY Zenon DEF LocShape
<1>1. WentBack(loc[t]) \in Locals
  BY <1>0, PlaceNames, Zenon DEF Locals, Places, WentBack
<1>2. loc'[t] = WentBack(loc[t])
  BY Zenon DEF LocShape, Locals, WentBack
<1>3. loc' \in [Threads -> Locals] /\ \A s \in Threads : s # t => loc'[s] = loc[s]
  BY <1>1, <1>2, Zenon DEF LocShape
<1> QED BY <1>1, <1>2, <1>3, Zenon DEF Puts, LocShape

LEMMA WaitsMoves ==
    ASSUME LocShape, NEW t \in Threads, NEW where \in Places, NEW those \in (SUBSET Writes),
           loc' = [loc EXCEPT ![t].pc = where, ![t].waits = those]
    PROVE  Puts(t, WentWaiting(loc[t], where, those))
<1>0. loc[t] \in Locals
  BY Zenon DEF LocShape
<1>1. WentWaiting(loc[t], where, those) \in Locals
  BY <1>0, Zenon DEF Locals, Places, WentWaiting
<1>2. loc'[t] = WentWaiting(loc[t], where, those)
  BY Zenon DEF LocShape, Locals, WentWaiting
<1>3. loc' \in [Threads -> Locals] /\ \A s \in Threads : s # t => loc'[s] = loc[s]
  BY <1>1, <1>2, Zenon DEF LocShape
<1> QED BY <1>1, <1>2, <1>3, Zenon DEF Puts, LocShape

LEMMA AtCachedMoves ==
    ASSUME LocShape, NEW t \in Threads, NEW where \in Places, NEW m \in Numbers,
           loc' = [loc EXCEPT ![t].pc = where, ![t].cached = m]
    PROVE  Puts(t, WentCached(loc[t], where, m))
<1>0. loc[t] \in Locals
  BY Zenon DEF LocShape
<1>1. WentCached(loc[t], where, m) \in Locals
  BY <1>0, Zenon DEF Locals, Places, WentCached
<1>2. loc'[t] = WentCached(loc[t], where, m)
  BY Zenon DEF LocShape, Locals, WentCached
<1>3. loc' \in [Threads -> Locals] /\ \A s \in Threads : s # t => loc'[s] = loc[s]
  BY <1>1, <1>2, Zenon DEF LocShape
<1> QED BY <1>1, <1>2, <1>3, Zenon DEF Puts, LocShape

LEMMA CachedMoves ==
    ASSUME LocShape, NEW t \in Threads, NEW where \in Places, NEW m \in Numbers,
           loc' = [loc EXCEPT ![t].cached = m, ![t].pc = where]
    PROVE  Puts(t, WentCached(loc[t], where, m))
<1>0. loc[t] \in Locals
  BY Zenon DEF LocShape
<1>1. WentCached(loc[t], where, m) \in Locals
  BY <1>0, Zenon DEF Locals, Places, WentCached
<1>2. loc'[t] = WentCached(loc[t], where, m)
  BY Zenon DEF LocShape, Locals, WentCached
<1>3. loc' \in [Threads -> Locals] /\ \A s \in Threads : s # t => loc'[s] = loc[s]
  BY <1>1, <1>2, Zenon DEF LocShape
<1> QED BY <1>1, <1>2, <1>3, Zenon DEF Puts, LocShape

LEMMA MetaMoves ==
    ASSUME LocShape, NEW t \in Threads, NEW where \in Places, NEW m \in Numbers,
           loc' = [loc EXCEPT ![t].pc = where, ![t].meta = m]
    PROVE  Puts(t, WentMeta(loc[t], where, m))
<1>0. loc[t] \in Locals
  BY Zenon DEF LocShape
<1>1. WentMeta(loc[t], where, m) \in Locals
  BY <1>0, Zenon DEF Locals, Places, WentMeta
<1>2. loc'[t] = WentMeta(loc[t], where, m)
  BY Zenon DEF LocShape, Locals, WentMeta
<1>3. loc' \in [Threads -> Locals] /\ \A s \in Threads : s # t => loc'[s] = loc[s]
  BY <1>1, <1>2, Zenon DEF LocShape
<1> QED BY <1>1, <1>2, <1>3, Zenon DEF Puts, LocShape

LEMMA StatMoves ==
    ASSUME LocShape, NEW t \in Threads, NEW where \in Places, NEW st \in (Numbers \X Nat),
           loc' = [loc EXCEPT ![t].pc = where, ![t].stat = st]
    PROVE  Puts(t, WentStat(loc[t], where, st))
<1>0. loc[t] \in Locals
  BY Zenon DEF LocShape
<1>1. WentStat(loc[t], where, st) \in Locals
  BY <1>0, Zenon DEF Locals, Places, WentStat
<1>2. loc'[t] = WentStat(loc[t], where, st)
  BY Zenon DEF LocShape, Locals, WentStat
<1>3. loc' \in [Threads -> Locals] /\ \A s \in Threads : s # t => loc'[s] = loc[s]
  BY <1>1, <1>2, Zenon DEF LocShape
<1> QED BY <1>1, <1>2, <1>3, Zenon DEF Puts, LocShape

LEMMA FileMoves ==
    ASSUME LocShape, NEW t \in Threads, NEW where \in Places, NEW f \in Numbers,
           loc' = [loc EXCEPT ![t].pc = where, ![t].file = f]
    PROVE  Puts(t, WentFile(loc[t], where, f))
<1>0. loc[t] \in Locals
  BY Zenon DEF LocShape
<1>1. WentFile(loc[t], where, f) \in Locals
  BY <1>0, Zenon DEF Locals, Places, WentFile
<1>2. loc'[t] = WentFile(loc[t], where, f)
  BY Zenon DEF LocShape, Locals, WentFile
<1>3. loc' \in [Threads -> Locals] /\ \A s \in Threads : s # t => loc'[s] = loc[s]
  BY <1>1, <1>2, Zenon DEF LocShape
<1> QED BY <1>1, <1>2, <1>3, Zenon DEF Puts, LocShape

LEMMA ReadMoves ==
    ASSUME LocShape, NEW t \in Threads, NEW where \in Places, NEW f \in Numbers, NEW m \in Numbers,
           loc' = [loc EXCEPT ![t].pc = where, ![t].file = f, ![t].meta = m]
    PROVE  Puts(t, WentRead(loc[t], where, f, m))
<1>0. loc[t] \in Locals
  BY Zenon DEF LocShape
<1>1. WentRead(loc[t], where, f, m) \in Locals
  BY <1>0, Zenon DEF Locals, Places, WentRead
<1>2. loc'[t] = WentRead(loc[t], where, f, m)
  BY Zenon DEF LocShape, Locals, WentRead
<1>3. loc' \in [Threads -> Locals] /\ \A s \in Threads : s # t => loc'[s] = loc[s]
  BY <1>1, <1>2, Zenon DEF LocShape
<1> QED BY <1>1, <1>2, <1>3, Zenon DEF Puts, LocShape

LEMMA IdleType == Idle \in Locals
BY ConstantsAssumption DEF Idle, Locals, CallerAt, WriterAt, Ops, Numbers, NoFile, NoStat

\* The end of an operation.
LEMMA FinishMoves ==
    ASSUME LocShape, NEW t \in Threads, Finish(t)
    PROVE  Puts(t, Idle)
BY IdleType, PutMoves, Zenon DEF Finish

LEMMA PendingType ==
    ASSUME Shape, NEW b \in Backends
    PROVE  PendingOn(b) \subseteq Writes
BY Zenon DEF Shape, QueueShape, PendingOn, Numbers

\* The types of the locals an operation begins with.
LEMMA BeginningTypes ==
    ASSUME Shape, NEW c \in Threads, NEW op \in Ops, NEW mark \in 0 .. MaxWrites, NEW w \in Numbers
    PROVE  Waiting(c, op, mark) \in Locals /\ Submitting(c) \in Locals /\ Marking(c, w) \in Locals
<1>1. PendingOn(On[c]) \subseteq Writes
  BY PendingType, ConstantsAssumption, Zenon
<1>2. {"wait", "submit"} \subseteq WriterAt \cup CallerAt
  BY PlaceNames, Zenon DEF Places
<1>3. {"set", "set_metadata_only"} \subseteq Ops /\ 0 \in 0 .. MaxWrites
  BY ConstantsAssumption DEF Ops
<1>4. Waiting(c, op, mark) \in Locals
  BY <1>1, <1>2, IdleType, Zenon DEF Locals, Waiting
<1>5. Submitting(c) \in Locals
  BY <1>1, <1>2, <1>3, IdleType, Zenon DEF Locals, Submitting
<1>6. Marking(c, w) \in Locals
  BY <1>1, <1>2, <1>3, IdleType, Zenon DEF Locals, Marking
<1> QED BY <1>4, <1>5, <1>6, Zenon

\* The head of a queue is a write, and so is what is left of it.
LEMMA QueueType ==
    ASSUME Shape, NEW b \in Backends, queue[b] # <<>>
    PROVE  Head(queue[b]) \in Writes /\ Tail(queue[b]) \in Seq(Writes)
<1>1. queue[b] \in Seq(Writes)
  BY Zenon DEF Shape, QueueShape
<1> QED BY <1>1

\* FileNotFoundError: place again, or give up.
LEMMA MissingMoves ==
    ASSUME Shape, NEW t \in Threads, Missing(t)
    PROVE  /\ dir' \in BOOLEAN
           /\ \/ Puts(t, WentBack(loc[t])) /\ t \in Writers /\ calm' = calm
              \/ Puts(t, Went(loc[t], "failed")) /\ calm' = {}
<1>1. CASE t \in Writers /\ ~loc[t].retried
  <2>1. loc' = [loc EXCEPT ![t].retried = TRUE, ![t].pc = "place"] /\ dir' = TRUE /\ calm' = calm
    BY <1>1, Zenon DEF Missing
  <2> QED BY <1>1, <2>1, BackMoves, Zenon DEF Shape
<1>2. CASE ~(t \in Writers /\ ~loc[t].retried)
  <2>1. Goto(t, "failed") /\ calm' = {} /\ dir' = dir
    BY <1>2, Zenon DEF Missing
  <2> QED BY <2>1, GotoMoves, PlaceNames, Zenon DEF Shape, DirShape
<1> QED BY <1>1, <1>2, Zenon

\* What each step of a write does to the thread's locals.
LEMMA WriteMoves ==
    ASSUME Shape, NEW t \in Threads
    PROVE  /\ WriterTake(t) =>
                Puts(t, Taking(IF swept[On[t]] THEN "lock" ELSE "sweep", Head(queue[On[t]])))
           /\ Sweep(t) => Puts(t, Went(loc[t], "lock"))
           /\ Lock(t) => Puts(t, Went(loc[t], "place"))
           /\ PlaceBody(t) => Puts(t, Went(loc[t], "head"))
           /\ PlaceHeadBegin(t) => Puts(t, Went(loc[t], "head_end"))
           /\ PlaceHeadEnd(t) => Puts(t, Went(loc[t], "close"))
           /\ PlaceClose(t) => Puts(t, Went(loc[t], "written"))
           /\ PlaceFails(t) => Puts(t, Went(loc[t], "failed"))
           /\ TempFill(t) => Puts(t, Went(loc[t], "rename"))
           /\ TempFails(t) => Puts(t, Went(loc[t], "failed"))
           /\ Written(t) => Puts(t, Went(loc[t], "remember"))
           /\ RememberWritten(t) \/ WriteFailed(t) => Puts(t, Idle)
           /\ Place(t) => Puts(t, Went(loc[t], IF dir /\ entry = NoFile THEN "body" ELSE "temp"))
           /\ TempCreate(t) /\ dir => Puts(t, Went(loc[t], "fill"))
           /\ Rename(t) /\ loc[t].w \in temps => Puts(t, Went(loc[t], "written"))
<1>1. LocShape
  BY Zenon DEF Shape
<1>2. ASSUME WriterTake(t)
      PROVE  Puts(t, Taking(IF swept[On[t]] THEN "lock" ELSE "sweep", Head(queue[On[t]])))
  <2>1. Head(queue[On[t]]) \in Numbers
    BY <1>2, QueueType, ConstantsAssumption, Zenon DEF WriterTake, Numbers
  <2>2. (IF swept[On[t]] THEN "lock" ELSE "sweep") \in WriterAt \cup CallerAt
    BY PlaceNames, Zenon DEF Places
  <2>3. Taking(IF swept[On[t]] THEN "lock" ELSE "sweep", Head(queue[On[t]])) \in Locals
    BY <2>1, <2>2, IdleType, Zenon DEF Locals, Taking
  <2>4. loc' = [loc EXCEPT ![t] = Taking(IF swept[On[t]] THEN "lock" ELSE "sweep", Head(queue[On[t]]))]
    BY <1>2, Zenon DEF WriterTake, Taking
  <2> QED BY <1>1, <2>3, <2>4, PutMoves, Zenon
<1>3. Sweep(t) => Puts(t, Went(loc[t], "lock"))
  BY <1>1, GotoMoves, PlaceNames, Zenon DEF Sweep
<1>4. Lock(t) => Puts(t, Went(loc[t], "place"))
  BY <1>1, GotoMoves, PlaceNames, Zenon DEF Lock
<1>5. PlaceBody(t) => Puts(t, Went(loc[t], "head"))
  BY <1>1, GotoMoves, PlaceNames, Zenon DEF PlaceBody
<1>6. PlaceHeadBegin(t) => Puts(t, Went(loc[t], "head_end"))
  BY <1>1, GotoMoves, PlaceNames, Zenon DEF PlaceHeadBegin
<1>7. PlaceHeadEnd(t) => Puts(t, Went(loc[t], "close"))
  BY <1>1, GotoMoves, PlaceNames, Zenon DEF PlaceHeadEnd
<1>8. PlaceClose(t) => Puts(t, Went(loc[t], "written"))
  BY <1>1, GotoMoves, PlaceNames, Zenon DEF PlaceClose
<1>9. PlaceFails(t) => Puts(t, Went(loc[t], "failed"))
  BY <1>1, GotoMoves, PlaceNames, Zenon DEF PlaceFails
<1>10. TempFill(t) => Puts(t, Went(loc[t], "rename"))
  BY <1>1, GotoMoves, PlaceNames, Zenon DEF TempFill
<1>11. TempFails(t) => Puts(t, Went(loc[t], "failed"))
  BY <1>1, GotoMoves, PlaceNames, Zenon DEF TempFails
<1>12. Written(t) => Puts(t, Went(loc[t], "remember"))
  BY <1>1, GotoMoves, PlaceNames, Zenon DEF Written
<1>13. RememberWritten(t) \/ WriteFailed(t) => Puts(t, Idle)
  BY <1>1, FinishMoves, Zenon DEF RememberWritten, WriteFailed
<1>14. Place(t) => Puts(t, Went(loc[t], IF dir /\ entry = NoFile THEN "body" ELSE "temp"))
  BY <1>1, GotoMoves, PlaceNames, Zenon DEF Place
<1>15. TempCreate(t) /\ dir => Puts(t, Went(loc[t], "fill"))
  BY <1>1, GotoMoves, PlaceNames, Zenon DEF TempCreate
<1>16. Rename(t) /\ loc[t].w \in temps => Puts(t, Went(loc[t], "written"))
  BY <1>1, GotoMoves, PlaceNames, Zenon DEF Rename
<1> QED BY <1>2, <1>3, <1>4, <1>5, <1>6, <1>7, <1>8, <1>9, <1>10, <1>11, <1>12, <1>13, <1>14, <1>15, <1>16, Zenon

\* What each beginning of a call does to the thread's locals.
LEMMA BeginningMoves ==
    ASSUME Shape, NEW c \in Threads
    PROVE  /\ SetBegin(c) => Puts(c, Submitting(c))
           /\ SetSubmit(c) => Puts(c, Idle)
           /\ ReadBegin(c) => \E op \in {"get", "get_metadata"} : Puts(c, Waiting(c, op, 0))
           /\ OnlyBegin(c) => Puts(c, Marking(c, last + 1))
           /\ DeleteBegin(c) => Puts(c, Waiting(c, "delete", last))
           /\ ClearBegin(c) => \/ Puts(c, Waiting(c, "clear", last))
                               \/ Puts(c, Waiting(c, "shutdown", 0))
<1>1. LocShape /\ last \in 0 .. MaxWrites /\ 0 \in 0 .. MaxWrites /\ NoFile \in Numbers
  BY ConstantsAssumption DEF Shape, WriteShape, Numbers
<1>2. {"set", "get", "get_metadata", "set_metadata_only", "delete", "clear", "shutdown"} \subseteq Ops
  BY Zenon DEF Ops
<1>3. ASSUME SetBegin(c)
      PROVE  Puts(c, Submitting(c))
  <2>1. loc' = [loc EXCEPT ![c] = Submitting(c)]
    BY <1>3, Zenon DEF SetBegin, Begin, Submitting
  <2> QED BY <1>1, <1>2, <2>1, BeginningTypes, PutMoves, Zenon
<1>4. SetSubmit(c) => Puts(c, Idle)
  BY <1>1, FinishMoves, Zenon DEF SetSubmit
<1>5. ASSUME NEW op \in {"get", "get_metadata", "delete", "clear", "shutdown"}, Begin(c, op, "wait")
      PROVE  Puts(c, Waiting(c, op, IF op \in {"delete", "clear"} THEN last ELSE 0))
  <2>1. loc' = [loc EXCEPT ![c] = Waiting(c, op, IF op \in {"delete", "clear"} THEN last ELSE 0)]
    BY <1>5, Zenon DEF Begin, Waiting
  <2>2. (IF op \in {"delete", "clear"} THEN last ELSE 0) \in 0 .. MaxWrites
    BY <1>1, Zenon
  <2> QED BY <1>1, <1>2, <2>1, <2>2, BeginningTypes, PutMoves, Zenon
<1>6. ReadBegin(c) => \E op \in {"get", "get_metadata"} : Puts(c, Waiting(c, op, 0))
  BY <1>5, Zenon DEF ReadBegin
<1>7. DeleteBegin(c) => Puts(c, Waiting(c, "delete", last))
  BY <1>5, Zenon DEF DeleteBegin
<1>8. ClearBegin(c) => \/ Puts(c, Waiting(c, "clear", last))
                       \/ Puts(c, Waiting(c, "shutdown", 0))
  BY <1>5, Zenon DEF ClearBegin
<1>9. ASSUME OnlyBegin(c)
      PROVE  Puts(c, Marking(c, last + 1))
  <2>1. last + 1 \in Numbers
    BY <1>9, ConstantsAssumption DEF OnlyBegin, NewWrite, Numbers, Writes, Shape, WriteShape
  <2>2. loc' = [loc EXCEPT ![c] = Marking(c, last + 1)]
    BY <1>9, Zenon DEF OnlyBegin, Marking
  <2> QED BY <1>1, <1>2, <2>1, <2>2, BeginningTypes, PutMoves, Zenon
<1> QED BY <1>3, <1>4, <1>6, <1>7, <1>8, <1>9, Zenon

LEMMA UntouchedType == Untouched \in Memory
BY Zenon DEF Untouched, Memory, Numbers, NoIdentity, NoStat

\* The numbers a thread meets while it reads.
LEMMA ReadTypes ==
    ASSUME Shape, NEW t \in Threads
    PROVE  /\ On[t] \in Backends
           /\ entry \in Numbers
           /\ touched[On[t]].meta \in Numbers
           /\ entry # NoFile => <<entry, file[entry].mtime>> \in Numbers \X Nat
           /\ entry # NoFile => file[entry].meta \in Numbers
           /\ loc[t].cached \in Numbers /\ loc[t].meta \in Numbers /\ loc[t].file \in Numbers
           /\ loc[t].stat \in Numbers \X Nat /\ loc[t].w \in Numbers
BY ConstantsAssumption, Zenon DEF Shape, MemShape, DirShape, LocShape, Memory, Files, Locals, Numbers

\* What each later step of a call does to them.
LEMMA CallMoves ==
    ASSUME Shape, NEW c \in Threads
    PROVE  /\ WaitOwn(c) => Puts(c, WentWaiting(loc[c], AfterWait(loc[c].op), PendingNear(On[c])))
           /\ WaitSiblings(c) => Puts(c, Went(loc[c], AfterSiblings(loc[c].op)))
           /\ Cached(c) => Puts(c, WentCached(loc[c], AfterCached(loc[c].op, touched[On[c]].meta),
                                              touched[On[c]].meta))
           /\ Stat(c) => \/ entry = NoFile /\ Puts(c, Went(loc[c], "miss"))
                         \/ Puts(c, WentMeta(loc[c], "answer", loc[c].cached))
                         \/ Puts(c, WentStat(loc[c], "open", <<entry, file[entry].mtime>>))
           /\ ReadFile(c) => \/ /\ ReadsAs(c, entry)
                                /\ Puts(c, WentRead(loc[c], "decide", entry, file[entry].meta))
                             \/ ~ReadsAs(c, entry) /\ Puts(c, Went(loc[c], "miss"))
           /\ Return(c) \/ Forget(c) => Puts(c, Idle)
           /\ OnlyKnown(c) => \/ Puts(c, Idle)
                              \/ Puts(c, Went(loc[c], "temp"))
                              \/ Puts(c, Went(loc[c], "place"))
           /\ Unlink(c) => Puts(c, Went(loc[c], "forget"))
<1>1. LocShape
  BY Zenon DEF Shape
<1>2. ASSUME WaitOwn(c)
      PROVE  Puts(c, WentWaiting(loc[c], AfterWait(loc[c].op), PendingNear(On[c])))
  <2>1. AfterWait(loc[c].op) \in Places
    BY PlaceNames, Zenon DEF AfterWait
  <2>2. PendingNear(On[c]) \in SUBSET Writes
    BY PendingType, Zenon DEF PendingNear, Siblings, Cohort
  <2>3. loc' = [loc EXCEPT ![c].pc = AfterWait(loc[c].op), ![c].waits = PendingNear(On[c])]
    BY <1>2, Zenon DEF WaitOwn, AfterWait, PendingNear
  <2> QED BY <1>1, <2>1, <2>2, <2>3, WaitsMoves, Zenon
<1>3. ASSUME WaitSiblings(c)
      PROVE  Puts(c, Went(loc[c], AfterSiblings(loc[c].op)))
  <2>1. AfterSiblings(loc[c].op) \in Places
    BY PlaceNames, Zenon DEF AfterSiblings
  <2>2. Goto(c, AfterSiblings(loc[c].op))
    BY <1>3, Zenon DEF WaitSiblings, AfterSiblings
  <2> QED BY <1>1, <2>1, <2>2, GotoMoves, Zenon
<1>4. ASSUME Cached(c)
      PROVE  Puts(c, WentCached(loc[c], AfterCached(loc[c].op, touched[On[c]].meta), touched[On[c]].meta))
  <2>1. AfterCached(loc[c].op, touched[On[c]].meta) \in Places
    BY PlaceNames, Zenon DEF AfterCached
  <2>2. loc' = [loc EXCEPT ![c].cached = touched[On[c]].meta,
                           ![c].pc = AfterCached(loc[c].op, touched[On[c]].meta)]
    BY <1>4, Zenon DEF Cached, AfterCached
  <2> QED BY <1>1, <2>1, <2>2, CachedMoves, ReadTypes, Zenon
<1>5. ASSUME Stat(c)
      PROVE  \/ entry = NoFile /\ Puts(c, Went(loc[c], "miss"))
             \/ Puts(c, WentMeta(loc[c], "answer", loc[c].cached))
             \/ Puts(c, WentStat(loc[c], "open", <<entry, file[entry].mtime>>))
  <2>1. CASE entry = NoFile
    BY <1>1, <1>5, <2>1, GotoMoves, PlaceNames, Zenon DEF Stat
  <2>2. CASE entry # NoFile /\ touched[On[c]].stat = <<entry, file[entry].mtime>>
    BY <1>1, <1>5, <2>2, MetaMoves, PlaceNames, ReadTypes, Zenon DEF Stat
  <2>3. CASE entry # NoFile /\ touched[On[c]].stat # <<entry, file[entry].mtime>>
    BY <1>1, <1>5, <2>3, StatMoves, PlaceNames, ReadTypes, Zenon DEF Stat
  <2> QED BY <2>1, <2>2, <2>3, Zenon
<1>6. ASSUME ReadFile(c)
      PROVE  \/ ReadsAs(c, entry) /\ Puts(c, WentRead(loc[c], "decide", entry, file[entry].meta))
             \/ ~ReadsAs(c, entry) /\ Puts(c, Went(loc[c], "miss"))
  <2>1. CASE ReadsAs(c, entry)
    <3>1. file[entry].meta \in Numbers
      BY <2>1, ReadTypes, Zenon DEF ReadsAs, HeadWhole
    <3> QED BY <1>1, <1>6, <2>1, <3>1, ReadMoves, PlaceNames, ReadTypes, Zenon DEF ReadFile
  <2>2. CASE ~ReadsAs(c, entry)
    BY <1>1, <1>6, <2>2, GotoMoves, PlaceNames, Zenon DEF ReadFile
  <2> QED BY <2>1, <2>2, Zenon
<1>7. Return(c) \/ Forget(c) => Puts(c, Idle)
  BY <1>1, FinishMoves, Zenon DEF Return, Forget
<1>8. OnlyKnown(c) => \/ Puts(c, Idle)
                      \/ Puts(c, Went(loc[c], "temp"))
                      \/ Puts(c, Went(loc[c], "place"))
  BY <1>1, FinishMoves, GotoMoves, PlaceNames, Zenon DEF OnlyKnown
<1>9. Unlink(c) => Puts(c, Went(loc[c], "forget"))
  BY <1>1, GotoMoves, PlaceNames, Zenon DEF Unlink
<1> QED BY <1>2, <1>3, <1>4, <1>5, <1>6, <1>7, <1>8, <1>9, Zenon

\* get's decision: a miss, a delete of what expired, or a hit.
LEMMA GetMoves ==
    ASSUME Shape, NEW c \in Threads, GetDecide(c)
    PROVE  \/ Puts(c, Went(loc[c], "miss")) /\ pending' = pending
           \/ /\ "expire" \in Operations
              /\ Puts(c, Waiting(c, "delete", last))
              /\ pending' = [pending EXCEPT ![On[c]] = NoFile]
           \/ /\ Puts(c, WentMeta(loc[c], "hit", IF SameWrite(c) THEN loc[c].cached ELSE loc[c].meta))
              /\ pending' = pending
<1>1. LocShape
  BY Zenon DEF Shape
<1> DEFINE meta == IF SameWrite(c) THEN loc[c].cached ELSE loc[c].meta
<1>2. meta \in Numbers
  BY ReadTypes, Zenon
<1>3. \/ Goto(c, "miss") /\ pending' = pending
      \/ /\ "expire" \in Operations
         /\ loc' = [loc EXCEPT ![c] = Waiting(c, "delete", last)]
         /\ pending' = [pending EXCEPT ![On[c]] = NoFile]
      \/ loc' = [loc EXCEPT ![c].pc = "hit", ![c].meta = meta] /\ pending' = pending
  <2>1. [Idle EXCEPT !.pc = "wait", !.op = "delete", !.waits = PendingOn(On[c]), !.mark = last]
          = Waiting(c, "delete", last)
    BY Zenon DEF Waiting
  <2> QED BY <2>1, Zenon DEF GetDecide
<1> HIDE DEF meta
<1>4. CASE Goto(c, "miss") /\ pending' = pending
  BY <1>1, <1>4, GotoMoves, PlaceNames, Zenon
<1>5. CASE /\ "expire" \in Operations
           /\ loc' = [loc EXCEPT ![c] = Waiting(c, "delete", last)]
           /\ pending' = [pending EXCEPT ![On[c]] = NoFile]
  <2>1. "delete" \in Ops /\ last \in 0 .. MaxWrites /\ NoFile \in Numbers
    BY Zenon DEF Ops, Shape, WriteShape, Numbers
  <2> QED BY <1>1, <1>5, <2>1, BeginningTypes, PutMoves, Zenon
<1>6. CASE loc' = [loc EXCEPT ![c].pc = "hit", ![c].meta = meta] /\ pending' = pending
  <2>1. Puts(c, WentMeta(loc[c], "hit", meta))
    BY <1>1, <1>2, <1>6, MetaMoves, PlaceNames, Zenon
  <2> QED BY <1>6, <2>1, Zenon DEF meta
<1> QED BY <1>3, <1>4, <1>5, <1>6, Zenon

\* get_metadata's answer.
LEMMA MetadataMoves ==
    ASSUME Shape, NEW c \in Threads, MetadataDecide(c)
    PROVE  \/ SameWrite(c) /\ Puts(c, WentMeta(loc[c], "answer", loc[c].cached))
           \/ ~SameWrite(c) /\ Puts(c, Went(loc[c], "answer"))
<1>1. LocShape
  BY Zenon DEF Shape
<1>2. CASE SameWrite(c)
  BY <1>1, <1>2, MetaMoves, PlaceNames, ReadTypes, Zenon DEF MetadataDecide
<1>3. CASE ~SameWrite(c)
  BY <1>1, <1>3, GotoMoves, PlaceNames, Zenon DEF MetadataDecide
<1> QED BY <1>2, <1>3, Zenon

\* What each step of a flush does to the thread's locals.
LEMMA FlushMoves ==
    ASSUME Shape, NEW t \in Threads
    PROVE  /\ FlushBegin(t) => Puts(t, Idle) \/ Puts(t, Went(loc[t], "flush"))
           /\ FlushCached(t) =>
                \/ touched[On[t]].meta = NoFile /\ Puts(t, Idle)
                \/ /\ touched[On[t]].meta # NoFile
                   /\ Puts(t, WentCached(loc[t], "flush_lock", touched[On[t]].meta))
           /\ FlushOpen(t) =>
                \/ /\ HeadWhole(entry) /\ touched[On[t]].id \in {NoIdentity, Identity(entry)}
                   /\ lock' = [lock EXCEPT ![On[t]] = t] /\ UNCHANGED memVars
                   /\ Puts(t, WentFile(loc[t], "flush_write", entry))
                \/ lock' = lock /\ Puts(t, Idle) /\ (UNCHANGED memVars \/ Drop(On[t]))
           /\ FlushWriteBegin(t) => Puts(t, Went(loc[t], "flush_end"))
           /\ FlushWriteEnd(t) => Puts(t, Idle)
<1>1. LocShape
  BY Zenon DEF Shape
<1>2. FlushBegin(t) => Puts(t, Idle) \/ Puts(t, Went(loc[t], "flush"))
  BY <1>1, GotoMoves, FinishMoves, PlaceNames, Zenon DEF FlushBegin
<1>3. FlushCached(t) =>
         \/ touched[On[t]].meta = NoFile /\ Puts(t, Idle)
         \/ /\ touched[On[t]].meta # NoFile
            /\ Puts(t, WentCached(loc[t], "flush_lock", touched[On[t]].meta))
  BY <1>1, AtCachedMoves, FinishMoves, PlaceNames, ReadTypes, Zenon DEF FlushCached
<1>4. FlushOpen(t) =>
         \/ /\ HeadWhole(entry) /\ touched[On[t]].id \in {NoIdentity, Identity(entry)}
            /\ lock' = [lock EXCEPT ![On[t]] = t] /\ UNCHANGED memVars
            /\ Puts(t, WentFile(loc[t], "flush_write", entry))
         \/ lock' = lock /\ Puts(t, Idle) /\ (UNCHANGED memVars \/ Drop(On[t]))
  BY <1>1, FileMoves, FinishMoves, PlaceNames, ReadTypes, Zenon DEF FlushOpen, memVars
<1>5. FlushWriteBegin(t) => Puts(t, Went(loc[t], "flush_end"))
  BY <1>1, GotoMoves, PlaceNames, Zenon DEF FlushWriteBegin
<1>6. FlushWriteEnd(t) => Puts(t, Idle)
  BY <1>1, FinishMoves, Zenon DEF FlushWriteEnd
<1> QED BY <1>2, <1>3, <1>4, <1>5, <1>6, Zenon

\* What is written to a file keeps its type.
LEMMA FillType ==
    ASSUME DirShape, NEW w, NEW contents, w \in Writes => contents \in Files, Fill(w, contents)
    PROVE  file' \in [Writes -> Files]
BY Zenon DEF DirShape, Fill

\* So does what a backend remembers.
LEMMA RememberType ==
    ASSUME MemShape, NEW b \in Backends, NEW m \in Numbers, NEW id \in Numbers \X Numbers,
           NEW st \in Numbers \X Nat, Remember(b, m, id, st)
    PROVE  touched' \in [Backends -> Memory]
<1>1. [meta |-> m, id |-> id, stat |-> st] \in Memory
  BY Zenon DEF Memory
<1> QED BY <1>1, Zenon DEF Remember, MemShape

LEMMA DropType ==
    ASSUME MemShape, NEW b \in Backends, Drop(b)
    PROVE  MemShape'
BY UntouchedType, Zenon DEF Drop, MemShape

\* A thread inside a write has one.
LEMMA HasWrite ==
    ASSUME Shape, NEW t \in Threads, Role(t), loc[t].pc \in Making \cup {"sweep", "lock", "known"}
    PROVE  loc[t].w \in Writes
<1>1. loc[t].w # NoFile
  <2>1. CASE t \in Writers
    BY <2>1, Zenon DEF Role, RoleOf, Making
  <2>2. CASE t \in Flushers
    BY <2>2, Zenon DEF Role, RoleOf, FlusherAt, Making, Flushing
  <2>3. CASE t \in Callers
    BY <2>3, Zenon DEF Role, RoleOf, CallerAt, Making, Flushing
  <2> QED BY <2>1, <2>2, <2>3, Zenon DEF Threads
<1> QED BY <1>1, Zenon DEF Shape, LocShape, Locals, Numbers

LEMMA BlankType == Blank \in Files
BY Zenon DEF Blank, Files, Numbers

\* Types, over the steps of a write.
LEMMA WriteShapes ==
    ASSUME Shape, NEW t \in Threads, Role(t), WriteStep(t)
    PROVE  Shape'
<1>1. CASE WriterTake(t)
  <2>1. LocShape'
    BY <1>1, WriteMoves, Zenon DEF Puts
  <2>2. DirShape' /\ WriteShape' /\ MemShape' /\ BackendShape' /\ BoundShape' /\ deleted' \subseteq Writes
    BY <1>1, Zenon DEF WriterTake, Shape, DirShape, WriteShape, MemShape, BackendShape, BoundShape, dirVars, writeVars, memVars, backendVars, boundVars, histVars
  <2>3. QueueShape'
    BY <1>1, QueueType, ConstantsAssumption, Zenon DEF Shape, WriterTake, QueueShape
  <2> QED BY <2>1, <2>2, <2>3, Zenon DEF Shape
<1>2. CASE Sweep(t)
  <2>1. LocShape'
    BY <1>2, WriteMoves, Zenon DEF Puts
  <2>2. WriteShape' /\ QueueShape' /\ MemShape' /\ BoundShape' /\ deleted' \subseteq Writes
    BY <1>2, Zenon DEF Sweep, Shape, WriteShape, QueueShape, MemShape, BoundShape, writeVars, queueVars, memVars, boundVars, histVars
  <2>3. DirShape'
    BY <1>2, Zenon DEF Shape, Sweep, NoFile, Numbers, DirShape
  <2>4. BackendShape'
    BY <1>2, ConstantsAssumption, Zenon DEF Sweep, Unlock, Shape, backendVars, BackendShape
  <2> QED BY <2>1, <2>2, <2>3, <2>4, Zenon DEF Shape
<1>3. CASE Lock(t)
  <2>1. LocShape'
    BY <1>3, WriteMoves, Zenon DEF Puts
  <2>2. DirShape' /\ WriteShape' /\ QueueShape' /\ MemShape' /\ BoundShape' /\ deleted' \subseteq Writes
    BY <1>3, Zenon DEF Lock, Shape, DirShape, WriteShape, QueueShape, MemShape, BoundShape, dirVars, writeVars, queueVars, memVars, boundVars, histVars
  <2>3. BackendShape'
    BY <1>3, ConstantsAssumption, Zenon DEF Lock, Unlock, Shape, backendVars, BackendShape
  <2> QED BY <2>1, <2>2, <2>3, Zenon DEF Shape
<1>4. CASE Place(t)
  <2>1. LocShape'
    BY <1>4, WriteMoves, Zenon DEF Puts
  <2>2. WriteShape' /\ QueueShape' /\ MemShape' /\ BackendShape' /\ BoundShape' /\ deleted' \subseteq Writes
    BY <1>4, Zenon DEF Place, Shape, WriteShape, QueueShape, MemShape, BackendShape, BoundShape, writeVars, queueVars, memVars, backendVars, boundVars, histVars
  <2>3. DirShape'
    BY <1>4, BlankType, FillType, ReadTypes, Zenon DEF Place, Shape, Files, Numbers, DirShape
  <2> QED BY <2>1, <2>2, <2>3, Zenon DEF Shape
<1>5. CASE PlaceBody(t)
  <2>1. LocShape'
    BY <1>5, WriteMoves, Zenon DEF Puts
  <2>2. WriteShape' /\ QueueShape' /\ MemShape' /\ BackendShape' /\ BoundShape' /\ deleted' \subseteq Writes
    BY <1>5, Zenon DEF PlaceBody, Shape, WriteShape, QueueShape, MemShape, BackendShape, BoundShape, writeVars, queueVars, memVars, backendVars, boundVars, histVars
  <2>3. DirShape'
    <3>1. loc[t].w \in Writes => [file[loc[t].w] EXCEPT !.body = TRUE] \in Files
      <4>1. loc[t].w \in Writes => file[loc[t].w] \in Files
        BY Zenon DEF Shape, DirShape
      <4> QED BY <4>1, Zenon DEF Files
    <3> QED BY <1>5, <3>1, FillType, Zenon DEF PlaceBody, Shape, DirShape
  <2> QED BY <2>1, <2>2, <2>3, Zenon DEF Shape
<1>6. CASE PlaceHeadBegin(t)
  <2>1. LocShape'
    BY <1>6, WriteMoves, Zenon DEF Puts
  <2>2. WriteShape' /\ QueueShape' /\ MemShape' /\ BackendShape' /\ BoundShape' /\ deleted' \subseteq Writes
    BY <1>6, Zenon DEF PlaceHeadBegin, Shape, WriteShape, QueueShape, MemShape, BackendShape, BoundShape, writeVars, queueVars, memVars, backendVars, boundVars, histVars
  <2>3. DirShape'
    <3>1. loc[t].w \in Writes => [file[loc[t].w] EXCEPT !.head = "torn"] \in Files
      <4>1. loc[t].w \in Writes => file[loc[t].w] \in Files
        BY Zenon DEF Shape, DirShape
      <4> QED BY <4>1, Zenon DEF Files
    <3> QED BY <1>6, <3>1, FillType, Zenon DEF PlaceHeadBegin, Shape, DirShape
  <2> QED BY <2>1, <2>2, <2>3, Zenon DEF Shape
<1>7. CASE PlaceHeadEnd(t)
  <2>1. LocShape'
    BY <1>7, WriteMoves, Zenon DEF Puts
  <2>2. WriteShape' /\ QueueShape' /\ MemShape' /\ BackendShape' /\ BoundShape' /\ deleted' \subseteq Writes
    BY <1>7, Zenon DEF PlaceHeadEnd, Shape, WriteShape, QueueShape, MemShape, BackendShape, BoundShape, writeVars, queueVars, memVars, backendVars, boundVars, histVars
  <2>3. DirShape'
    <3>1. loc[t].w \in Writes => [file[loc[t].w] EXCEPT !.head = "whole", !.meta = loc[t].w] \in Files
      <4>1. loc[t].w \in Writes => file[loc[t].w] \in Files
        BY Zenon DEF Shape, DirShape
      <4> QED BY <4>1, ReadTypes, Zenon DEF Files
    <3> QED BY <1>7, <3>1, FillType, Zenon DEF PlaceHeadEnd, Shape, DirShape
  <2> QED BY <2>1, <2>2, <2>3, Zenon DEF Shape
<1>8. CASE PlaceClose(t)
  <2>1. LocShape'
    BY <1>8, WriteMoves, Zenon DEF Puts
  <2>2. DirShape' /\ WriteShape' /\ QueueShape' /\ MemShape' /\ BackendShape' /\ BoundShape' /\ deleted' \subseteq Writes
    BY <1>8, Zenon DEF PlaceClose, Shape, DirShape, WriteShape, QueueShape, MemShape, BackendShape, BoundShape, dirVars, writeVars, queueVars, memVars, backendVars, boundVars, histVars
  <2> QED BY <2>1, <2>2, Zenon DEF Shape
<1>9. CASE PlaceFails(t)
  <2>1. LocShape'
    BY <1>9, WriteMoves, Zenon DEF Puts
  <2>2. WriteShape' /\ QueueShape' /\ MemShape' /\ BackendShape' /\ BoundShape' /\ deleted' \subseteq Writes
    BY <1>9, Zenon DEF PlaceFails, Shape, WriteShape, QueueShape, MemShape, BackendShape, BoundShape, writeVars, queueVars, memVars, backendVars, boundVars, histVars
  <2>3. DirShape'
    BY <1>9, Zenon DEF Shape, PlaceFails, NoFile, Numbers, DirShape
  <2> QED BY <2>1, <2>2, <2>3, Zenon DEF Shape
<1>10. CASE TempCreate(t)
  <2>1. LocShape'
    BY <1>10, WriteMoves, MissingMoves, Zenon DEF Puts, TempCreate
  <2>2. WriteShape' /\ QueueShape' /\ MemShape' /\ BackendShape' /\ BoundShape' /\ deleted' \subseteq Writes
    BY <1>10, Zenon DEF TempCreate, Shape, WriteShape, QueueShape, MemShape, BackendShape, BoundShape, writeVars, queueVars, memVars, backendVars, boundVars, histVars
  <2>3. loc[t].w \in Writes
    BY <1>10, HasWrite, SMTT(30) DEF TempCreate, At, Making
  <2>4. CASE dir
    BY <1>10, <2>1, <2>2, <2>3, <2>4, BlankType, FillType, Zenon DEF TempCreate, Shape, DirShape
  <2>5. CASE ~dir
    BY <1>10, <2>1, <2>2, <2>5, MissingMoves, Zenon DEF TempCreate, Shape, DirShape
  <2> QED BY <2>4, <2>5, Zenon
<1>11. CASE TempFill(t)
  <2>1. LocShape'
    BY <1>11, WriteMoves, Zenon DEF Puts
  <2>2. WriteShape' /\ QueueShape' /\ MemShape' /\ BackendShape' /\ BoundShape' /\ deleted' \subseteq Writes
    BY <1>11, Zenon DEF TempFill, Shape, WriteShape, QueueShape, MemShape, BackendShape, BoundShape, writeVars, queueVars, memVars, backendVars, boundVars, histVars
  <2>3. DirShape'
    <3>1. [head |-> "whole", meta |-> loc[t].w, body |-> TRUE, mtime |-> 0] \in Files
      BY ReadTypes, Zenon DEF Files
    <3> QED BY <1>11, <3>1, FillType, Zenon DEF TempFill, Shape, DirShape
  <2> QED BY <2>1, <2>2, <2>3, Zenon DEF Shape
<1>12. CASE TempFails(t)
  <2>1. LocShape'
    BY <1>12, WriteMoves, Zenon DEF Puts
  <2>2. WriteShape' /\ QueueShape' /\ MemShape' /\ BackendShape' /\ BoundShape' /\ deleted' \subseteq Writes
    BY <1>12, Zenon DEF TempFails, Shape, WriteShape, QueueShape, MemShape, BackendShape, BoundShape, writeVars, queueVars, memVars, backendVars, boundVars, histVars
  <2>3. DirShape'
    BY <1>12, Zenon DEF Shape, TempFails, NoFile, Numbers, DirShape
  <2> QED BY <2>1, <2>2, <2>3, Zenon DEF Shape
<1>13. CASE Rename(t)
  <2>1. LocShape'
    BY <1>13, WriteMoves, MissingMoves, Zenon DEF Puts, Rename
  <2>2. WriteShape' /\ QueueShape' /\ MemShape' /\ BackendShape' /\ BoundShape' /\ deleted' \subseteq Writes
    BY <1>13, Zenon DEF Rename, Shape, WriteShape, QueueShape, MemShape, BackendShape, BoundShape, writeVars, queueVars, memVars, backendVars, boundVars, histVars
  <2>3. DirShape'
    BY <1>13, FillType, ReadTypes, WriteMoves, MissingMoves, Zenon DEF Rename, Shape, Files, Numbers, DirShape
  <2> QED BY <2>1, <2>2, <2>3, Zenon DEF Shape
<1>14. CASE Written(t)
  <2>1. LocShape'
    BY <1>14, WriteMoves, Zenon DEF Puts
  <2>2. DirShape' /\ WriteShape' /\ QueueShape' /\ MemShape' /\ BoundShape' /\ deleted' \subseteq Writes
    BY <1>14, Zenon DEF Written, Shape, DirShape, WriteShape, QueueShape, MemShape, BoundShape, dirVars, writeVars, queueVars, memVars, boundVars, histVars
  <2>3. BackendShape'
    BY <1>14, ConstantsAssumption, Zenon DEF Written, Unlock, Shape, backendVars, BackendShape
  <2> QED BY <2>1, <2>2, <2>3, Zenon DEF Shape
<1>15. CASE RememberWritten(t)
  <2>1. LocShape'
    BY <1>15, WriteMoves, Zenon DEF Puts
  <2>2. DirShape' /\ WriteShape' /\ QueueShape' /\ BackendShape' /\ BoundShape' /\ deleted' \subseteq Writes
    BY <1>15, SMTT(30) DEF RememberWritten, Shape, DirShape, WriteShape, QueueShape, BackendShape, BoundShape, dirVars, writeVars, queueVars, backendVars, boundVars, histVars
  <2>3. MemShape'
    <3>1. <<loc[t].w, loc[t].w>> \in Numbers \X Numbers /\ NoStat \in Numbers \X Nat
      BY ReadTypes, Zenon DEF NoStat, Numbers
    <3> QED BY <1>15, <3>1, ReadTypes, RememberType, Zenon DEF RememberWritten, Shape, MemShape
  <2> QED BY <2>1, <2>2, <2>3, Zenon DEF Shape
<1>16. CASE WriteFailed(t)
  <2>1. LocShape'
    BY <1>16, WriteMoves, Zenon DEF Puts
  <2>2. DirShape' /\ WriteShape' /\ QueueShape' /\ MemShape' /\ BoundShape' /\ deleted' \subseteq Writes
    BY <1>16, Zenon DEF WriteFailed, Shape, DirShape, WriteShape, QueueShape, MemShape, BoundShape, dirVars, writeVars, queueVars, memVars, boundVars, histVars
  <2>3. BackendShape'
    BY <1>16, ConstantsAssumption, Zenon DEF WriteFailed, Unlock, Shape, backendVars, BackendShape
  <2> QED BY <2>1, <2>2, <2>3, Zenon DEF Shape
<1> QED BY <1>1, <1>2, <1>3, <1>4, <1>5, <1>6, <1>7, <1>8, <1>9, <1>10, <1>11, <1>12, <1>13, <1>14, <1>15, <1>16, Zenon DEF WriteStep

\* Types, over the steps of a call.
LEMMA CallShapes ==
    ASSUME Shape, NEW t \in Threads, CallStep(t)
    PROVE  Shape'
<1>1. CASE SetBegin(t)
  <2>1. LocShape'
    BY <1>1, BeginningMoves, Zenon DEF Puts
  <2>2. DirShape' /\ WriteShape' /\ QueueShape' /\ MemShape' /\ BackendShape' /\ BoundShape' /\ deleted' \subseteq Writes
    BY <1>1, Zenon DEF SetBegin, Shape, DirShape, WriteShape, QueueShape, MemShape, BackendShape, BoundShape, dirVars, writeVars, queueVars, memVars, backendVars, boundVars, histVars
  <2> QED BY <2>1, <2>2, SMTT(30) DEF Shape
<1>2. CASE SetSubmit(t)
  <2>1. LocShape'
    BY <1>2, BeginningMoves, Zenon DEF Puts
  <2>2. DirShape' /\ MemShape' /\ BackendShape' /\ BoundShape' /\ deleted' \subseteq Writes
    BY <1>2, Zenon DEF SetSubmit, Shape, DirShape, MemShape, BackendShape, BoundShape, dirVars, memVars, backendVars, boundVars, histVars
  <2>3. WriteShape'
    BY <1>2, ConstantsAssumption DEF SetSubmit, NewWrite, Shape, Writes, WriteShape
  <2>4. QueueShape'
    <3>1. last + 1 \in Writes /\ last + 1 \in Numbers
      BY <1>2, ConstantsAssumption DEF SetSubmit, NewWrite, Shape, WriteShape, Writes, Numbers
    <3>2. Append(queue[On[t]], last + 1) \in Seq(Writes)
      BY <3>1, ReadTypes DEF Shape, QueueShape
    <3> QED BY <1>2, <3>1, <3>2, ReadTypes, Zenon DEF SetSubmit, Shape, QueueShape
  <2> QED BY <2>1, <2>2, <2>3, <2>4, Zenon DEF Shape
<1>3. CASE ReadBegin(t)
  <2>1. LocShape'
    BY <1>3, BeginningMoves, Zenon DEF Puts
  <2>2. DirShape' /\ WriteShape' /\ QueueShape' /\ MemShape' /\ BackendShape' /\ BoundShape' /\ deleted' \subseteq Writes
    BY <1>3, Zenon DEF ReadBegin, Shape, DirShape, WriteShape, QueueShape, MemShape, BackendShape, BoundShape, dirVars, writeVars, queueVars, memVars, backendVars, boundVars, histVars
  <2> QED BY <2>1, <2>2, Zenon DEF Shape
<1>4. CASE OnlyBegin(t)
  <2>1. LocShape'
    BY <1>4, BeginningMoves, Zenon DEF Puts
  <2>2. DirShape' /\ QueueShape' /\ MemShape' /\ BackendShape' /\ BoundShape' /\ deleted' \subseteq Writes
    BY <1>4, Zenon DEF OnlyBegin, Shape, DirShape, QueueShape, MemShape, BackendShape, BoundShape, dirVars, queueVars, memVars, backendVars, boundVars, histVars
  <2>3. WriteShape'
    BY <1>4, ConstantsAssumption DEF OnlyBegin, NewWrite, Shape, Writes, WriteShape
  <2> QED BY <2>1, <2>2, <2>3, Zenon DEF Shape
<1>5. CASE DeleteBegin(t)
  <2>1. LocShape'
    BY <1>5, BeginningMoves, Zenon DEF Puts
  <2>2. DirShape' /\ WriteShape' /\ MemShape' /\ BackendShape' /\ BoundShape' /\ deleted' \subseteq Writes
    BY <1>5, Zenon DEF DeleteBegin, Shape, DirShape, WriteShape, MemShape, BackendShape, BoundShape, dirVars, writeVars, memVars, backendVars, boundVars, histVars
  <2>3. QueueShape'
    BY <1>5, ConstantsAssumption, ReadTypes, SMTT(30) DEF DeleteBegin, NewWrite, Shape, WriteShape, Numbers, NoFile, Writes, QueueShape
  <2> QED BY <2>1, <2>2, <2>3, Zenon DEF Shape
<1>6. CASE ClearBegin(t)
  <2>1. LocShape'
    BY <1>6, BeginningMoves, Zenon DEF Puts
  <2>2. DirShape' /\ WriteShape' /\ QueueShape' /\ MemShape' /\ BackendShape' /\ BoundShape' /\ deleted' \subseteq Writes
    BY <1>6, Zenon DEF ClearBegin, Shape, DirShape, WriteShape, QueueShape, MemShape, BackendShape, BoundShape, dirVars, writeVars, queueVars, memVars, backendVars, boundVars, histVars
  <2> QED BY <2>1, <2>2, Zenon DEF Shape
<1>7. CASE WaitOwn(t)
  <2>1. LocShape'
    BY <1>7, CallMoves, Zenon DEF Puts
  <2>2. DirShape' /\ WriteShape' /\ QueueShape' /\ MemShape' /\ BackendShape' /\ BoundShape' /\ deleted' \subseteq Writes
    BY <1>7, Zenon DEF WaitOwn, Shape, DirShape, WriteShape, QueueShape, MemShape, BackendShape, BoundShape, dirVars, writeVars, queueVars, memVars, backendVars, boundVars, histVars
  <2> QED BY <2>1, <2>2, Zenon DEF Shape
<1>8. CASE WaitSiblings(t)
  <2>1. LocShape'
    BY <1>8, CallMoves, Zenon DEF Puts
  <2>2. DirShape' /\ WriteShape' /\ QueueShape' /\ MemShape' /\ BackendShape' /\ BoundShape' /\ deleted' \subseteq Writes
    BY <1>8, Zenon DEF WaitSiblings, Shape, DirShape, WriteShape, QueueShape, MemShape, BackendShape, BoundShape, dirVars, writeVars, queueVars, memVars, backendVars, boundVars, histVars
  <2> QED BY <2>1, <2>2, Zenon DEF Shape
<1>9. CASE Cached(t)
  <2>1. LocShape'
    BY <1>9, CallMoves, Zenon DEF Puts
  <2>2. DirShape' /\ WriteShape' /\ QueueShape' /\ MemShape' /\ BackendShape' /\ BoundShape' /\ deleted' \subseteq Writes
    BY <1>9, Zenon DEF Cached, Shape, DirShape, WriteShape, QueueShape, MemShape, BackendShape, BoundShape, dirVars, writeVars, queueVars, memVars, backendVars, boundVars, histVars
  <2> QED BY <2>1, <2>2, Zenon DEF Shape
<1>10. CASE Stat(t)
  <2>1. LocShape'
    BY <1>10, CallMoves, Zenon DEF Puts
  <2>2. DirShape' /\ WriteShape' /\ QueueShape' /\ MemShape' /\ BackendShape' /\ BoundShape' /\ deleted' \subseteq Writes
    BY <1>10, Zenon DEF Stat, Shape, DirShape, WriteShape, QueueShape, MemShape, BackendShape, BoundShape, dirVars, writeVars, queueVars, memVars, backendVars, boundVars, histVars
  <2> QED BY <2>1, <2>2, Zenon DEF Shape
<1>11. CASE ReadFile(t)
  <2>1. LocShape'
    BY <1>11, CallMoves, Zenon DEF Puts
  <2>2. DirShape' /\ WriteShape' /\ QueueShape' /\ BackendShape' /\ BoundShape' /\ deleted' \subseteq Writes
    BY <1>11, Zenon DEF ReadFile, Shape, DirShape, WriteShape, QueueShape, BackendShape, BoundShape, dirVars, writeVars, queueVars, backendVars, boundVars, histVars
  <2>3. MemShape'
    BY <1>11, ReadTypes, UntouchedType, ZenonT(30) DEF ReadFile, Remember, Drop, Shape, Memory, memVars, MemShape
  <2> QED BY <2>1, <2>2, <2>3, Zenon DEF Shape
<1>12. CASE GetDecide(t)
  <2>1. LocShape'
    BY <1>12, GetMoves, Zenon DEF Puts
  <2>2. DirShape' /\ WriteShape' /\ BackendShape' /\ BoundShape' /\ deleted' \subseteq Writes
    BY <1>12, Zenon DEF GetDecide, Shape, DirShape, WriteShape, BackendShape, BoundShape, dirVars, writeVars, backendVars, boundVars, histVars
  <2>3. MemShape'
    <3> DEFINE meta == IF SameWrite(t) THEN loc[t].cached ELSE loc[t].meta
    <3>1. meta \in Numbers /\ <<loc[t].file, meta>> \in Numbers \X Numbers /\ NoStat \in Numbers \X Nat
      BY ReadTypes, Zenon DEF NoStat, Numbers
    <3>2. touched' = touched \/ Remember(On[t], meta, <<loc[t].file, meta>>, NoStat)
      BY <1>12, Zenon DEF GetDecide
    <3>3. touched' \in [Backends -> Memory]
      BY <3>1, <3>2, ReadTypes, RememberType, SMTT(30) DEF Shape, MemShape
    <3>4. unflushed' \in [Backends -> BOOLEAN]
      BY <1>12, ReadTypes, Zenon DEF GetDecide, Shape, MemShape
    <3> QED BY <3>3, <3>4, Zenon DEF MemShape
  <2>4. QueueShape'
    BY <1>12, ConstantsAssumption, ReadTypes, GetMoves, Zenon DEF GetDecide, NewWrite, Shape, WriteShape, Numbers, NoFile, Writes, QueueShape
  <2> QED BY <2>1, <2>2, <2>3, <2>4, Zenon DEF Shape
<1>13. CASE MetadataDecide(t)
  <2>1. LocShape'
    BY <1>13, MetadataMoves, Zenon DEF Puts
  <2>2. DirShape' /\ WriteShape' /\ QueueShape' /\ BackendShape' /\ BoundShape' /\ deleted' \subseteq Writes
    BY <1>13, Zenon DEF MetadataDecide, Shape, DirShape, WriteShape, QueueShape, BackendShape, BoundShape, dirVars, writeVars, queueVars, backendVars, boundVars, histVars
  <2>3. MemShape'
    <3>1. <<loc[t].file, loc[t].meta>> \in Numbers \X Numbers
      BY ReadTypes, Zenon
    <3>2. CASE SameWrite(t)
      <4>1. touched' = [touched EXCEPT ![On[t]].stat = loc[t].stat] /\ unflushed' = unflushed
        BY <1>13, <3>2, Zenon DEF MetadataDecide
      <4>2. [touched[On[t]] EXCEPT !.stat = loc[t].stat] \in Memory
        <5>1. touched[On[t]] \in Memory /\ loc[t].stat \in Numbers \X Nat
          BY ReadTypes, Zenon DEF Shape, MemShape
        <5> QED BY <5>1, Zenon DEF Memory
      <4> QED BY <4>1, <4>2, ReadTypes, Zenon DEF Shape, MemShape
    <3>3. CASE ~SameWrite(t)
      BY <1>13, <3>1, <3>3, ReadTypes, RememberType, Zenon DEF MetadataDecide, Shape, MemShape
    <3> QED BY <3>2, <3>3, Zenon
  <2> QED BY <2>1, <2>2, <2>3, Zenon DEF Shape
<1>14. CASE Return(t)
  <2>1. LocShape'
    BY <1>14, CallMoves, Zenon DEF Puts
  <2>2. DirShape' /\ WriteShape' /\ QueueShape' /\ MemShape' /\ BackendShape' /\ BoundShape' /\ deleted' \subseteq Writes
    BY <1>14, Zenon DEF Return, Shape, DirShape, WriteShape, QueueShape, MemShape, BackendShape, BoundShape, dirVars, writeVars, queueVars, memVars, backendVars, boundVars, histVars
  <2> QED BY <2>1, <2>2, Zenon DEF Shape
<1>15. CASE OnlyKnown(t)
  <2>1. LocShape'
    BY <1>15, CallMoves, Zenon DEF Puts
  <2>2. DirShape' /\ WriteShape' /\ QueueShape' /\ MemShape' /\ BackendShape' /\ BoundShape' /\ deleted' \subseteq Writes
    BY <1>15, SMTT(30) DEF OnlyKnown, Shape, DirShape, WriteShape, QueueShape, MemShape, BackendShape, BoundShape, dirVars, writeVars, queueVars, memVars, backendVars, boundVars, histVars
  <2> QED BY <2>1, <2>2, Zenon DEF Shape
<1>16. CASE Unlink(t)
  <2>1. LocShape'
    BY <1>16, CallMoves, Zenon DEF Puts
  <2>2. WriteShape' /\ QueueShape' /\ MemShape' /\ BackendShape' /\ BoundShape'
    BY <1>16, SMTT(30) DEF Unlink, Shape, WriteShape, QueueShape, MemShape, BackendShape, BoundShape, writeVars, queueVars, memVars, backendVars, boundVars
  <2>3. DirShape'
    BY <1>16, SMTT(30) DEF Shape, Unlink, NoFile, Numbers, DirShape
  <2>4. deleted' \subseteq Writes
    <3>1. loc[t].mark \in 0 .. MaxWrites
      BY Zenon DEF Shape, LocShape, Locals
    <3>2. 1 .. loc[t].mark \subseteq Writes
      BY <3>1, ConstantsAssumption DEF Writes
    <3> QED BY <1>16, <3>2, Zenon DEF Unlink, Shape
  <2> QED BY <2>1, <2>2, <2>3, <2>4, Zenon DEF Shape
<1>17. CASE Forget(t)
  <2>1. LocShape'
    BY <1>17, CallMoves, Zenon DEF Puts
  <2>2. DirShape' /\ WriteShape' /\ QueueShape' /\ BackendShape' /\ BoundShape' /\ deleted' \subseteq Writes
    BY <1>17, SMTT(30) DEF Forget, Shape, DirShape, WriteShape, QueueShape, BackendShape, BoundShape, dirVars, writeVars, queueVars, backendVars, boundVars, histVars
  <2>3. MemShape'
    BY <1>17, ReadTypes, UntouchedType, Zenon DEF Forget, Remember, Drop, Shape, Memory, memVars, MemShape
  <2> QED BY <2>1, <2>2, <2>3, Zenon DEF Shape
<1> QED BY <1>1, <1>2, <1>3, <1>4, <1>5, <1>6, <1>7, <1>8, <1>9, <1>10, <1>11, <1>12, <1>13, <1>14, <1>15, <1>16, <1>17, Zenon DEF CallStep

\* Types, over the steps of a flush.
LEMMA FlushShapes ==
    ASSUME Shape, NEW t \in Threads, FlushStep(t)
    PROVE  Shape'
<1>1. CASE FlushBegin(t)
  <2>1. LocShape'
    BY <1>1, FlushMoves, Zenon DEF Puts
  <2>2. DirShape' /\ WriteShape' /\ QueueShape' /\ deleted' \subseteq Writes
    BY <1>1, Zenon DEF FlushBegin, Shape, DirShape, WriteShape, QueueShape, dirVars, writeVars, queueVars, histVars
  <2>3. MemShape'
    BY <1>1, ReadTypes, UntouchedType, SMTT(30) DEF FlushBegin, Remember, Drop, Shape, Memory, memVars, MemShape
  <2>4. BackendShape'
    BY <1>1, ConstantsAssumption, Zenon DEF FlushBegin, Unlock, Shape, backendVars, BackendShape
  <2>5. BoundShape'
    BY <1>1 DEF FlushBegin, Shape, BoundShape
  <2> QED BY <2>1, <2>2, <2>3, <2>4, <2>5, Zenon DEF Shape
<1>2. CASE FlushCached(t)
  <2>1. LocShape'
    BY <1>2, FlushMoves, Zenon DEF Puts
  <2>2. DirShape' /\ WriteShape' /\ QueueShape' /\ MemShape' /\ BackendShape' /\ BoundShape' /\ deleted' \subseteq Writes
    BY <1>2, Zenon DEF FlushCached, Shape, DirShape, WriteShape, QueueShape, MemShape, BackendShape, BoundShape, dirVars, writeVars, queueVars, memVars, backendVars, boundVars, histVars
  <2> QED BY <2>1, <2>2, Zenon DEF Shape
<1>3. CASE FlushOpen(t)
  <2>1. LocShape'
    BY <1>3, FlushMoves, Zenon DEF Puts
  <2>2. DirShape' /\ WriteShape' /\ QueueShape' /\ BoundShape' /\ deleted' \subseteq Writes
    BY <1>3, Zenon DEF FlushOpen, Shape, DirShape, WriteShape, QueueShape, BoundShape, dirVars, writeVars, queueVars, boundVars, histVars
  <2>3. MemShape'
    <3>1. UNCHANGED memVars \/ Drop(On[t])
      BY <1>3, FlushMoves, Zenon
    <3> QED BY <3>1, ReadTypes, DropType, Zenon DEF Shape, MemShape, memVars
  <2>4. BackendShape'
    BY <1>3, ConstantsAssumption DEF FlushOpen, Unlock, Shape, backendVars, BackendShape
  <2> QED BY <2>1, <2>2, <2>3, <2>4, Zenon DEF Shape
<1>4. CASE FlushWriteBegin(t)
  <2>1. LocShape'
    BY <1>4, FlushMoves, Zenon DEF Puts
  <2>2. WriteShape' /\ QueueShape' /\ MemShape' /\ BackendShape' /\ BoundShape' /\ deleted' \subseteq Writes
    BY <1>4, Zenon DEF FlushWriteBegin, Shape, WriteShape, QueueShape, MemShape, BackendShape, BoundShape, writeVars, queueVars, memVars, backendVars, boundVars, histVars
  <2>3. DirShape'
    <3>1. loc[t].file \in Writes => [file[loc[t].file] EXCEPT !.head = "torn"] \in Files
      <4>1. loc[t].file \in Writes => file[loc[t].file] \in Files
        BY Zenon DEF Shape, DirShape
      <4> QED BY <4>1, Zenon DEF Files
    <3> QED BY <1>4, <3>1, FillType, Zenon DEF FlushWriteBegin, Shape, DirShape
  <2> QED BY <2>1, <2>2, <2>3, Zenon DEF Shape
<1>5. CASE FlushWriteEnd(t)
  <2>1. LocShape'
    BY <1>5, FlushMoves, Zenon DEF Puts
  <2>2. WriteShape' /\ QueueShape' /\ MemShape' /\ BoundShape' /\ deleted' \subseteq Writes
    BY <1>5, Zenon DEF FlushWriteEnd, Shape, WriteShape, QueueShape, MemShape, BoundShape, writeVars, queueVars, memVars, boundVars, histVars
  <2>3. DirShape'
    <3>1. loc[t].file \in Writes =>
             [file[loc[t].file] EXCEPT !.head = "whole", !.meta = loc[t].cached, !.mtime = @ + 1] \in Files
      <4> SUFFICES ASSUME NEW f \in Writes, NEW m \in Numbers, file[f] \in Files
                   PROVE  [file[f] EXCEPT !.head = "whole", !.meta = m, !.mtime = @ + 1] \in Files
        BY ReadTypes, Zenon DEF Shape, DirShape
      <4>1. file[f].mtime + 1 \in Nat
        BY DEF Files
      <4> QED BY <4>1, Zenon DEF Files
    <3> QED BY <1>5, <3>1, FillType, Zenon DEF FlushWriteEnd, Shape, DirShape
  <2>4. BackendShape'
    BY <1>5, ConstantsAssumption, Zenon DEF FlushWriteEnd, Unlock, Shape, backendVars, BackendShape
  <2> QED BY <2>1, <2>2, <2>3, <2>4, Zenon DEF Shape
<1> QED BY <1>1, <1>2, <1>3, <1>4, <1>5, Zenon DEF FlushStep

\* Types, when a process is killed or the directory removed.
LEMMA EnvironmentShapes ==
    ASSUME Shape, (\E p \in Processes : Crash(p)) \/ Wipe
    PROVE  Shape'
<1>1. ASSUME NEW p \in Processes, Crash(p)
      PROVE  Shape'
  <2>1. DirShape' /\ WriteShape' /\ BoundShape' /\ deleted' \subseteq Writes
    <3>1. /\ UNCHANGED <<dir, entry, file, temps, last, ofBackend, kind, flushes, wipes, deleted>>
          /\ crashes' = crashes + 1
      BY <1>1, Zenon DEF Crash, writeVars
    <3> QED BY <3>1 DEF Shape, DirShape, WriteShape, BoundShape
  <2>2. QueueShape' /\ MemShape' /\ BackendShape'
    <3>1. /\ queue' = [b \in Backends |-> IF ProcessOf[b] = p THEN <<>> ELSE queue[b]]
          /\ pending' = [b \in Backends |-> IF ProcessOf[b] = p THEN NoFile ELSE pending[b]]
          /\ touched' = [b \in Backends |-> IF ProcessOf[b] = p THEN Untouched ELSE touched[b]]
          /\ unflushed' = [b \in Backends |-> IF ProcessOf[b] = p THEN FALSE ELSE unflushed[b]]
          /\ lock' = [b \in Backends |-> IF ProcessOf[b] = p THEN Free ELSE lock[b]]
          /\ swept' = [b \in Backends |-> IF ProcessOf[b] = p THEN FALSE ELSE swept[b]]
          /\ closed' = [b \in Backends |-> IF ProcessOf[b] = p THEN FALSE ELSE closed[b]]
      BY <1>1, Zenon DEF Crash
    <3>2. QueueShape'
      <4>1. <<>> \in Seq(Writes) /\ NoFile \in Numbers
        BY DEF Numbers
      <4> QED BY <3>1, <4>1, Zenon DEF Shape, QueueShape
    <3>3. MemShape'
      BY <3>1, UntouchedType, Zenon DEF Shape, MemShape
    <3>4. BackendShape'
      BY <3>1, Zenon DEF Shape, BackendShape
    <3> QED BY <3>2, <3>3, <3>4, Zenon
  <2>3. LocShape'
    BY <1>1, IdleType, Zenon DEF Crash, Shape, LocShape
  <2> QED BY <2>1, <2>2, <2>3, Zenon DEF Shape
<1>2. CASE Wipe
  <2>1. DirShape' /\ WriteShape' /\ BoundShape' /\ deleted' \subseteq Writes
    <3>1. /\ UNCHANGED <<file, last, ofBackend, kind, flushes, crashes, deleted>>
          /\ wipes' = wipes + 1 /\ dir' = FALSE /\ entry' = NoFile /\ temps' = {}
      BY <1>2, Zenon DEF Wipe, writeVars
    <3>2. DirShape'
      BY <3>1, Zenon DEF Shape, DirShape, Numbers
    <3> QED BY <3>1, <3>2 DEF Shape, WriteShape, BoundShape
  <2>2. QueueShape' /\ MemShape' /\ BackendShape' /\ LocShape'
    BY <1>2, Zenon DEF Wipe, Shape, QueueShape, MemShape, BackendShape, LocShape, queueVars, memVars, backendVars
  <2> QED BY <2>1, <2>2, Zenon DEF Shape
<1> QED BY <1>1, <1>2, Zenon

-----------------------------------------------------------------------------
(* Where each thread is.                                                   *)

\* A thread between two operations has no write.
LEMMA IdleRole ==
    ASSUME NEW t
    PROVE  RoleOf(t, Idle)
BY Zenon DEF RoleOf, Idle, WriterAt, FlusherAt, CallerAt, Making

\* A step inside a write keeps the role.
LEMMA MakingRole ==
    ASSUME NEW t \in Threads, NEW l, NEW r, RoleOf(t, l), r.op = l.op, r.w = l.w,
           \/ l.pc \in Making \cup {"lock", "known"} /\ r.pc \in Making
           \/ l.pc = "sweep" /\ r.pc = "lock"
    PROVE  RoleOf(t, r)
<1>1. CASE t \in Writers
  BY <1>1, ConstantsAssumption, Zenon DEF RoleOf, WriterAt, Making
<1>2. CASE t \in Flushers
  BY <1>2, Zenon DEF RoleOf, FlusherAt, Flushing, Making
<1>3. CASE t \in Callers
  <2>1. l.pc \notin {"sweep", "lock"}
    BY <1>3, Zenon DEF RoleOf, CallerAt, Making, Flushing
  <2>2. l.op = "set_metadata_only" /\ r.pc \in Making
    BY <1>3, <2>1, Zenon DEF RoleOf
  <2>3. r.pc \in CallerAt
    BY <2>2, Zenon DEF CallerAt
  <2> QED BY <1>3, <2>2, <2>3, ConstantsAssumption, Zenon DEF RoleOf
<1> QED BY <1>1, <1>2, <1>3, Zenon DEF Threads

\* Where one thread goes says nothing of the others.
LEMMA RolesKept ==
    ASSUME Roles, NEW t \in Threads, NEW r, Puts(t, r), RoleOf(t, r)
    PROVE  Roles'
BY Zenon DEF Roles, Role, RoleOf, Puts

\* What an update of where it is leaves of a thread's locals.
LEMMA LocalsType ==
    ASSUME Shape, NEW t \in Threads
    PROVE  loc[t] \in Locals
BY Zenon DEF Shape, LocShape

LEMMA GotoRole ==
    ASSUME Shape, Roles, NEW t \in Threads, NEW where,
           Puts(t, Went(loc[t], where)),
           \/ loc[t].pc \in Making \cup {"lock", "known"} /\ where \in Making
           \/ loc[t].pc = "sweep" /\ where = "lock"
    PROVE  Roles'
<1>1. LET r == Went(loc[t], where) IN r.pc = where /\ r.op = loc[t].op /\ r.w = loc[t].w
  BY WentFields, LocalsType, Zenon
<1>2. RoleOf(t, loc[t])
  BY Zenon DEF Roles, Role
<1>3. RoleOf(t, Went(loc[t], where))
  BY <1>1, <1>2, MakingRole, Zenon
<1> QED BY <1>3, RolesKept, Zenon

\* A missing directory sends the write back to the place, or fails it.
LEMMA MissingRole ==
    ASSUME Shape, Roles, NEW t \in Threads, Missing(t), loc[t].pc \in Making
    PROVE  Roles'
<1>1. CASE Puts(t, WentBack(loc[t]))
  <2>1. LET r == WentBack(loc[t]) IN r.pc = "place" /\ r.op = loc[t].op /\ r.w = loc[t].w
    BY WentBackFields, LocalsType, Zenon
  <2>2. RoleOf(t, loc[t])
    BY Zenon DEF Roles, Role
  <2>3. RoleOf(t, WentBack(loc[t]))
    BY <2>1, <2>2, MakingRole, Zenon DEF Making
  <2> QED BY <1>1, <2>3, RolesKept, Zenon
<1>2. CASE Puts(t, Went(loc[t], "failed"))
  BY <1>2, GotoRole, Zenon DEF Making
<1> QED BY <1>1, <1>2, MissingMoves, Zenon

\* Roles, over the steps of a write.
LEMMA WriteRoles ==
    ASSUME Shape, Roles, NEW t \in Threads, WriteStep(t)
    PROVE  Roles'
<1>1. CASE WriterTake(t)
  <2> DEFINE where == IF swept[On[t]] THEN "lock" ELSE "sweep"
             w == Head(queue[On[t]])
  <2>1. where \in {"lock", "sweep"} /\ w \in Writes /\ t \in Writers
    BY <1>1, QueueType, ConstantsAssumption, Zenon DEF WriterTake
  <2>2. Puts(t, Taking(where, w))
    BY <1>1, WriteMoves, Zenon
  <2> HIDE DEF where, w
  <2>3. Taking(where, w).pc = where /\ Taking(where, w).w = w
    BY TakingFields, Zenon
  <2>4. RoleOf(t, Taking(where, w))
    BY <2>1, <2>3, ConstantsAssumption DEF RoleOf, WriterAt, Writes, NoFile
  <2> QED BY <2>2, <2>4, RolesKept, Zenon
<1>2. CASE Sweep(t)
  <2>1. Puts(t, Went(loc[t], "lock"))
    BY <1>2, WriteMoves, Zenon
  <2>2. loc[t].pc = "sweep" /\ "lock" \in Places
    BY <1>2, PlaceNames, Zenon DEF Sweep, At, Making
  <2> QED BY <2>1, <2>2, GotoRole, Zenon
<1>3. CASE Lock(t)
  <2>1. Puts(t, Went(loc[t], "place"))
    BY <1>3, WriteMoves, Zenon
  <2>2. loc[t].pc \in Making \cup {"lock", "known"} /\ "place" \in Making /\ "place" \in Places
    BY <1>3, PlaceNames, Zenon DEF Lock, At, Making
  <2> QED BY <2>1, <2>2, GotoRole, Zenon
<1>4. CASE Place(t)
  <2>1. PICK where \in {"body", "temp"} : Puts(t, Went(loc[t], where))
    BY <1>4, WriteMoves, Zenon
  <2>2. loc[t].pc \in Making /\ where \in Making /\ where \in Places
    BY <1>4, PlaceNames, Zenon DEF Place, At, Making
  <2> QED BY <2>1, <2>2, GotoRole, Zenon
<1>5. CASE PlaceBody(t)
  <2>1. Puts(t, Went(loc[t], "head"))
    BY <1>5, WriteMoves, Zenon
  <2>2. loc[t].pc \in Making \cup {"lock", "known"} /\ "head" \in Making /\ "head" \in Places
    BY <1>5, PlaceNames, Zenon DEF PlaceBody, At, Making
  <2> QED BY <2>1, <2>2, GotoRole, Zenon
<1>6. CASE PlaceHeadBegin(t)
  <2>1. Puts(t, Went(loc[t], "head_end"))
    BY <1>6, WriteMoves, Zenon
  <2>2. loc[t].pc \in Making \cup {"lock", "known"} /\ "head_end" \in Making /\ "head_end" \in Places
    BY <1>6, PlaceNames, Zenon DEF PlaceHeadBegin, At, Making
  <2> QED BY <2>1, <2>2, GotoRole, Zenon
<1>7. CASE PlaceHeadEnd(t)
  <2>1. Puts(t, Went(loc[t], "close"))
    BY <1>7, WriteMoves, Zenon
  <2>2. loc[t].pc \in Making \cup {"lock", "known"} /\ "close" \in Making /\ "close" \in Places
    BY <1>7, PlaceNames, Zenon DEF PlaceHeadEnd, At, Making
  <2> QED BY <2>1, <2>2, GotoRole, Zenon
<1>8. CASE PlaceClose(t)
  <2>1. Puts(t, Went(loc[t], "written"))
    BY <1>8, WriteMoves, Zenon
  <2>2. loc[t].pc \in Making \cup {"lock", "known"} /\ "written" \in Making /\ "written" \in Places
    BY <1>8, PlaceNames, Zenon DEF PlaceClose, At, Making
  <2> QED BY <2>1, <2>2, GotoRole, Zenon
<1>9. CASE PlaceFails(t)
  <2>1. Puts(t, Went(loc[t], "failed"))
    BY <1>9, WriteMoves, Zenon
  <2>2. loc[t].pc \in Making \cup {"lock", "known"} /\ "failed" \in Making /\ "failed" \in Places
    BY <1>9, PlaceNames, Zenon DEF PlaceFails, At, Making
  <2> QED BY <2>1, <2>2, GotoRole, Zenon
<1>10. CASE TempCreate(t)
  <2>1. loc[t].pc \in Making
    BY <1>10, Zenon DEF TempCreate, At, Making
  <2>2. CASE dir
    <3>1. Puts(t, Went(loc[t], "fill"))
      BY <1>10, <2>2, WriteMoves, Zenon
    <3> QED BY <2>1, <3>1, GotoRole, PlaceNames, Zenon DEF Making
  <2>3. CASE ~(dir)
    BY <1>10, <2>1, <2>3, MissingRole, Zenon DEF TempCreate
  <2> QED BY <2>2, <2>3, Zenon
<1>11. CASE TempFill(t)
  <2>1. Puts(t, Went(loc[t], "rename"))
    BY <1>11, WriteMoves, Zenon
  <2>2. loc[t].pc \in Making \cup {"lock", "known"} /\ "rename" \in Making /\ "rename" \in Places
    BY <1>11, PlaceNames, Zenon DEF TempFill, At, Making
  <2> QED BY <2>1, <2>2, GotoRole, Zenon
<1>12. CASE TempFails(t)
  <2>1. Puts(t, Went(loc[t], "failed"))
    BY <1>12, WriteMoves, Zenon
  <2>2. loc[t].pc \in Making \cup {"lock", "known"} /\ "failed" \in Making /\ "failed" \in Places
    BY <1>12, PlaceNames, Zenon DEF TempFails, At, Making
  <2> QED BY <2>1, <2>2, GotoRole, Zenon
<1>13. CASE Rename(t)
  <2>1. loc[t].pc \in Making
    BY <1>13, Zenon DEF Rename, At, Making
  <2>2. CASE loc[t].w \in temps
    <3>1. Puts(t, Went(loc[t], "written"))
      BY <1>13, <2>2, WriteMoves, Zenon
    <3> QED BY <2>1, <3>1, GotoRole, PlaceNames, Zenon DEF Making
  <2>3. CASE ~(loc[t].w \in temps)
    BY <1>13, <2>1, <2>3, MissingRole, Zenon DEF Rename
  <2> QED BY <2>2, <2>3, Zenon
<1>14. CASE Written(t)
  <2>1. Puts(t, Went(loc[t], "remember"))
    BY <1>14, WriteMoves, Zenon
  <2>2. loc[t].pc \in Making \cup {"lock", "known"} /\ "remember" \in Making /\ "remember" \in Places
    BY <1>14, PlaceNames, Zenon DEF Written, At, Making
  <2> QED BY <2>1, <2>2, GotoRole, Zenon
<1>15. CASE RememberWritten(t)
  BY <1>15, WriteMoves, RolesKept, IdleRole, Zenon
<1>16. CASE WriteFailed(t)
  BY <1>16, WriteMoves, RolesKept, IdleRole, Zenon
<1> QED BY <1>1, <1>2, <1>3, <1>4, <1>5, <1>6, <1>7, <1>8, <1>9, <1>10, <1>11, <1>12, <1>13, <1>14, <1>15, <1>16, Zenon DEF WriteStep

\* A call that writes nothing itself.
Plain == CallerAt \ (Making \cup {"known"})

LEMMA PlainRole ==
    ASSUME Roles, NEW c \in Callers, NEW r, Puts(c, r),
           r.pc \in Plain, r.w = NoFile, r.op # "set_metadata_only"
    PROVE  Roles'
<1>1. RoleOf(c, r)
  BY ConstantsAssumption, Zenon DEF RoleOf, Plain
<1> QED BY <1>1, RolesKept, Zenon DEF Threads

LEMMA PlainNames ==
    {"idle", "submit", "wait", "wait_siblings", "cached", "stat", "open", "decide", "hit",
     "answer", "miss", "remove", "forget", "stop", "flush", "flush_lock", "flush_write",
     "flush_end"} \subseteq Plain
BY Zenon DEF Plain, CallerAt, Making, Flushing

\* Past the waits only set_metadata_only has a write.
LEMMA PlainCall ==
    ASSUME Roles, NEW c \in Callers, loc[c].pc \in Plain \ {"wait", "wait_siblings"}
    PROVE  loc[c].w = NoFile /\ loc[c].op # "set_metadata_only"
<1>1. RoleOf(c, loc[c])
  BY Zenon DEF Roles, Role, Threads
<1> QED BY <1>1, Zenon DEF RoleOf, Plain

\* Roles, over the steps of a call.
LEMMA CallRoles ==
    ASSUME Shape, Roles, NEW c \in Callers, CallStep(c)
    PROVE  Roles'
<1>0. c \in Threads /\ loc[c] \in Locals
  BY LocalsType, Zenon DEF Threads
<1>1. CASE SetBegin(c)
  BY <1>0, <1>1, BeginningMoves, SubmittingFields, PlainRole, PlainNames, Zenon
<1>2. CASE SetSubmit(c) \/ Return(c) \/ Forget(c)
  BY <1>0, <1>2, BeginningMoves, CallMoves, RolesKept, IdleRole, Zenon
<1>3. CASE ReadBegin(c) \/ DeleteBegin(c) \/ ClearBegin(c)
  <2>1. PICK op \in {"get", "get_metadata", "delete", "clear", "shutdown"}, mark \in {0, last} :
               Puts(c, Waiting(c, op, mark))
    BY <1>0, <1>3, BeginningMoves, Zenon
  <2> QED BY <2>1, WaitingFields, PlainRole, PlainNames
<1>4. CASE OnlyBegin(c)
  <2>1. Puts(c, Marking(c, last + 1))
    BY <1>0, <1>4, BeginningMoves, Zenon
  <2>2. last + 1 # NoFile
    BY DEF Shape, WriteShape, NoFile
  <2>3. RoleOf(c, Marking(c, last + 1))
    BY <2>2, MarkingFields, ConstantsAssumption DEF RoleOf, CallerAt, Making
  <2> QED BY <1>0, <2>1, <2>3, RolesKept, Zenon
<1>5. CASE WaitOwn(c)
  <2> DEFINE r == WentWaiting(loc[c], AfterWait(loc[c].op), PendingNear(On[c]))
  <2>1. r.pc = AfterWait(loc[c].op) /\ r.op = loc[c].op /\ r.w = loc[c].w
    BY <1>0, WentWaitingFields
  <2>2. Puts(c, r)
    BY <1>0, <1>5, CallMoves, Zenon
  <2> HIDE DEF r
  <2>3. r.pc \in {"remove", "stop", "wait_siblings"} /\ (r.op = "set_metadata_only" => r.pc = "wait_siblings")
    BY <2>1, Zenon DEF AfterWait
  <2>4. RoleOf(c, loc[c])
    BY <1>0, Zenon DEF Roles, Role
  <2>5. RoleOf(c, r)
    BY <2>1, <2>3, <2>4, ConstantsAssumption, Zenon DEF RoleOf, CallerAt, Making
  <2> QED BY <1>0, <2>2, <2>5, RolesKept, Zenon
<1>6. CASE WaitSiblings(c)
  <2> DEFINE r == Went(loc[c], AfterSiblings(loc[c].op))
  <2>1. r.pc = AfterSiblings(loc[c].op) /\ r.op = loc[c].op /\ r.w = loc[c].w
    BY <1>0, WentFields, Zenon
  <2>2. Puts(c, r)
    BY <1>0, <1>6, CallMoves, Zenon
  <2> HIDE DEF r
  <2>3. r.pc \in {"remove", "known", "cached"} /\ (r.op = "set_metadata_only" <=> r.pc = "known")
    BY <2>1, Zenon DEF AfterSiblings
  <2>4. RoleOf(c, loc[c])
    BY <1>0, Zenon DEF Roles, Role
  <2>5. RoleOf(c, r)
    BY <2>1, <2>3, <2>4, ConstantsAssumption, Zenon DEF RoleOf, CallerAt, Making
  <2> QED BY <1>0, <2>2, <2>5, RolesKept, Zenon
<1>7. CASE Cached(c) \/ Stat(c) \/ ReadFile(c) \/ GetDecide(c) \/ MetadataDecide(c) \/ Unlink(c)
  <2>1. loc[c].w = NoFile /\ loc[c].op # "set_metadata_only"
    <3>1. loc[c].pc \in {"cached", "stat", "open", "decide", "remove"}
      BY <1>7, Zenon DEF Cached, Stat, ReadFile, GetDecide, MetadataDecide, Unlink, At
    <3> QED BY <3>1, PlainCall, PlainNames, Zenon
  <2>2. ASSUME NEW where \in Plain, Puts(c, Went(loc[c], where))
        PROVE  Roles'
    BY <1>0, <2>1, <2>2, WentFields, PlainRole
  <2>3. ASSUME NEW where \in Plain, NEW m, Puts(c, WentMeta(loc[c], where, m))
        PROVE  Roles'
    BY <1>0, <2>1, <2>3, WentMetaFields, PlainRole
  <2>4. CASE Cached(c)
    <3>1. AfterCached(loc[c].op, touched[On[c]].meta) \in Plain
      BY PlainNames, Zenon DEF AfterCached
    <3>2. PICK r : r = WentCached(loc[c], AfterCached(loc[c].op, touched[On[c]].meta), touched[On[c]].meta)
      OBVIOUS
    <3>3. r.pc = AfterCached(loc[c].op, touched[On[c]].meta) /\ r.op = loc[c].op /\ r.w = loc[c].w
      BY <1>0, <3>2, WentCachedFields
    <3>4. Puts(c, r)
      BY <1>0, <2>4, <3>2, CallMoves, Zenon
    <3> QED BY <1>0, <2>1, <3>1, <3>3, <3>4, PlainRole, Zenon
  <2>5. CASE Stat(c)
    <3>1. ASSUME NEW st, Puts(c, WentStat(loc[c], "open", st))
          PROVE  Roles'
      BY <1>0, <2>1, <3>1, WentStatFields, PlainRole, PlainNames
    <3> QED BY <1>0, <2>2, <2>3, <2>5, <3>1, CallMoves, PlainNames, Zenon
  <2>6. CASE ReadFile(c)
    <3>1. ASSUME NEW f, NEW m, Puts(c, WentRead(loc[c], "decide", f, m))
          PROVE  Roles'
      BY <1>0, <2>1, <3>1, WentReadFields, PlainRole, PlainNames
    <3> QED BY <1>0, <2>2, <2>6, <3>1, CallMoves, PlainNames, Zenon
  <2>7. CASE GetDecide(c)
    <3>1. Puts(c, Waiting(c, "delete", last)) => Roles'
      BY WaitingFields, PlainRole, PlainNames
    <3> QED BY <1>0, <2>2, <2>3, <2>7, <3>1, GetMoves, PlainNames, Zenon
  <2>8. CASE MetadataDecide(c)
    BY <1>0, <2>2, <2>3, <2>8, MetadataMoves, PlainNames, Zenon
  <2>9. CASE Unlink(c)
    BY <1>0, <2>2, <2>9, CallMoves, PlainNames, Zenon
  <2> QED BY <1>7, <2>4, <2>5, <2>6, <2>7, <2>8, <2>9, Zenon
<1>8. CASE OnlyKnown(c)
  <2>1. CASE Puts(c, Idle)
    BY <1>0, <2>1, RolesKept, IdleRole, Zenon
  <2>2. ASSUME NEW where \in {"temp", "place"}, Puts(c, Went(loc[c], where))
        PROVE  Roles'
    BY <1>0, <1>8, <2>2, GotoRole, Zenon DEF OnlyKnown, At, Making
  <2> QED BY <1>0, <1>8, <2>1, <2>2, CallMoves, Zenon
<1> QED BY <1>1, <1>2, <1>3, <1>4, <1>5, <1>6, <1>7, <1>8, Zenon DEF CallStep

\* Roles, over the steps of a flush.
LEMMA FlushRoles ==
    ASSUME Shape, Roles, NEW t \in Threads, FlushStep(t)
    PROVE  Roles'
<1>0. loc[t] \in Locals /\ RoleOf(t, loc[t])
  BY LocalsType, Zenon DEF Roles, Role
<1>1. ASSUME NEW r, Puts(t, r), r.pc \in Flushing, r.op = loc[t].op, r.w = loc[t].w,
             loc[t].pc \in Flushing \cup {"stop"} \/ (t \in Flushers /\ loc[t].pc = "idle")
      PROVE  Roles'
  <2>1. t \notin Writers
    BY <1>0, <1>1, ConstantsAssumption, ZenonT(30) DEF RoleOf, Flushing, WriterAt, Making
  <2>2. CASE t \in Callers
    <3>1. loc[t].op # "set_metadata_only"
      BY <1>0, <1>1, <2>2, ConstantsAssumption, Zenon DEF RoleOf, Flushing, Making
    <3> QED BY <1>0, <1>1, <2>2, <3>1, PlainRole, PlainNames, Zenon DEF RoleOf, Flushing
  <2>3. CASE t \in Flushers
    <3>1. RoleOf(t, r)
      BY <1>0, <1>1, <2>3, ConstantsAssumption, Zenon DEF RoleOf, FlusherAt
    <3> QED BY <1>1, <3>1, RolesKept, Zenon
  <2> QED BY <2>1, <2>2, <2>3, Zenon DEF Threads
<1>2. Puts(t, Idle) => Roles'
  BY RolesKept, IdleRole, Zenon
<1>3. CASE FlushBegin(t)
  <2>1. loc[t].pc = "stop" \/ (t \in Flushers /\ loc[t].pc = "idle")
    BY <1>3, Zenon DEF FlushBegin, At
  <2>2. Puts(t, Went(loc[t], "flush")) => Roles'
    BY <1>0, <1>1, <2>1, WentFields DEF Flushing
  <2> QED BY <1>2, <1>3, <2>2, FlushMoves, Zenon
<1>4. CASE FlushCached(t)
  <2>1. loc[t].pc \in Flushing
    BY <1>4, Zenon DEF FlushCached, At, Flushing
  <2>2. ASSUME NEW m, Puts(t, WentCached(loc[t], "flush_lock", m))
        PROVE  Roles'
    BY <1>0, <1>1, <2>1, <2>2, WentCachedFields DEF Flushing
  <2> QED BY <1>2, <1>4, <2>2, FlushMoves, Zenon
<1>5. CASE FlushOpen(t)
  <2>1. loc[t].pc \in Flushing
    BY <1>5, Zenon DEF FlushOpen, At, Flushing
  <2>2. ASSUME NEW f, Puts(t, WentFile(loc[t], "flush_write", f))
        PROVE  Roles'
    BY <1>0, <1>1, <2>1, <2>2, WentFileFields DEF Flushing
  <2> QED BY <1>2, <1>5, <2>2, FlushMoves, Zenon
<1>6. CASE FlushWriteBegin(t)
  <2>1. loc[t].pc \in Flushing
    BY <1>6, Zenon DEF FlushWriteBegin, At, Flushing
  <2>2. Puts(t, Went(loc[t], "flush_end"))
    BY <1>6, FlushMoves, Zenon
  <2> QED BY <1>0, <1>1, <2>1, <2>2, WentFields DEF Flushing
<1>7. CASE FlushWriteEnd(t)
  BY <1>2, <1>7, FlushMoves, Zenon
<1> QED BY <1>3, <1>4, <1>5, <1>6, <1>7, Zenon DEF FlushStep

=============================================================================
