--------------------------- MODULE EntryFileProofs ---------------------------
(***************************************************************************)
(* Proofs about EntryFile: the types, the entry's lock, how a file comes   *)
(* to be, and that a write that landed left the key readable.              *)
(***************************************************************************)
EXTENDS EntryFileTypeProofs

-----------------------------------------------------------------------------
(* The invariant every other one rests on.                                 *)

\* A write has one owner: it is queued on its backend, in order and after the
\* one the backend's worker is making, or it is in the hands of one thread.
Owned ==
    /\ \A t \in Threads : loc[t].w # NoFile =>
         /\ loc[t].w <= last
         /\ ofBackend[loc[t].w] = On[t]
         /\ kind[loc[t].w] = IF t \in Callers THEN "only" ELSE "full"
    /\ \A c, d \in Callers : loc[c].w = loc[d].w /\ loc[c].w # NoFile => c = d
    /\ \A b \in Backends : \A i \in 1 .. Len(queue[b]) :
         queue[b][i] <= last /\ ofBackend[queue[b][i]] = b /\ kind[queue[b][i]] = "full"
    /\ \A b \in Backends : \A i, j \in 1 .. Len(queue[b]) : i < j => queue[b][i] < queue[b][j]
    /\ \A t \in Writers : \A i \in 1 .. Len(queue[On[t]]) : loc[t].w < queue[On[t]][i]

\* Nobody has write w's file open.
NotOpen(w) == \A s \in Threads : loc[s].file # w

Unpublished(w) == entry # w /\ NotOpen(w)

Fresh == {"wait", "wait_siblings", "known", "sweep", "lock", "place", "temp", "fill", "rename"}

\* A file gets its name and its readers only once its write has made it.
Publishing == \A w \in Writes :
    /\ w > last => Unpublished(w) /\ file[w] = Blank /\ w \notin temps
    /\ \A b \in Backends : \A i \in 1 .. Len(queue[b]) :
         queue[b][i] = w => Unpublished(w) /\ w \notin temps
    /\ \A t \in Threads : loc[t].w = w =>
         /\ loc[t].pc \in Fresh => Unpublished(w)
         /\ loc[t].pc \in {"body", "head", "head_end"} => NotOpen(w)

\* A temp file is there while a thread fills or renames it, or its process was killed.
Temps ==
    /\ orphans \subseteq temps
    /\ \A t \in Threads : loc[t].w \notin orphans
    /\ \A t \in Threads : loc[t].w \in temps => loc[t].pc \in {"fill", "rename"}
    /\ \A w \in temps \ orphans : \E t \in Threads : loc[t].w = w

\* What is in a file at each step of its write.
BodyOf(r) ==
    /\ r.pc \in {"head", "head_end", "close"} => file[r.w].body
    /\ r.pc \in {"body", "head"} => file[r.w].head = "none"
    /\ r.pc = "head_end" => file[r.w].head = "torn"
    /\ r.pc = "close" => file[r.w].head # "none"
    /\ r.pc = "rename" => file[r.w].head = "whole" /\ file[r.w].body
    /\ r.pc \in {"flush_write", "flush_end"} => r.file # NoFile /\ file[r.file].body
Bodies == HeadLast /\ \A t \in Threads : BodyOf(loc[t])

\* The lock's holder is a thread of the backend, inside a write or a flush.
Holding == {"place", "body", "head", "head_end", "close", "temp", "fill", "rename",
            "written", "failed", "flush_write", "flush_end"}
LockInv == \A b \in Backends : lock[b] # Free => On[lock[b]] = b /\ loc[lock[b]].pc \in Holding

EntryInv == Shape /\ Roles /\ Owned /\ Publishing /\ Temps /\ Bodies /\ LockInv

-----------------------------------------------------------------------------
(* A write that landed left the key readable.                              *)

HasHead == entry # NoFile /\ file[entry].head # "none"
Landing == {"body", "head", "head_end", "close", "written"}
LandedOf(r) == r.pc \in Landing => HasHead \/ (entry # NoFile /\ entry = r.w /\ r.pc # "written")
Landed == \A t \in Threads : t \in calm => LandedOf(loc[t])

-----------------------------------------------------------------------------
(* Who owns a write, and when its file is published.                       *)

\* A write is in the hands of one thread at most.
LEMMA OneOwner ==
    ASSUME Shape, Roles, Owned, NEW s \in Threads, NEW t \in Threads,
           loc[s].w = loc[t].w, loc[t].w # NoFile
    PROVE  s = t
<1>1. s \notin Flushers /\ t \notin Flushers
  BY Zenon DEF Roles, Role, RoleOf
<1>2. CASE s \in Callers /\ t \in Callers
  BY <1>2, Zenon DEF Owned
<1>3. CASE s \in Writers /\ t \in Writers
  BY <1>3, ConstantsAssumption DEF Owned
<1>4. s \in Callers <=> t \in Callers
  BY Zenon DEF Owned
<1> QED BY <1>1, <1>2, <1>3, <1>4, Zenon DEF Threads

\* A queued write is in nobody's hands.
LEMMA NotQueued ==
    ASSUME Shape, Roles, Owned, NEW t \in Threads, loc[t].w # NoFile,
           NEW b \in Backends, NEW i \in 1 .. Len(queue[b])
    PROVE  queue[b][i] # loc[t].w
<1>1. CASE t \in Callers
  BY <1>1, ZenonT(30) DEF Owned
<1>2. CASE t \in Writers
  <2>1. queue[b][i] = loc[t].w => b = On[t]
    BY DEF Owned
  <2>2. queue[b][i] \in Writes
    BY DEF Shape, QueueShape
  <2>3. b = On[t] => loc[t].w < queue[b][i]
    BY <1>2, Zenon DEF Owned
  <2> QED BY <2>1, <2>2, <2>3 DEF Writes
<1>3. t \notin Flushers
  BY Zenon DEF Roles, Role, RoleOf
<1> QED BY <1>1, <1>2, <1>3, Zenon DEF Threads

\* Ownership, when a thread keeps or lays down its write.
LEMMA OwnedKept ==
    ASSUME Shape, Owned, NEW t \in Threads, NEW r, Puts(t, r), r.w \in {loc[t].w, NoFile},
           UNCHANGED <<last, ofBackend, kind, queue>>
    PROVE  Owned'
<1>1. \A s \in Threads : loc'[s].w \in {loc[s].w, NoFile}
  BY Zenon DEF Puts
<1>2. \A s \in Threads : loc'[s].w # NoFile =>
         /\ loc'[s].w <= last
         /\ ofBackend[loc'[s].w] = On[s]
         /\ kind[loc'[s].w] = IF s \in Callers THEN "only" ELSE "full"
  BY <1>1, ZenonT(30) DEF Owned
<1>3. \A c, d \in Callers : loc'[c].w = loc'[d].w /\ loc'[c].w # NoFile => c = d
  BY <1>1 DEF Owned, Threads
<1>4. \A s \in Writers : \A i \in 1 .. Len(queue[On[s]]) : loc'[s].w < queue[On[s]][i]
  <2> SUFFICES ASSUME NEW s \in Writers, NEW i \in 1 .. Len(queue[On[s]])
               PROVE  loc'[s].w < queue[On[s]][i]
    OBVIOUS
  <2>1. On[s] \in Backends /\ s \in Threads
    BY ConstantsAssumption, Zenon DEF Threads
  <2>2. queue[On[s]][i] \in Writes
    BY <2>1 DEF Shape, QueueShape
  <2>3. loc[s].w < queue[On[s]][i]
    BY Zenon DEF Owned
  <2> QED BY <1>1, <2>1, <2>2, <2>3 DEF Writes, NoFile
<1> QED BY <1>2, <1>3, <1>4, ZenonT(60) DEF Owned

\* A step that fills no file: what it may do to the thread's locals.
Quiet(t, r) ==
    /\ r.w \in {loc[t].w, NoFile}
    /\ r.pc \notin {"body", "head", "head_end", "close", "fill", "rename"}
    /\ r.w # NoFile /\ r.pc \in Fresh => loc[t].pc \in Fresh
    /\ r.file \in {loc[t].file, NoFile} \/ (HeadWhole(entry) /\ r.file = entry)
    /\ r.pc \in {"flush_write", "flush_end"} => r.file # NoFile /\ file[r.file].body

\* Such a step publishes nothing new.
LEMMA QuietPublishing ==
    ASSUME Shape, Publishing, Bodies, NEW t \in Threads, NEW r, Puts(t, r), Quiet(t, r),
           entry' \in {entry, NoFile}, temps' \subseteq temps,
           UNCHANGED <<file, last, queue>>
    PROVE  Publishing'
<1>1. ASSUME NEW w \in Writes, NotOpen(w), HeadWhole(entry) => w # entry
      PROVE  NotOpen(w)'
  <2>1. w # NoFile
    BY NotNone, Zenon
  <2>2. \A s \in Threads : loc'[s].file \in {loc[s].file, NoFile} \/ (HeadWhole(entry) /\ loc'[s].file = entry)
    BY Zenon DEF Puts, Quiet
  <2> QED BY <1>1, <2>1, <2>2, Zenon DEF NotOpen
<1>2. ASSUME NEW w \in Writes, Unpublished(w)
      PROVE  Unpublished(w)'
  <2>1. w # NoFile
    BY NotNone, Zenon
  <2> QED BY <1>1, <1>2, <2>1, Zenon DEF Unpublished
<1>3. \A w \in Writes : w > last => Unpublished(w)' /\ file[w] = Blank /\ w \notin temps'
  BY <1>2, Zenon DEF Publishing
<1>4. \A w \in Writes : \A b \in Backends : \A i \in 1 .. Len(queue[b]) :
         queue[b][i] = w => Unpublished(w)' /\ w \notin temps'
  BY <1>2, Zenon DEF Publishing
<1>5. ASSUME NEW w \in Writes, NEW s \in Threads, loc'[s].w = w
      PROVE  /\ loc'[s].pc \in Fresh => Unpublished(w)'
             /\ loc'[s].pc \in {"body", "head", "head_end"} => NotOpen(w)'
  <2>1. w # NoFile
    BY NotNone, Zenon
  <2>2. CASE s = t
    <3>1. loc[t].w = w /\ loc'[s] = r
      BY <1>5, <2>1, <2>2, Zenon DEF Puts, Quiet
    <3>2. r.pc \in Fresh => loc[t].pc \in Fresh
      BY <1>5, <2>1, <3>1, Zenon DEF Quiet
    <3>3. loc[t].pc \in Fresh => Unpublished(w)
      BY <3>1, Zenon DEF Publishing
    <3>4. r.pc \notin {"body", "head", "head_end"}
      BY Zenon DEF Quiet
    <3> QED BY <1>2, <3>1, <3>2, <3>3, <3>4, Zenon
  <2>3. CASE s # t
    <3>1. loc'[s] = loc[s]
      BY <2>3, Zenon DEF Puts
    <3>2. /\ loc[s].pc \in Fresh => Unpublished(w)
          /\ loc[s].pc \in {"body", "head", "head_end"} => NotOpen(w)
      BY <1>5, <3>1, Zenon DEF Publishing
    <3>3. loc[s].pc \in {"body", "head", "head_end"} => file[w].head # "whole"
      BY <1>5, <3>1, Zenon DEF Bodies, BodyOf
    <3> QED BY <1>1, <1>2, <3>1, <3>2, <3>3, Zenon DEF HeadWhole
  <2> QED BY <2>2, <2>3, Zenon
<1> QED BY <1>3, <1>4, <1>5, Zenon DEF Publishing

\* Nor does it touch what is in a file or whose the temp files are.
LEMMA QuietBodies ==
    ASSUME Bodies, NEW t \in Threads, NEW r, Puts(t, r), Quiet(t, r), UNCHANGED file
    PROVE  Bodies'
<1>1. HeadLast'
  BY Zenon DEF Bodies, HeadLast
<1>2. BodyOf(r)'
  BY Zenon DEF Quiet, BodyOf
<1>3. \A s \in Threads : BodyOf(loc[s])'
  BY <1>2, ZenonT(30) DEF Bodies, BodyOf, Puts
<1> QED BY <1>1, <1>3, Zenon DEF Bodies

LEMMA QuietTemps ==
    ASSUME Temps, NEW t \in Threads, NEW r, Puts(t, r), r.w \in {loc[t].w, NoFile},
           temps' \subseteq temps, temps \subseteq Writes,
           orphans' \subseteq orphans, orphans' \subseteq temps',
           \A w \in temps' : w \in orphans => w \in orphans',
           loc[t].w \notin temps'
    PROVE  Temps'
<1>1. NoFile \notin temps
  BY NotNone, Zenon
<1>2. \A s \in Threads : loc'[s].w \in {loc[s].w, NoFile} /\ (s # t => loc'[s] = loc[s])
  BY Zenon DEF Puts
<1>3. \A s \in Threads : loc'[s].w \notin orphans'
  BY <1>1, <1>2, Zenon DEF Temps
<1>4. \A s \in Threads : loc'[s].w \in temps' => loc'[s].pc \in {"fill", "rename"}
  BY <1>1, <1>2, ZenonT(30) DEF Temps
<1>5. \A w \in temps' \ orphans' : \E s \in Threads : loc'[s].w = w
  BY <1>2, Zenon DEF Temps
<1> QED BY <1>3, <1>4, <1>5, Zenon DEF Temps

Core == Owned /\ Publishing /\ Temps /\ Bodies

\* A step that touches no file but may unlink the entry.
LEMMA StillStep ==
    ASSUME Shape, Core, NEW t \in Threads, NEW r, Puts(t, r), Quiet(t, r),
           loc[t].pc \notin {"fill", "rename"} \/ loc[t].w \notin temps,
           entry' \in {entry, NoFile},
           UNCHANGED <<file, temps, orphans, last, ofBackend, kind, queue>>
    PROVE  Core'
<1>1. loc[t].w \notin temps
  BY Zenon DEF Core, Temps
<1>2. Temps'
  BY <1>1, QuietTemps, Zenon DEF Core, Temps, Quiet, Shape, DirShape
<1>3. Owned'
  BY OwnedKept, Zenon DEF Core, Quiet
<1>4. Publishing'
  BY QuietPublishing, Zenon DEF Core
<1>5. Bodies'
  BY QuietBodies, Zenon DEF Core
<1> QED BY <1>2, <1>3, <1>4, <1>5, Zenon DEF Core

LEMMA IdleQuiet ==
    ASSUME NEW t
    PROVE  Quiet(t, Idle)
BY IdleFields, Zenon DEF Quiet, Fresh

LEMMA WentQuiet ==
    ASSUME Shape, NEW t \in Threads, NEW where,
           where \notin {"body", "head", "head_end", "close", "fill", "rename", "flush_write", "flush_end"},
           where \in Fresh => loc[t].w = NoFile \/ loc[t].pc \in Fresh
    PROVE  Quiet(t, Went(loc[t], where))
BY WentFields, LocalsType DEF Quiet

\* The steps of a call that touch no file.
LEMMA CallCore ==
    ASSUME Shape, Roles, Core, NEW c \in Callers, CallStep(c),
           ~SetSubmit(c), ~OnlyBegin(c)
    PROVE  Core'
<1>0. c \in Threads /\ loc[c] \in Locals
  BY LocalsType, Zenon DEF Threads
<1>1. /\ UNCHANGED <<file, temps, orphans, last, ofBackend, kind, queue>>
      /\ entry' \in {entry, NoFile}
  <2> USE DEF dirVars, writeVars, queueVars
  <2>1. CASE SetBegin(c) \/ ReadBegin(c) \/ DeleteBegin(c) \/ ClearBegin(c)
    BY <2>1, Zenon DEF SetBegin, ReadBegin, DeleteBegin, ClearBegin
  <2>2. CASE WaitOwn(c) \/ WaitSiblings(c) \/ Cached(c) \/ Stat(c) \/ ReadFile(c)
    BY <2>2, Zenon DEF WaitOwn, WaitSiblings, Cached, Stat, ReadFile
  <2>3. CASE GetDecide(c) \/ MetadataDecide(c) \/ Return(c)
    BY <2>3, Zenon DEF GetDecide, MetadataDecide, Return
  <2>4. CASE OnlyKnown(c) \/ Unlink(c) \/ Forget(c)
    BY <2>4, Zenon DEF OnlyKnown, Unlink, Forget
  <2> QED BY <2>1, <2>2, <2>3, <2>4, Zenon DEF CallStep
<1>2. loc[c].pc \notin {"fill", "rename"}
  <2>1. CASE SetBegin(c) \/ ReadBegin(c) \/ DeleteBegin(c) \/ ClearBegin(c)
    BY <2>1, Zenon DEF SetBegin, ReadBegin, DeleteBegin, ClearBegin, Begin, At
  <2>2. CASE WaitOwn(c) \/ WaitSiblings(c) \/ Cached(c) \/ Stat(c) \/ ReadFile(c)
    BY <2>2, Zenon DEF WaitOwn, WaitSiblings, Cached, Stat, ReadFile, At
  <2>3. CASE GetDecide(c) \/ MetadataDecide(c) \/ Return(c)
    BY <2>3, Zenon DEF GetDecide, MetadataDecide, Return, At
  <2>4. CASE OnlyKnown(c) \/ Unlink(c) \/ Forget(c)
    BY <2>4, Zenon DEF OnlyKnown, Unlink, Forget, At
  <2> QED BY <2>1, <2>2, <2>3, <2>4, Zenon DEF CallStep
<1>3. ASSUME NEW r, Puts(c, r), Quiet(c, r)
      PROVE  Core'
  BY <1>0, <1>1, <1>2, <1>3, StillStep, Zenon
<1>4. CASE SetBegin(c)
  <2>1. Quiet(c, Submitting(c))
    BY SubmittingFields, Zenon DEF Quiet
  <2> QED BY <1>0, <1>3, <1>4, <2>1, BeginningMoves, Zenon
<1>5. CASE ReadBegin(c) \/ DeleteBegin(c) \/ ClearBegin(c)
  <2>1. ASSUME NEW op, NEW mark
        PROVE  Quiet(c, Waiting(c, op, mark))
    BY WaitingFields DEF Quiet
  <2> QED BY <1>0, <1>3, <1>5, <2>1, BeginningMoves, Zenon
<1>6. CASE WaitOwn(c)
  <2>1. loc[c].pc \in Fresh /\ AfterWait(loc[c].op) \in {"remove", "stop", "wait_siblings"}
    BY <1>6, Zenon DEF WaitOwn, At, Fresh, AfterWait
  <2>2. Quiet(c, WentWaiting(loc[c], AfterWait(loc[c].op), PendingNear(On[c])))
    BY <1>0, <2>1, WentWaitingFields DEF Quiet
  <2> QED BY <1>0, <1>3, <1>6, <2>2, CallMoves, Zenon
<1>7. CASE WaitSiblings(c)
  <2>1. loc[c].pc \in Fresh /\ AfterSiblings(loc[c].op) \in {"remove", "known", "cached"}
    BY <1>7, Zenon DEF WaitSiblings, At, Fresh, AfterSiblings
  <2> QED BY <1>0, <1>3, <1>7, <2>1, WentQuiet, CallMoves, Zenon
<1>8. CASE Cached(c)
  <2>1. AfterCached(loc[c].op, touched[On[c]].meta) \in {"stat", "open"}
    BY Zenon DEF AfterCached
  <2>2. Quiet(c, WentCached(loc[c], AfterCached(loc[c].op, touched[On[c]].meta), touched[On[c]].meta))
    <3>1. LET r == WentCached(loc[c], AfterCached(loc[c].op, touched[On[c]].meta), touched[On[c]].meta)
          IN  r.pc = AfterCached(loc[c].op, touched[On[c]].meta) /\ r.w = loc[c].w /\ r.file = loc[c].file
      BY <1>0, WentCachedFields
    <3> QED BY <2>1, <3>1, Zenon DEF Quiet, Fresh
  <2> QED BY <1>0, <1>3, <1>8, <2>2, CallMoves, Zenon
<1>9. ASSUME NEW where \in {"miss", "answer", "hit", "forget", "open", "decide"}
      PROVE  /\ Quiet(c, Went(loc[c], where))
             /\ \A m : Quiet(c, WentMeta(loc[c], where, m))
             /\ \A st : Quiet(c, WentStat(loc[c], where, st))
             /\ HeadWhole(entry) => \A m : Quiet(c, WentRead(loc[c], where, entry, m))
  <2>1. Quiet(c, Went(loc[c], where))
    BY <1>0, WentQuiet, Zenon DEF Fresh
  <2>2. ASSUME NEW m
        PROVE  Quiet(c, WentMeta(loc[c], where, m))
    BY <1>0, WentMetaFields DEF Quiet, Fresh
  <2>3. ASSUME NEW st
        PROVE  Quiet(c, WentStat(loc[c], where, st))
    BY <1>0, WentStatFields DEF Quiet, Fresh
  <2>4. ASSUME HeadWhole(entry), NEW m
        PROVE  Quiet(c, WentRead(loc[c], where, entry, m))
    BY <1>0, <2>4, WentReadFields DEF Quiet, Fresh
  <2> QED BY <2>1, <2>2, <2>3, <2>4, Zenon
<1>10. CASE Stat(c) \/ ReadFile(c)
  BY <1>0, <1>3, <1>9, <1>10, CallMoves, Zenon DEF ReadsAs
<1>11. CASE GetDecide(c)
  <2>1. Quiet(c, Waiting(c, "delete", last))
    BY WaitingFields DEF Quiet
  <2> QED BY <1>0, <1>3, <1>9, <1>11, <2>1, GetMoves, Zenon
<1>12. CASE MetadataDecide(c)
  BY <1>0, <1>3, <1>9, <1>12, MetadataMoves, Zenon
<1>13. CASE Return(c) \/ Forget(c)
  BY <1>0, <1>3, <1>13, CallMoves, IdleQuiet, Zenon
<1>14. CASE OnlyKnown(c)
  <2>1. loc[c].pc \in Fresh
    BY <1>14, Zenon DEF OnlyKnown, At, Fresh
  <2> QED BY <1>0, <1>3, <1>14, <2>1, CallMoves, IdleQuiet, WentQuiet, Zenon
<1>15. CASE Unlink(c)
  BY <1>0, <1>3, <1>9, <1>15, CallMoves, Zenon
<1> QED BY <1>4, <1>5, <1>6, <1>7, <1>8, <1>10, <1>11, <1>12, <1>13, <1>14, <1>15, Zenon DEF CallStep

\* Where a write goes when the directory is missing.
LEMMA MissingQuiet ==
    ASSUME Shape, NEW t \in Threads, Missing(t), loc[t].pc \in Fresh
    PROVE  \E r : Puts(t, r) /\ Quiet(t, r)
<1>1. Quiet(t, WentBack(loc[t]))
  BY WentBackFields, LocalsType, Zenon DEF Quiet
<1>2. Quiet(t, Went(loc[t], "failed"))
  BY WentQuiet, Zenon DEF Fresh
<1> QED BY <1>1, <1>2, MissingMoves, Zenon

\* The steps of a write that touch no file.
LEMMA WriteStill ==
    ASSUME Shape, Core, NEW t \in Threads,
           \/ Lock(t) \/ PlaceClose(t) \/ PlaceFails(t) \/ Written(t) \/ RememberWritten(t) \/ WriteFailed(t)
           \/ Place(t) /\ ~(dir /\ entry = NoFile)
           \/ TempCreate(t) /\ ~dir
           \/ Rename(t) /\ loc[t].w \notin temps
    PROVE  Core'
<1>1. ASSUME NEW r, Puts(t, r), Quiet(t, r),
             loc[t].pc \notin {"fill", "rename"} \/ loc[t].w \notin temps,
             entry' \in {entry, NoFile}, UNCHANGED <<file, temps, orphans, last, ofBackend, kind, queue>>
      PROVE  Core'
  BY <1>1, StillStep, Zenon
<1>2. CASE Lock(t)
  <2>1. Quiet(t, Went(loc[t], "place")) /\ Puts(t, Went(loc[t], "place"))
    BY <1>2, WentQuiet, WriteMoves, Zenon DEF Lock, At, Fresh
  <2> QED BY <1>1, <1>2, <2>1, Zenon DEF Lock, At, dirVars, writeVars, queueVars
<1>3. CASE PlaceClose(t)
  <2>1. Quiet(t, Went(loc[t], "written")) /\ Puts(t, Went(loc[t], "written"))
    BY <1>3, WentQuiet, WriteMoves, Zenon DEF Fresh
  <2> QED BY <1>1, <1>3, <2>1, Zenon DEF PlaceClose, At, dirVars, writeVars, queueVars
<1>4. CASE PlaceFails(t)
  <2>1. Quiet(t, Went(loc[t], "failed")) /\ Puts(t, Went(loc[t], "failed"))
    BY <1>4, WentQuiet, WriteMoves, Zenon DEF Fresh
  <2> QED BY <1>1, <1>4, <2>1, Zenon DEF PlaceFails, At, writeVars, queueVars
<1>5. CASE Written(t)
  <2>1. Quiet(t, Went(loc[t], "remember")) /\ Puts(t, Went(loc[t], "remember"))
    BY <1>5, WentQuiet, WriteMoves, Zenon DEF Fresh
  <2> QED BY <1>1, <1>5, <2>1, Zenon DEF Written, At, dirVars, writeVars, queueVars
<1>6. CASE RememberWritten(t) \/ WriteFailed(t)
  <2>1. Quiet(t, Idle) /\ Puts(t, Idle)
    BY <1>6, IdleQuiet, WriteMoves, Zenon
  <2> QED BY <1>1, <1>6, <2>1, Zenon DEF RememberWritten, WriteFailed, At, dirVars, writeVars, queueVars
<1>7. CASE Place(t) /\ ~(dir /\ entry = NoFile)
  <2>1. Puts(t, Went(loc[t], "temp")) /\ loc[t].pc = "place"
    BY <1>7, WriteMoves, Zenon DEF Place, At
  <2>2. Quiet(t, Went(loc[t], "temp"))
    BY <2>1, WentQuiet, Zenon DEF Fresh
  <2> QED BY <1>1, <1>7, <2>1, <2>2, Zenon DEF Place, writeVars, queueVars
<1>8. CASE TempCreate(t) /\ ~dir
  <2>1. PICK r : Puts(t, r) /\ Quiet(t, r)
    BY <1>8, MissingQuiet, Zenon DEF TempCreate, At, Fresh
  <2> QED BY <1>1, <1>8, <2>1, Zenon DEF TempCreate, At, writeVars, queueVars
<1>9. CASE Rename(t) /\ loc[t].w \notin temps
  <2>1. PICK r : Puts(t, r) /\ Quiet(t, r)
    BY <1>9, MissingQuiet, Zenon DEF Rename, At, Fresh
  <2> QED BY <1>1, <1>9, <2>1, Zenon DEF Rename, At, writeVars, queueVars
<1> QED BY <1>2, <1>3, <1>4, <1>5, <1>6, <1>7, <1>8, <1>9, Zenon

\* The steps of a write that remove a temp file: the sweep, and a failed write.
LEMMA WriteRemoves ==
    ASSUME Shape, Core, NEW t \in Threads, Sweep(t) \/ TempFails(t)
    PROVE  Core'
<1>1. PICK r : Puts(t, r) /\ Quiet(t, r)
  BY WriteMoves, WentQuiet, Zenon DEF Sweep, At, Fresh
<1>2. /\ UNCHANGED <<entry, file, last, ofBackend, kind, queue>>
      /\ temps' \subseteq temps /\ temps \subseteq Writes
  BY Zenon DEF Sweep, TempFails, writeVars, queueVars, Shape, DirShape
<1>3. loc[t].w \notin temps' /\ loc[t].w \notin orphans
  BY Zenon DEF Sweep, TempFails, Core, Temps, At
<1>4. /\ orphans' \subseteq orphans /\ orphans' \subseteq temps'
      /\ \A w \in temps' : w \in orphans => w \in orphans'
  BY <1>3, Zenon DEF Sweep, TempFails, Core, Temps
<1>5. Temps'
  BY <1>1, <1>2, <1>3, <1>4, QuietTemps, Zenon DEF Core, Quiet
<1>6. Owned'
  BY <1>1, <1>2, OwnedKept, Zenon DEF Core, Quiet
<1>7. Publishing'
  BY <1>1, <1>2, QuietPublishing, Zenon DEF Core
<1>8. Bodies'
  BY <1>1, <1>2, QuietBodies, Zenon DEF Core
<1> QED BY <1>5, <1>6, <1>7, <1>8, Zenon DEF Core

\* A thread that fills its own file touches nobody else's.
LEMMA FillAlone ==
    ASSUME Shape, Roles, Owned, NEW t \in Threads, NEW w \in Writes, loc[t].w = w
    PROVE  /\ \A s \in Threads : s # t => loc[s].w # w
           /\ \A b \in Backends : \A i \in 1 .. Len(queue[b]) : queue[b][i] # w
           /\ w <= last
<1>1. w # NoFile
  BY NotNone, Zenon
<1> QED BY <1>1, OneOwner, NotQueued, Zenon DEF Owned

LEMMA FillPublishing ==
    ASSUME Shape, Roles, Owned, Publishing, NEW t \in Threads, NEW w \in Writes, loc[t].w = w,
           NEW r, Puts(t, r), r.w = w, r.file = loc[t].file,
           \A v \in Writes : v # w => file'[v] = file[v],
           entry' \in {entry, w}, temps' \subseteq temps \cup {w}, UNCHANGED <<last, queue>>,
           r.pc \in Fresh => Unpublished(w) /\ entry' # w,
           r.pc \in {"body", "head", "head_end"} => NotOpen(w)
    PROVE  Publishing'
<1>1. \A s \in Threads : loc'[s].file = loc[s].file /\ loc'[s].w = loc[s].w /\ (s # t => loc'[s] = loc[s])
  BY Zenon DEF Puts
<1>2. /\ \A s \in Threads : s # t => loc[s].w # w
      /\ \A b \in Backends : \A i \in 1 .. Len(queue[b]) : queue[b][i] # w
      /\ w <= last
  BY FillAlone, Zenon
<1>3. ASSUME NEW v \in Writes, NotOpen(v)
      PROVE  NotOpen(v)'
  BY <1>1, <1>3, Zenon DEF NotOpen
<1>4. ASSUME NEW v \in Writes, v # w, Unpublished(v)
      PROVE  Unpublished(v)'
  BY <1>3, <1>4, Zenon DEF Unpublished
<1>5. ASSUME NEW v \in Writes, v > last
      PROVE  Unpublished(v)' /\ file'[v] = Blank /\ v \notin temps'
  <2>1. v # w
    BY <1>2, <1>5 DEF Writes, Shape, WriteShape
  <2> QED BY <1>4, <1>5, <2>1, Zenon DEF Publishing
<1>6. ASSUME NEW v \in Writes, NEW b \in Backends, NEW i \in 1 .. Len(queue[b]), queue[b][i] = v
      PROVE  Unpublished(v)' /\ v \notin temps'
  <2>1. v # w
    BY <1>2, <1>6, Zenon
  <2> QED BY <1>4, <1>6, <2>1, Zenon DEF Publishing
<1>7. ASSUME NEW v \in Writes, NEW s \in Threads, loc'[s].w = v
      PROVE  /\ loc'[s].pc \in Fresh => Unpublished(v)'
             /\ loc'[s].pc \in {"body", "head", "head_end"} => NotOpen(v)'
  <2>1. CASE s = t
    <3>1. v = w /\ loc'[s] = r
      BY <1>1, <1>7, <2>1, Zenon DEF Puts
    <3> QED BY <1>3, <3>1, Zenon DEF Unpublished
  <2>2. CASE s # t
    <3>1. v # w /\ loc'[s] = loc[s]
      BY <1>1, <1>2, <1>7, <2>2, Zenon
    <3> QED BY <1>3, <1>4, <1>7, <3>1, Zenon DEF Publishing
  <2> QED BY <2>1, <2>2, Zenon
<1> QED BY <1>5, <1>6, <1>7, ZenonT(30) DEF Publishing

LEMMA FillBodies ==
    ASSUME Shape, Roles, Owned, Bodies, NEW t \in Threads, NEW w \in Writes, loc[t].w = w, NotOpen(w),
           NEW r, Puts(t, r), NEW contents, Fill(w, contents),
           contents.head # "none" => contents.body, BodyOf(r)'
    PROVE  Bodies'
<1>1. file' = [file EXCEPT ![w] = contents] /\ file \in [Writes -> Files]
  BY Zenon DEF Fill, Shape, DirShape
<1>2. HeadLast'
  BY <1>1, Zenon DEF HeadLast, Bodies
<1>3. \A s \in Threads : s # t => loc[s].w # w
  BY FillAlone, Zenon
<1>4. ASSUME NEW s \in Threads, s # t
      PROVE  BodyOf(loc[s])'
  <2>1. loc'[s] = loc[s] /\ BodyOf(loc[s])
    BY <1>4, Zenon DEF Puts, Bodies
  <2>2. loc[s].pc \in {"body", "head", "head_end", "close", "rename"} => file'[loc[s].w] = file[loc[s].w]
    <3>1. loc[s].pc \in {"body", "head", "head_end", "close", "rename"} => loc[s].w \in Writes
      BY HasWrite, Zenon DEF Roles, Making
    <3> QED BY <1>1, <1>3, <1>4, <3>1, Zenon
  <2>3. loc[s].file # NoFile => file'[loc[s].file] = file[loc[s].file]
    <3>1. loc[s].file # NoFile => loc[s].file \in Writes
      BY ReadTypes, Zenon DEF Numbers
    <3> QED BY <1>1, <3>1, Zenon DEF NotOpen
  <2> QED BY <2>1, <2>2, <2>3 DEF BodyOf
<1>5. BodyOf(loc[t])'
  BY Zenon DEF Puts, BodyOf
<1> QED BY <1>2, <1>4, <1>5, Zenon DEF Bodies

\* A step of a write that fills the file.
LEMMA FillStep ==
    ASSUME Shape, Roles, Core, NEW t \in Threads, NEW w \in Writes, loc[t].w = w, NotOpen(w),
           NEW r, Puts(t, r), r.w = w, r.file = loc[t].file,
           NEW contents, Fill(w, contents), contents.head # "none" => contents.body, BodyOf(r)',
           entry' \in {entry, w}, temps' \in {temps, temps \cup {w}},
           w \in temps' => r.pc \in {"fill", "rename"},
           r.pc \in Fresh => Unpublished(w) /\ entry' # w,
           UNCHANGED <<orphans, last, ofBackend, kind, queue>>
    PROVE  Core'
<1>1. Bodies'
  BY FillBodies, Zenon DEF Core
<1>2. \A v \in Writes : v # w => file'[v] = file[v]
  BY Zenon DEF Fill, Shape, DirShape
<1>3. Publishing'
  BY <1>2, FillPublishing, Zenon DEF Core
<1>4. Owned'
  BY OwnedKept, Zenon DEF Core
<1>5. \A s \in Threads : loc'[s].w = loc[s].w /\ (s # t => loc'[s] = loc[s] /\ loc[s].w # w)
  BY FillAlone, Zenon DEF Puts, Core
<1>6. Temps'
  <2>1. orphans' \subseteq temps' /\ \A s \in Threads : loc'[s].w \notin orphans'
    BY <1>5, Zenon DEF Core, Temps
  <2>2. \A s \in Threads : loc'[s].w \in temps' => loc'[s].pc \in {"fill", "rename"}
    BY <1>5 DEF Core, Temps, Puts
  <2>3. \A v \in temps' \ orphans' : \E s \in Threads : loc'[s].w = v
    BY <1>5, ZenonT(60) DEF Core, Temps
  <2> QED BY <2>1, <2>2, <2>3, Zenon DEF Temps
<1> QED BY <1>1, <1>3, <1>4, <1>6, Zenon DEF Core

\* Who is at a step of a write has its write, and nobody else has it open.
LEMMA MakingWrite ==
    ASSUME Shape, Roles, Core, NEW t \in Threads,
           loc[t].pc \in {"place", "body", "head", "head_end", "temp", "fill", "rename"}
    PROVE  /\ loc[t].w \in Writes
           /\ NotOpen(loc[t].w)
           /\ loc[t].pc \in Fresh => Unpublished(loc[t].w)
<1>1. loc[t].w \in Writes
  BY HasWrite, Zenon DEF Roles, Making
<1>2. loc[t].pc \in {"body", "head", "head_end"} \/ loc[t].pc \in Fresh
  BY Zenon DEF Fresh
<1> QED BY <1>1, <1>2, Zenon DEF Core, Publishing, Unpublished

\* The steps of a write in place.
LEMMA PlaceCore ==
    ASSUME Shape, Roles, Core, NEW t \in Threads,
           \/ Place(t) /\ dir /\ entry = NoFile
           \/ PlaceBody(t) \/ PlaceHeadBegin(t) \/ PlaceHeadEnd(t)
    PROVE  Core'
<1>0. /\ loc[t].pc \in {"place", "body", "head", "head_end"}
      /\ UNCHANGED <<temps, orphans, last, ofBackend, kind, queue>>
  BY Zenon DEF Place, PlaceBody, PlaceHeadBegin, PlaceHeadEnd, At, writeVars, queueVars
<1>1. PICK w \in Writes : w = loc[t].w
  BY <1>0, MakingWrite, Zenon
<1>2. NotOpen(w) /\ w \notin temps /\ loc[t] \in Locals /\ file[w] \in Files /\ file \in [Writes -> Files]
  BY <1>0, <1>1, MakingWrite, LocalsType, Zenon DEF Core, Temps, Shape, DirShape
<1>3. ASSUME NEW where \in {"body", "head", "head_end", "close"}, Puts(t, Went(loc[t], where)),
             NEW contents, Fill(w, contents), contents.head # "none" => contents.body,
             where \in {"head", "head_end", "close"} => contents.body,
             where \in {"body", "head"} => contents.head = "none",
             where = "head_end" => contents.head = "torn",
             where = "close" => contents.head # "none",
             entry' \in {entry, w}
      PROVE  Core'
  <2>1. PICK r : r = Went(loc[t], where)
    OBVIOUS
  <2>2. r.pc = where /\ r.w = w /\ r.file = loc[t].file /\ Puts(t, r)
    BY <1>1, <1>2, <1>3, <2>1, WentFields, ZenonT(30)
  <2>3. file'[w] = contents
    BY <1>2, <1>3, Zenon DEF Fill
  <2>4. BodyOf(r)'
    BY <1>3, <2>2, <2>3, Zenon DEF BodyOf
  <2>5. r.pc \notin Fresh
    BY <2>2, Zenon DEF Fresh
  <2> QED BY <1>0, <1>1, <1>2, <1>3, <2>2, <2>4, <2>5, FillStep, Zenon
<1>4. CASE Place(t) /\ dir /\ entry = NoFile
  <2>1. Puts(t, Went(loc[t], "body")) /\ Fill(w, Blank) /\ entry' = w
    BY <1>1, <1>4, WriteMoves, Zenon DEF Place
  <2> QED BY <1>3, <2>1, Zenon DEF Blank
<1>5. CASE PlaceBody(t)
  <2>1. Puts(t, Went(loc[t], "head")) /\ Fill(w, [file[w] EXCEPT !.body = TRUE]) /\ entry' = entry
    BY <1>1, <1>5, WriteMoves, Zenon DEF PlaceBody
  <2>2. file[w].head = "none"
    BY <1>1, <1>5, Zenon DEF Core, Bodies, BodyOf, PlaceBody, At
  <2>3. LET k == [file[w] EXCEPT !.body = TRUE] IN k.body /\ k.head = "none"
    BY <1>2, <2>2, Zenon DEF Files
  <2> QED BY <1>3, <2>1, <2>3, Zenon
<1>6. CASE PlaceHeadBegin(t)
  <2>1. Puts(t, Went(loc[t], "head_end")) /\ Fill(w, [file[w] EXCEPT !.head = "torn"]) /\ entry' = entry
    BY <1>1, <1>6, WriteMoves, Zenon DEF PlaceHeadBegin
  <2>2. file[w].body
    BY <1>1, <1>6, Zenon DEF Core, Bodies, BodyOf, PlaceHeadBegin, At
  <2>3. LET k == [file[w] EXCEPT !.head = "torn"] IN k.body /\ k.head = "torn"
    BY <1>2, <2>2, Zenon DEF Files
  <2> QED BY <1>3, <2>1, <2>3, Zenon
<1>7. CASE PlaceHeadEnd(t)
  <2>1. /\ Puts(t, Went(loc[t], "close")) /\ entry' = entry
        /\ Fill(w, [file[w] EXCEPT !.head = "whole", !.meta = w])
    BY <1>1, <1>7, WriteMoves, Zenon DEF PlaceHeadEnd
  <2>2. file[w].body
    BY <1>1, <1>7, Zenon DEF Core, Bodies, BodyOf, PlaceHeadEnd, At
  <2>3. LET k == [file[w] EXCEPT !.head = "whole", !.meta = w] IN k.body /\ k.head = "whole"
    BY <1>2, <2>2, Zenon DEF Files
  <2> QED BY <1>3, <2>1, <2>3, Zenon
<1> QED BY <1>4, <1>5, <1>6, <1>7, Zenon

\* The steps of a write through a temp file.
LEMMA TempCore ==
    ASSUME Shape, Roles, Core, NEW t \in Threads,
           \/ TempCreate(t) /\ dir
           \/ TempFill(t)
           \/ Rename(t) /\ loc[t].w \in temps
    PROVE  Core'
<1>0. loc[t].pc \in {"temp", "fill", "rename"} /\ UNCHANGED <<orphans, last, ofBackend, kind, queue>>
  BY Zenon DEF TempCreate, TempFill, Rename, At, writeVars, queueVars
<1>1. PICK w \in Writes : w = loc[t].w
  BY <1>0, MakingWrite, Zenon
<1>2. loc[t] \in Locals /\ file \in [Writes -> Files] /\ Unpublished(w)
  BY <1>0, <1>1, MakingWrite, LocalsType, Zenon DEF Fresh, Shape, DirShape
<1>3. ASSUME NEW where \in {"fill", "rename"}, Puts(t, Went(loc[t], where)),
             NEW contents, Fill(w, contents), contents.head # "none" => contents.body,
             where = "rename" => contents.head = "whole" /\ contents.body,
             entry' = entry, temps' \in {temps, temps \cup {w}}
      PROVE  Core'
  <2>1. PICK r : r = Went(loc[t], where)
    OBVIOUS
  <2>2. r.pc = where /\ r.w = w /\ r.file = loc[t].file /\ Puts(t, r)
    BY <1>1, <1>2, <1>3, <2>1, WentFields, ZenonT(30)
  <2>3. file'[w] = contents
    BY <1>2, <1>3, Zenon DEF Fill
  <2>4. BodyOf(r)'
    BY <1>3, <2>2, <2>3, Zenon DEF BodyOf
  <2> QED BY <1>0, <1>1, <1>2, <1>3, <2>2, <2>4, FillStep, Zenon DEF Unpublished
<1>4. CASE TempCreate(t) /\ dir
  <2>1. Puts(t, Went(loc[t], "fill")) /\ Fill(w, Blank) /\ entry' = entry /\ temps' = temps \cup {w}
    BY <1>1, <1>4, WriteMoves, Zenon DEF TempCreate
  <2> QED BY <1>3, <2>1, Zenon DEF Blank
<1>5. CASE TempFill(t)
  <2>1. /\ Puts(t, Went(loc[t], "rename")) /\ entry' = entry /\ temps' = temps
        /\ Fill(w, [head |-> "whole", meta |-> w, body |-> TRUE, mtime |-> 0])
    BY <1>1, <1>5, WriteMoves, Zenon DEF TempFill
  <2> QED BY <1>3, <2>1, Zenon
<1>6. CASE Rename(t) /\ loc[t].w \in temps
  <2>1. PICK r : r = Went(loc[t], "written")
    OBVIOUS
  <2>2. r.pc = "written" /\ r.w = w /\ r.file = loc[t].file /\ Puts(t, r)
    BY <1>1, <1>2, <1>6, <2>1, WentFields, WriteMoves, Zenon
  <2>3. entry' = w /\ temps' = temps \ {w} /\ file' = file
    BY <1>1, <1>6, Zenon DEF Rename
  <2>4. Quiet(t, r)
    BY <1>1, <2>2, Zenon DEF Quiet, Fresh
  <2>5. Bodies'
    BY <2>2, <2>3, <2>4, QuietBodies, Zenon DEF Core
  <2>6. Publishing'
    BY <1>0, <1>1, <2>2, <2>3, FillPublishing, Zenon DEF Core, Fresh
  <2>7. Temps'
    <3>1. /\ temps' \subseteq temps /\ temps \subseteq Writes /\ loc[t].w \notin temps'
          /\ orphans' \subseteq orphans /\ orphans' \subseteq temps'
          /\ \A v \in temps' : v \in orphans => v \in orphans'
      BY <1>0, <1>1, <2>3, Zenon DEF Core, Temps, Shape, DirShape
    <3> QED BY <1>1, <2>2, <3>1, QuietTemps, Zenon DEF Core
  <2>8. Owned'
    BY <1>0, <1>1, <2>2, OwnedKept, Zenon DEF Core
  <2> QED BY <2>5, <2>6, <2>7, <2>8, Zenon DEF Core
<1> QED BY <1>4, <1>5, <1>6, Zenon

\* A queue whose head is taken.
LEMMA TailElements ==
    ASSUME Shape, NEW b \in Backends, queue[b] # <<>>
    PROVE  /\ Len(queue[b]) \in Nat \ {0}
           /\ Head(queue[b]) = queue[b][1]
           /\ Len(Tail(queue[b])) = Len(queue[b]) - 1
           /\ \A i \in 1 .. Len(Tail(queue[b])) : i + 1 \in 1 .. Len(queue[b]) /\ Tail(queue[b])[i] = queue[b][i + 1]
           /\ \A i \in 1 .. Len(queue[b]) : queue[b][i] \in Writes
<1>1. queue[b] \in Seq(Writes)
  BY Zenon DEF Shape, QueueShape
<1> QED BY <1>1

\* The worker takes the head of its queue: what is queued after it is later.
LEMMA TakeOwned ==
    ASSUME Shape, Roles, Owned, NEW t \in Threads, WriterTake(t)
    PROVE  Owned'
<1>0. PICK b \in Backends : b = On[t]
  BY ConstantsAssumption, Zenon
<1>1. t \in Writers /\ queue[b] # <<>> /\ queue' = [queue EXCEPT ![b] = Tail(@)] /\ UNCHANGED <<last, ofBackend, kind>>
  BY <1>0, Zenon DEF WriterTake, writeVars
<1>2. PICK w \in Writes : w = Head(queue[b])
  BY <1>1, QueueType, Zenon
<1>3. loc'[t].w = w /\ \A s \in Threads : s # t => loc'[s] = loc[s]
  <2>1. PICK where \in {"lock", "sweep"} : Puts(t, Taking(where, w))
    BY <1>0, <1>2, WriteMoves, Zenon
  <2> QED BY <2>1, TakingFields DEF Puts
<1>4. 1 \in 1 .. Len(queue[b]) /\ w = queue[b][1] /\ t \notin Callers
  BY <1>1, <1>2, TailElements, ConstantsAssumption
<1>5. queue'[b] = Tail(queue[b]) /\ \A a \in Backends : a # b => queue'[a] = queue[a]
  BY <1>1, Zenon DEF Shape, QueueShape
<1>6. \A s \in Threads : loc'[s].w # NoFile =>
         /\ loc'[s].w <= last
         /\ ofBackend[loc'[s].w] = On[s]
         /\ kind[loc'[s].w] = IF s \in Callers THEN "only" ELSE "full"
  <2>1. w <= last /\ ofBackend[w] = b /\ kind[w] = "full"
    BY <1>4, Zenon DEF Owned
  <2> QED BY <1>0, <1>3, <1>4, <2>1 DEF Owned
<1>7. \A c, d \in Callers : loc'[c].w = loc'[d].w /\ loc'[c].w # NoFile => c = d
  <2>1. \A c \in Callers : loc'[c] = loc[c]
    BY <1>3, <1>4, Zenon DEF Threads
  <2> QED BY <2>1 DEF Owned
<1>8. \A i \in 1 .. Len(queue'[b]) : i + 1 \in 1 .. Len(queue[b]) /\ queue'[b][i] = queue[b][i + 1]
  BY <1>1, <1>5, TailElements, ZenonT(30)
<1>9. \A a \in Backends : \A i \in 1 .. Len(queue'[a]) :
         queue'[a][i] <= last /\ ofBackend[queue'[a][i]] = a /\ kind[queue'[a][i]] = "full"
  <2> SUFFICES ASSUME NEW a \in Backends, NEW i \in 1 .. Len(queue'[a])
               PROVE  queue'[a][i] <= last /\ ofBackend[queue'[a][i]] = a /\ kind[queue'[a][i]] = "full"
    OBVIOUS
  <2>3. PICK j \in 1 .. Len(queue[a]) : queue'[a][i] = queue[a][j]
    <3>1. CASE a = b
      BY <1>8, <3>1, Zenon
    <3>2. CASE a # b
      BY <1>5, <3>2, Zenon
    <3> QED BY <3>1, <3>2, Zenon
  <2>4. queue[a][j] <= last /\ ofBackend[queue[a][j]] = a /\ kind[queue[a][j]] = "full"
    BY Zenon DEF Owned
  <2> QED BY <2>3, <2>4, Zenon
<1>10. \A a \in Backends : \A i, j \in 1 .. Len(queue'[a]) : i < j => queue'[a][i] < queue'[a][j]
  <2>1. \A i, j \in 1 .. Len(queue'[b]) : i < j => queue'[b][i] < queue'[b][j]
    <3> SUFFICES ASSUME NEW i \in 1 .. Len(queue'[b]), NEW j \in 1 .. Len(queue'[b]), i < j
                 PROVE  queue'[b][i] < queue'[b][j]
      OBVIOUS
    <3>1. i + 1 < j + 1
      OBVIOUS
    <3> QED BY <1>8, <3>1, ZenonT(30) DEF Owned
  <2> QED BY <1>5, <2>1, Zenon DEF Owned
<1>11. \A s \in Writers : \A i \in 1 .. Len(queue'[On[s]]) : loc'[s].w < queue'[On[s]][i]
  <2> SUFFICES ASSUME NEW s \in Writers, NEW i \in 1 .. Len(queue'[On[s]])
               PROVE  loc'[s].w < queue'[On[s]][i]
    OBVIOUS
  <2>0. s \in Threads /\ On[s] \in Backends
    BY ConstantsAssumption, Zenon DEF Threads
  <2>1. CASE s = t
    <3>1. i + 1 \in 1 .. Len(queue[b]) /\ queue'[b][i] = queue[b][i + 1] /\ 1 < i + 1
      BY <1>0, <1>8, <2>1
    <3>2. queue[b][1] < queue[b][i + 1]
      BY <1>4, <3>1, Zenon DEF Owned
    <3>3. On[s] = b /\ loc'[s].w = queue[b][1]
      BY <1>0, <1>3, <1>4, <2>1, Zenon
    <3> QED BY <3>1, <3>2, <3>3, Zenon
  <2>2. CASE s # t
    <3>1. On[s] # b
      BY <1>0, <1>1, <2>2, ConstantsAssumption, Zenon
    <3>2. loc'[s].w = loc[s].w /\ queue'[On[s]] = queue[On[s]]
      BY <1>3, <1>5, <2>0, <2>2, <3>1, Zenon
    <3>3. i \in 1 .. Len(queue[On[s]])
      BY <3>2, Zenon
    <3>4. loc[s].w < queue[On[s]][i]
      BY <3>3, Zenon DEF Owned
    <3> QED BY <3>2, <3>4, Zenon
  <2> QED BY <2>1, <2>2, Zenon
<1>12. last' = last /\ ofBackend' = ofBackend /\ kind' = kind
  BY <1>1, Zenon
<1> QED BY <1>6, <1>7, <1>9, <1>10, <1>11, <1>12, Zenon DEF Owned

LEMMA TakeCore ==
    ASSUME Shape, Roles, Core, NEW t \in Threads, WriterTake(t)
    PROVE  Core'
<1>0. PICK b \in Backends : b = On[t]
  BY ConstantsAssumption, Zenon
<1>1. /\ t \in Writers /\ queue[b] # <<>> /\ queue' = [queue EXCEPT ![b] = Tail(@)]
      /\ UNCHANGED <<entry, file, temps, orphans, last>>
  BY <1>0, Zenon DEF WriterTake, dirVars, writeVars
<1>2. PICK w \in Writes : w = Head(queue[b])
  BY <1>1, QueueType, Zenon
<1>3. /\ loc'[t].w = w /\ loc'[t].pc \in {"lock", "sweep"} /\ loc'[t].file = NoFile
      /\ \A s \in Threads : s # t => loc'[s] = loc[s]
  <2>1. PICK where \in {"lock", "sweep"} : Puts(t, Taking(where, w))
    BY <1>0, <1>2, WriteMoves, Zenon
  <2> QED BY <2>1, TakingFields DEF Puts
<1>4. 1 \in 1 .. Len(queue[b]) /\ w = queue[b][1]
  BY <1>1, <1>2, TailElements
<1>5. queue'[b] = Tail(queue[b]) /\ \A a \in Backends : a # b => queue'[a] = queue[a]
  BY <1>1, Zenon DEF Shape, QueueShape
<1>6. \A i \in 1 .. Len(queue'[b]) : i + 1 \in 1 .. Len(queue[b]) /\ queue'[b][i] = queue[b][i + 1]
  BY <1>1, <1>5, TailElements, ZenonT(30)
<1>7. Unpublished(w) /\ w \notin temps
  BY <1>4, Zenon DEF Core, Publishing
<1>8. ASSUME NEW v \in Writes, NotOpen(v)
      PROVE  NotOpen(v)'
  <2>1. v # NoFile
    BY NotNone, Zenon
  <2> QED BY <1>3, <1>8, <2>1, Zenon DEF NotOpen
<1>9. ASSUME NEW v \in Writes, Unpublished(v)
      PROVE  Unpublished(v)'
  BY <1>1, <1>8, <1>9, Zenon DEF Unpublished
<1>10. Publishing'
  <2> SUFFICES ASSUME NEW v \in Writes
               PROVE  /\ v > last => Unpublished(v)' /\ file[v] = Blank /\ v \notin temps
                      /\ \A a \in Backends : \A i \in 1 .. Len(queue'[a]) :
                           queue'[a][i] = v => Unpublished(v)' /\ v \notin temps
                      /\ \A s \in Threads : loc'[s].w = v =>
                           /\ loc'[s].pc \in Fresh => Unpublished(v)'
                           /\ loc'[s].pc \in {"body", "head", "head_end"} => NotOpen(v)'
    BY <1>1, Zenon DEF Publishing
  <2>1. v > last => Unpublished(v)' /\ file[v] = Blank /\ v \notin temps
    BY <1>9, Zenon DEF Core, Publishing
  <2>2. \A a \in Backends : \A i \in 1 .. Len(queue'[a]) :
           queue'[a][i] = v => Unpublished(v)' /\ v \notin temps
    BY <1>5, <1>6, <1>9, ZenonT(30) DEF Core, Publishing
  <2>3. \A s \in Threads : loc'[s].w = v =>
           /\ loc'[s].pc \in Fresh => Unpublished(v)'
           /\ loc'[s].pc \in {"body", "head", "head_end"} => NotOpen(v)'
    BY <1>3, <1>7, <1>8, <1>9, Zenon DEF Core, Publishing
  <2> QED BY <2>1, <2>2, <2>3, Zenon
<1>11. loc[t].w = NoFile /\ NoFile \notin temps
  BY <1>1 DEF Roles, Role, RoleOf, WriterTake, At, Shape, DirShape, Writes, NoFile
<1>12. Temps'
  <2>1. orphans' \subseteq temps' /\ \A s \in Threads : loc'[s].w \notin orphans'
    BY <1>1, <1>3, <1>7, Zenon DEF Core, Temps
  <2>2. \A s \in Threads : loc'[s].w \in temps' => loc'[s].pc \in {"fill", "rename"}
    BY <1>1, <1>3, <1>7, Zenon DEF Core, Temps
  <2>3. \A v \in temps' \ orphans' : \E s \in Threads : loc'[s].w = v
    BY <1>1, <1>3, <1>11 DEF Core, Temps
  <2> QED BY <2>1, <2>2, <2>3, Zenon DEF Temps
<1>13. Bodies'
  <2>1. HeadLast'
    BY <1>1, Zenon DEF Core, Bodies, HeadLast
  <2>2. \A s \in Threads : BodyOf(loc[s])'
    BY <1>1, <1>3, ZenonT(30) DEF Core, Bodies, BodyOf
  <2> QED BY <2>1, <2>2, Zenon DEF Bodies
<1>14. Owned'
  BY TakeOwned, Zenon DEF Core
<1> QED BY <1>10, <1>12, <1>13, <1>14, Zenon DEF Core

\* A number is drawn: it is later than every write there is, and nobody's yet.
LEMMA Drawn ==
    ASSUME Shape, Roles, Core, NEW b \in Backends, NEW sort \in {"full", "only"}, NewWrite(b, sort)
    PROVE  /\ last + 1 \in Writes /\ last' = last + 1 /\ last \in Nat
           /\ Unpublished(last + 1) /\ last + 1 \notin temps
           /\ ofBackend'[last + 1] = b /\ kind'[last + 1] = sort
           /\ \A v \in Writes : v <= last => ofBackend'[v] = ofBackend[v] /\ kind'[v] = kind[v] /\ v <= last'
           /\ \A v \in Writes : v > last' => v > last
           /\ \A t \in Threads : loc[t].w \in Numbers /\ (loc[t].w # NoFile => loc[t].w \in Writes) /\ loc[t].w <= last
           /\ \A a \in Backends : \A i \in 1 .. Len(queue[a]) : queue[a][i] \in Writes /\ queue[a][i] <= last
<1>1. last + 1 \in Writes /\ last' = last + 1 /\ last \in Nat
  BY ConstantsAssumption DEF NewWrite, Shape, WriteShape, Writes
<1>2. Unpublished(last + 1) /\ last + 1 \notin temps
  BY <1>1 DEF Core, Publishing
<1>3. /\ ofBackend'[last + 1] = b /\ kind'[last + 1] = sort
      /\ \A v \in Writes : v <= last => ofBackend'[v] = ofBackend[v] /\ kind'[v] = kind[v] /\ v <= last'
      /\ \A v \in Writes : v > last' => v > last
  BY <1>1, SMTT(30) DEF NewWrite, Shape, WriteShape, Writes
<1>4. ASSUME NEW t \in Threads
      PROVE  loc[t].w \in Numbers /\ (loc[t].w # NoFile => loc[t].w \in Writes) /\ loc[t].w <= last
  BY <1>1, ReadTypes DEF Numbers, Core, Owned, NoFile
<1>5. \A a \in Backends : \A i \in 1 .. Len(queue[a]) : queue[a][i] \in Writes /\ queue[a][i] <= last
  BY DEF Core, Owned, Shape, QueueShape
<1> QED BY <1>1, <1>2, <1>3, <1>4, <1>5, Zenon

\* A queue at whose end a write is put.
LEMMA AppendElements ==
    ASSUME Shape, NEW b \in Backends, NEW w \in Writes
    PROVE  LET q == Append(queue[b], w) IN
           /\ Len(q) = Len(queue[b]) + 1 /\ q[Len(q)] = w
           /\ Len(queue[b]) \in Nat
           /\ \A i \in 1 .. Len(queue[b]) : q[i] = queue[b][i]
           /\ \A i \in 1 .. Len(q) : i \in 1 .. Len(queue[b]) \/ i = Len(q)
<1>1. queue[b] \in Seq(Writes)
  BY Zenon DEF Shape, QueueShape
<1> QED BY <1>1

LEMMA SubmitOwned ==
    ASSUME Shape, Roles, Core, NEW c \in Callers, SetSubmit(c)
    PROVE  Owned'
<1>0. PICK b \in Backends : b = On[c] /\ c \in Threads
  BY ConstantsAssumption, Zenon DEF Threads
<1>1. NewWrite(b, "full") /\ queue' = [queue EXCEPT ![b] = Append(@, last + 1)] /\ loc[c].pc = "submit"
  BY <1>0, Zenon DEF SetSubmit, At
<1>2. PICK n \in Writes : n = last + 1
  BY <1>1, Drawn, Zenon
<1>3. /\ last' = n /\ last \in Nat /\ ofBackend'[n] = b /\ kind'[n] = "full"
      /\ \A v \in Writes : v <= last => ofBackend'[v] = ofBackend[v] /\ kind'[v] = kind[v] /\ v <= last'
      /\ \A t \in Threads : loc[t].w \in Numbers /\ (loc[t].w # NoFile => loc[t].w \in Writes) /\ loc[t].w <= last
      /\ \A a \in Backends : \A i \in 1 .. Len(queue[a]) : queue[a][i] \in Writes /\ queue[a][i] <= last
  BY <1>1, <1>2, Drawn, Zenon
<1>4. \A t \in Threads : loc'[t].w \in {loc[t].w, NoFile}
  BY <1>0, BeginningMoves, IdleFields, Zenon DEF Puts
<1>5. queue'[b] = Append(queue[b], n) /\ \A a \in Backends : a # b => queue'[a] = queue[a]
  BY <1>1, <1>2, Zenon DEF Shape, QueueShape
<1>6. \A t \in Threads : loc'[t].w # NoFile =>
         /\ loc'[t].w <= last'
         /\ ofBackend'[loc'[t].w] = On[t]
         /\ kind'[loc'[t].w] = IF t \in Callers THEN "only" ELSE "full"
  <2> SUFFICES ASSUME NEW t \in Threads, loc'[t].w # NoFile
               PROVE  /\ loc'[t].w <= last'
                      /\ ofBackend'[loc'[t].w] = On[t]
                      /\ kind'[loc'[t].w] = IF t \in Callers THEN "only" ELSE "full"
    OBVIOUS
  <2>1. loc'[t].w = loc[t].w /\ loc[t].w \in Writes /\ loc[t].w <= last
    BY <1>3, <1>4, Zenon
  <2>2. ofBackend[loc[t].w] = On[t] /\ kind[loc[t].w] = IF t \in Callers THEN "only" ELSE "full"
    BY <2>1, Zenon DEF Core, Owned
  <2> QED BY <1>3, <2>1, <2>2, Zenon
<1>7. \A d, e \in Callers : loc'[d].w = loc'[e].w /\ loc'[d].w # NoFile => d = e
  <2>1. \A d \in Callers : loc'[d].w \in {loc[d].w, NoFile}
    BY <1>4, Zenon DEF Threads
  <2>2. \A d, e \in Callers : loc[d].w = loc[e].w /\ loc[d].w # NoFile => d = e
    BY Zenon DEF Core, Owned
  <2> QED BY <2>1, <2>2, Zenon
<1>8. /\ Len(queue'[b]) = Len(queue[b]) + 1 /\ queue'[b][Len(queue'[b])] = n /\ Len(queue[b]) \in Nat
      /\ \A i \in 1 .. Len(queue[b]) : queue'[b][i] = queue[b][i]
      /\ \A i \in 1 .. Len(queue'[b]) : i \in 1 .. Len(queue[b]) \/ i = Len(queue'[b])
  BY <1>5, AppendElements
<1>9. ASSUME NEW a \in Backends, NEW i \in 1 .. Len(queue'[a])
      PROVE  \/ i \in 1 .. Len(queue[a]) /\ queue'[a][i] = queue[a][i] /\ queue[a][i] \in Writes /\ queue[a][i] <= last
             \/ a = b /\ i = Len(queue'[b]) /\ queue'[a][i] = n
  <2>1. CASE a = b
    BY <1>3, <1>8, <2>1, Zenon
  <2>2. CASE a # b
    BY <1>3, <1>5, <2>2, Zenon
  <2> QED BY <2>1, <2>2, Zenon
<1>10. \A a \in Backends : \A i \in 1 .. Len(queue'[a]) :
         queue'[a][i] <= last' /\ ofBackend'[queue'[a][i]] = a /\ kind'[queue'[a][i]] = "full"
  <2> SUFFICES ASSUME NEW a \in Backends, NEW i \in 1 .. Len(queue'[a])
               PROVE  queue'[a][i] <= last' /\ ofBackend'[queue'[a][i]] = a /\ kind'[queue'[a][i]] = "full"
    BY SMTT(30)
  <2>1. CASE a = b /\ queue'[a][i] = n
    BY <1>3, <2>1 DEF Writes
  <2>2. CASE i \in 1 .. Len(queue[a]) /\ queue'[a][i] = queue[a][i] /\ queue[a][i] \in Writes /\ queue[a][i] <= last
    <3>1. ofBackend[queue[a][i]] = a /\ kind[queue[a][i]] = "full"
      BY <2>2, ZenonT(60) DEF Core, Owned
    <3> QED BY <1>3, <2>2, <3>1, Zenon
  <2> QED BY <1>9, <2>1, <2>2, Zenon
<1>11. \A a \in Backends : \A i, j \in 1 .. Len(queue'[a]) : i < j => queue'[a][i] < queue'[a][j]
  <2> SUFFICES ASSUME NEW a \in Backends, NEW i \in 1 .. Len(queue'[a]), NEW j \in 1 .. Len(queue'[a]), i < j
               PROVE  queue'[a][i] < queue'[a][j]
    OBVIOUS
  <2>1. i \in 1 .. Len(queue[a]) /\ queue'[a][i] = queue[a][i] /\ queue[a][i] \in Writes /\ queue[a][i] <= last
    <3>1. ~(a = b /\ i = Len(queue'[b]))
      BY <1>8
    <3> QED BY <1>9, <3>1, Zenon
  <2>2. CASE a = b /\ queue'[a][j] = n
    BY <1>2, <1>3, <2>1, <2>2 DEF Writes
  <2>3. CASE j \in 1 .. Len(queue[a]) /\ queue'[a][j] = queue[a][j]
    <3>1. queue[a][i] < queue[a][j]
      BY <2>1, <2>3, Zenon DEF Core, Owned
    <3> QED BY <2>1, <2>3, <3>1, Zenon
  <2> QED BY <1>9, <2>2, <2>3, Zenon
<1>12. \A t \in Writers : \A i \in 1 .. Len(queue'[On[t]]) : loc'[t].w < queue'[On[t]][i]
  <2> SUFFICES ASSUME NEW t \in Writers, NEW i \in 1 .. Len(queue'[On[t]])
               PROVE  loc'[t].w < queue'[On[t]][i]
    OBVIOUS
  <2>0. t \in Threads /\ On[t] \in Backends
    BY ConstantsAssumption, Zenon DEF Threads
  <2>1. loc'[t].w \in Numbers /\ loc'[t].w <= last /\ loc'[t].w <= loc[t].w /\ loc[t].w \in Numbers
    BY <1>3, <1>4, <2>0, SMTT(30) DEF Numbers, Writes, NoFile
  <2>2. CASE queue'[On[t]][i] = n
    BY <1>2, <1>3, <2>1, <2>2, SMTT(30) DEF Numbers, Writes, NoFile
  <2>3. CASE i \in 1 .. Len(queue[On[t]]) /\ queue'[On[t]][i] = queue[On[t]][i] /\ queue[On[t]][i] \in Writes
    <3>1. loc[t].w < queue[On[t]][i]
      BY <2>3, Zenon DEF Core, Owned
    <3> QED BY <2>1, <2>3, <3>1 DEF Numbers, Writes, NoFile
  <2> QED BY <1>9, <2>0, <2>2, <2>3, Zenon
<1> QED BY <1>6, <1>7, <1>10, <1>11, <1>12, Zenon DEF Owned

\* Who is idle or about to submit has no write.
LEMMA NoWriteYet ==
    ASSUME Shape, Roles, NEW c \in Callers, loc[c].pc \in {"idle", "submit"}
    PROVE  loc[c].w = NoFile
BY Zenon DEF Roles, Role, RoleOf, Making, Threads

LEMMA SubmitCore ==
    ASSUME Shape, Roles, Core, NEW c \in Callers, SetSubmit(c)
    PROVE  Core'
<1>0. PICK b \in Backends : b = On[c] /\ c \in Threads
  BY ConstantsAssumption, Zenon DEF Threads
<1>1. /\ NewWrite(b, "full") /\ queue' = [queue EXCEPT ![b] = Append(@, last + 1)] /\ loc[c].pc = "submit"
      /\ UNCHANGED <<entry, file, temps, orphans>>
  BY <1>0, Zenon DEF SetSubmit, At, dirVars
<1>2. PICK n \in Writes : n = last + 1
  BY <1>1, Drawn, Zenon
<1>3. Unpublished(n) /\ n \notin temps /\ \A v \in Writes : v > last' => v > last
  BY <1>1, <1>2, Drawn, Zenon
<1>4. Puts(c, Idle) /\ Quiet(c, Idle)
  BY <1>0, BeginningMoves, IdleQuiet, Zenon
<1>5. Bodies'
  BY <1>0, <1>1, <1>4, QuietBodies, Zenon DEF Core
<1>6. Temps'
  <2>1. Idle.w \in {loc[c].w, NoFile} /\ loc[c].w \notin temps /\ temps \subseteq Writes
    BY <1>1, NoWriteYet DEF Quiet, Shape, DirShape, Writes, NoFile, Idle
  <2> QED BY <1>0, <1>1, <1>4, <2>1, QuietTemps, Zenon DEF Core, Temps
<1>7. \A t \in Threads : /\ loc'[t].w = NoFile \/ loc'[t] = loc[t]
                         /\ loc'[t].file \in {loc[t].file, NoFile}
  BY <1>4, IdleFields, Zenon DEF Puts
<1>8. ASSUME NEW v \in Writes, NotOpen(v)
      PROVE  NotOpen(v)'
  <2>1. v # NoFile
    BY NotNone, Zenon
  <2> QED BY <1>7, <1>8, <2>1, Zenon DEF NotOpen
<1>9. ASSUME NEW v \in Writes, Unpublished(v)
      PROVE  Unpublished(v)'
  BY <1>1, <1>8, <1>9, Zenon DEF Unpublished
<1>10. ASSUME NEW v \in Writes, NEW a \in Backends, NEW i \in 1 .. Len(queue'[a]), queue'[a][i] = v
       PROVE  v = n \/ \E j \in 1 .. Len(queue[a]) : queue[a][j] = v
  <2>1. queue'[b] = Append(queue[b], n) /\ \A d \in Backends : d # b => queue'[d] = queue[d]
    BY <1>1, <1>2, Zenon DEF Shape, QueueShape
  <2>2. CASE a = b
    BY <1>10, <2>1, <2>2, AppendElements, SMTT(30)
  <2>3. CASE a # b
    BY <1>10, <2>1, <2>3, Zenon
  <2> QED BY <2>2, <2>3, Zenon
<1>11. Publishing'
  <2> SUFFICES ASSUME NEW v \in Writes
               PROVE  /\ v > last' => Unpublished(v)' /\ file[v] = Blank /\ v \notin temps
                      /\ \A a \in Backends : \A i \in 1 .. Len(queue'[a]) :
                           queue'[a][i] = v => Unpublished(v)' /\ v \notin temps
                      /\ \A s \in Threads : loc'[s].w = v =>
                           /\ loc'[s].pc \in Fresh => Unpublished(v)'
                           /\ loc'[s].pc \in {"body", "head", "head_end"} => NotOpen(v)'
    BY <1>1, Zenon DEF Publishing
  <2>1. v > last' => Unpublished(v)' /\ file[v] = Blank /\ v \notin temps
    BY <1>3, <1>9, Zenon DEF Core, Publishing
  <2>2. \A a \in Backends : \A i \in 1 .. Len(queue'[a]) :
           queue'[a][i] = v => Unpublished(v)' /\ v \notin temps
    BY <1>3, <1>9, <1>10, ZenonT(30) DEF Core, Publishing
  <2>3. v # NoFile
    BY NotNone, Zenon
  <2>4. \A s \in Threads : loc'[s].w = v =>
           /\ loc'[s].pc \in Fresh => Unpublished(v)'
           /\ loc'[s].pc \in {"body", "head", "head_end"} => NotOpen(v)'
    BY <1>7, <1>8, <1>9, <2>3, Zenon DEF Core, Publishing
  <2> QED BY <2>1, <2>2, <2>4, Zenon
<1> QED BY <1>5, <1>6, <1>11, SubmitOwned, Zenon DEF Core

LEMMA OnlyCore ==
    ASSUME Shape, Roles, Core, NEW c \in Callers, OnlyBegin(c)
    PROVE  Core'
<1>0. PICK b \in Backends : b = On[c] /\ c \in Threads
  BY ConstantsAssumption, Zenon DEF Threads
<1>1. /\ NewWrite(b, "only") /\ loc[c].pc = "idle"
      /\ UNCHANGED <<entry, file, temps, orphans, queue>>
  BY <1>0, Zenon DEF OnlyBegin, At, dirVars, queueVars
<1>2. PICK n \in Writes : n = last + 1
  BY <1>1, Drawn, Zenon
<1>3. /\ Unpublished(n) /\ n \notin temps /\ \A v \in Writes : v > last' => v > last
      /\ last' = n /\ last \in Nat /\ ofBackend'[n] = b /\ kind'[n] = "only"
      /\ \A v \in Writes : v <= last => ofBackend'[v] = ofBackend[v] /\ kind'[v] = kind[v] /\ v <= last'
      /\ \A t \in Threads : loc[t].w \in Numbers /\ (loc[t].w # NoFile => loc[t].w \in Writes) /\ loc[t].w <= last
      /\ \A a \in Backends : \A i \in 1 .. Len(queue[a]) : queue[a][i] \in Writes /\ queue[a][i] <= last
  BY <1>1, <1>2, Drawn, Zenon
<1>4. /\ loc'[c].pc = "wait" /\ loc'[c].w = n /\ loc'[c].file = NoFile
      /\ \A t \in Threads : t # c => loc'[t] = loc[t]
  <2>1. Puts(c, Marking(c, n))
    BY <1>0, <1>2, BeginningMoves, Zenon
  <2> QED BY <2>1, MarkingFields DEF Puts
<1>5. c \notin Writers /\ n # NoFile /\ NoFile \notin temps /\ loc[c].w = NoFile
  BY <1>1, NoWriteYet, ConstantsAssumption DEF Writes, NoFile, Shape, DirShape
<1>6. Bodies'
  <2>1. HeadLast'
    BY <1>1, Zenon DEF Core, Bodies, HeadLast
  <2>2. \A s \in Threads : BodyOf(loc[s])'
    BY <1>1, <1>4, ZenonT(30) DEF Core, Bodies, BodyOf
  <2> QED BY <2>1, <2>2, Zenon DEF Bodies
<1>7. Temps'
  <2>1. orphans' \subseteq temps' /\ \A s \in Threads : loc'[s].w \notin orphans'
    BY <1>1, <1>3, <1>4, Zenon DEF Core, Temps
  <2>2. \A s \in Threads : loc'[s].w \in temps' => loc'[s].pc \in {"fill", "rename"}
    BY <1>1, <1>3, <1>4, Zenon DEF Core, Temps
  <2>3. \A v \in temps' \ orphans' : \E s \in Threads : loc'[s].w = v
    <3>1. \A v \in temps \ orphans : v # NoFile /\ \E s \in Threads : loc[s].w = v
      BY <1>5, Zenon DEF Core, Temps
    <3> QED BY <1>1, <1>4, <1>5, <3>1, ZenonT(60)
  <2> QED BY <2>1, <2>2, <2>3, Zenon DEF Temps
<1>8. ASSUME NEW v \in Writes, NotOpen(v)
      PROVE  NotOpen(v)'
  <2>1. v # NoFile
    BY NotNone, Zenon
  <2> QED BY <1>4, <1>8, <2>1, Zenon DEF NotOpen
<1>9. ASSUME NEW v \in Writes, Unpublished(v)
      PROVE  Unpublished(v)'
  BY <1>1, <1>8, <1>9, Zenon DEF Unpublished
<1>10. Publishing'
  <2> SUFFICES ASSUME NEW v \in Writes
               PROVE  /\ v > last' => Unpublished(v)' /\ file[v] = Blank /\ v \notin temps
                      /\ \A a \in Backends : \A i \in 1 .. Len(queue[a]) :
                           queue[a][i] = v => Unpublished(v)' /\ v \notin temps
                      /\ \A s \in Threads : loc'[s].w = v =>
                           /\ loc'[s].pc \in Fresh => Unpublished(v)'
                           /\ loc'[s].pc \in {"body", "head", "head_end"} => NotOpen(v)'
    BY <1>1, Zenon DEF Publishing
  <2>1. v > last' => Unpublished(v)' /\ file[v] = Blank /\ v \notin temps
    BY <1>3, <1>9, Zenon DEF Core, Publishing
  <2>2. \A a \in Backends : \A i \in 1 .. Len(queue[a]) :
           queue[a][i] = v => Unpublished(v)' /\ v \notin temps
    BY <1>9, Zenon DEF Core, Publishing
  <2>3. \A s \in Threads : loc'[s].w = v =>
           /\ loc'[s].pc \in Fresh => Unpublished(v)'
           /\ loc'[s].pc \in {"body", "head", "head_end"} => NotOpen(v)'
    BY <1>3, <1>4, <1>8, <1>9, Zenon DEF Core, Publishing
  <2> QED BY <2>1, <2>2, <2>3, Zenon
<1>11. \A t \in Threads : loc'[t].w # NoFile =>
         /\ loc'[t].w <= last'
         /\ ofBackend'[loc'[t].w] = On[t]
         /\ kind'[loc'[t].w] = IF t \in Callers THEN "only" ELSE "full"
  <2> SUFFICES ASSUME NEW t \in Threads, loc'[t].w # NoFile
               PROVE  /\ loc'[t].w <= last'
                      /\ ofBackend'[loc'[t].w] = On[t]
                      /\ kind'[loc'[t].w] = IF t \in Callers THEN "only" ELSE "full"
    OBVIOUS
  <2>1. CASE t = c
    <3>1. n <= n
      BY DEF Writes
    <3> QED BY <1>0, <1>3, <1>4, <2>1, <3>1, Zenon
  <2>2. CASE t # c
    <3>1. loc'[t].w = loc[t].w /\ loc[t].w \in Writes /\ loc[t].w <= last
      BY <1>3, <1>4, <2>2, Zenon
    <3>2. ofBackend[loc[t].w] = On[t] /\ kind[loc[t].w] = IF t \in Callers THEN "only" ELSE "full"
      BY <2>2, <3>1, Zenon DEF Core, Owned
    <3> QED BY <1>3, <3>1, <3>2, Zenon
  <2> QED BY <2>1, <2>2, Zenon
<1>12. \A d, e \in Callers : loc'[d].w = loc'[e].w /\ loc'[d].w # NoFile => d = e
  <2>1. \A d \in Callers : d # c => loc'[d].w = loc[d].w /\ loc[d].w # n
    <3>1. ~(n <= last)
      BY <1>2, <1>3
    <3> QED BY <1>3, <1>4, <3>1, Zenon DEF Threads
  <2>2. \A d, e \in Callers : loc[d].w = loc[e].w /\ loc[d].w # NoFile => d = e
    BY Zenon DEF Core, Owned
  <2> QED BY <1>4, <2>1, <2>2, ZenonT(30)
<1>13. \A a \in Backends : \A i \in 1 .. Len(queue[a]) :
         queue[a][i] <= last' /\ ofBackend'[queue[a][i]] = a /\ kind'[queue[a][i]] = "full"
  <2> SUFFICES ASSUME NEW a \in Backends, NEW i \in 1 .. Len(queue[a])
               PROVE  queue[a][i] <= last' /\ ofBackend'[queue[a][i]] = a /\ kind'[queue[a][i]] = "full"
    BY Zenon
  <2>1. queue[a][i] \in Writes /\ queue[a][i] <= last
    BY <1>3, Zenon
  <2>2. ofBackend[queue[a][i]] = a /\ kind[queue[a][i]] = "full"
    BY ZenonT(30) DEF Core, Owned
  <2> QED BY <1>3, <2>1, <2>2, Zenon
<1>14. \A t \in Writers : \A i \in 1 .. Len(queue[On[t]]) : loc'[t].w < queue[On[t]][i]
  BY <1>4, <1>5, Zenon DEF Core, Owned, Threads
<1>15. \A a \in Backends : \A i, j \in 1 .. Len(queue[a]) : i < j => queue[a][i] < queue[a][j]
  BY Zenon DEF Core, Owned
<1>16. Owned'
  <2>1. queue' = queue
    BY <1>1, Zenon
  <2> QED BY <1>11, <1>12, <1>13, <1>14, <1>15, <2>1 DEF Owned
<1> QED BY <1>6, <1>7, <1>10, <1>16, Zenon DEF Core

\* A stamp: the head of a file that has its payload is written over.
LEMMA StampCore ==
    ASSUME Shape, Roles, Core, NEW t \in Threads, loc[t].pc \in {"flush_write", "flush_end"},
           NEW r, Puts(t, r), Quiet(t, r), r.file \in {loc[t].file, NoFile}, r.pc \notin Fresh,
           NEW contents, Fill(loc[t].file, contents), contents.body, contents.head # "none",
           UNCHANGED <<entry, temps, orphans, last, ofBackend, kind, queue>>
    PROVE  Core'
<1>1. PICK f \in Writes : f = loc[t].file
  BY ReadTypes, Zenon DEF Core, Bodies, BodyOf, Numbers
<1>2. file'[f] = contents /\ (\A v \in Writes : v # f => file'[v] = file[v]) /\ file[f].body
  BY <1>1, Zenon DEF Fill, Shape, DirShape, Core, Bodies, BodyOf
<1>3. \A s \in Threads : /\ loc'[s].file \in {loc[s].file, NoFile} /\ loc'[s].w \in {loc[s].w, NoFile}
                         /\ s # t => loc'[s] = loc[s]
  BY Zenon DEF Puts, Quiet
<1>4. ASSUME NEW v \in Writes, NotOpen(v)
      PROVE  NotOpen(v)' /\ v # f
  <2>1. v # NoFile
    BY NotNone, Zenon
  <2> QED BY <1>1, <1>3, <1>4, <2>1, Zenon DEF NotOpen
<1>5. ASSUME NEW v \in Writes, Unpublished(v)
      PROVE  Unpublished(v)' /\ v # f
  BY <1>4, <1>5, Zenon DEF Unpublished
<1>6. Publishing'
  <2> SUFFICES ASSUME NEW v \in Writes
               PROVE  /\ v > last => Unpublished(v)' /\ file'[v] = Blank /\ v \notin temps
                      /\ \A a \in Backends : \A i \in 1 .. Len(queue[a]) :
                           queue[a][i] = v => Unpublished(v)' /\ v \notin temps
                      /\ \A s \in Threads : loc'[s].w = v =>
                           /\ loc'[s].pc \in Fresh => Unpublished(v)'
                           /\ loc'[s].pc \in {"body", "head", "head_end"} => NotOpen(v)'
    BY Zenon DEF Publishing
  <2>1. v > last => Unpublished(v)' /\ file'[v] = Blank /\ v \notin temps
    BY <1>2, <1>5, Zenon DEF Core, Publishing
  <2>2. \A a \in Backends : \A i \in 1 .. Len(queue[a]) :
           queue[a][i] = v => Unpublished(v)' /\ v \notin temps
    BY <1>5, Zenon DEF Core, Publishing
  <2>3. ASSUME NEW s \in Threads, loc'[s].w = v
        PROVE  /\ loc'[s].pc \in Fresh => Unpublished(v)'
               /\ loc'[s].pc \in {"body", "head", "head_end"} => NotOpen(v)'
    <3>1. CASE s = t
      BY <3>1, Zenon DEF Puts, Quiet
    <3>2. CASE s # t
      BY <1>3, <1>4, <1>5, <2>3, <3>2, Zenon DEF Core, Publishing
    <3> QED BY <3>1, <3>2, Zenon
  <2> QED BY <2>1, <2>2, <2>3, Zenon
<1>7. HeadLast'
  BY <1>2, Zenon DEF HeadLast, Core, Bodies
<1>8. ASSUME NEW s \in Threads
      PROVE  BodyOf(loc[s])'
  <2>1. CASE s = t
    <3>1. loc'[s] = r /\ (r.pc \in {"flush_write", "flush_end"} => r.file = f)
      BY <1>1, <2>1, Zenon DEF Puts, Quiet
    <3> QED BY <1>2, <3>1, Zenon DEF BodyOf, Quiet, Writes, NoFile
  <2>2. CASE s # t
    <3>1. loc'[s] = loc[s] /\ BodyOf(loc[s])
      BY <1>3, <2>2, Zenon DEF Core, Bodies
    <3>2. loc[s].pc \in {"body", "head", "head_end", "rename"} => file'[loc[s].w] = file[loc[s].w]
      BY <1>2, <1>4, MakingWrite, Zenon
    <3>3. loc[s].pc = "close" => file'[loc[s].w].body /\ file'[loc[s].w].head # "none"
      <4>1. loc[s].pc = "close" => loc[s].w \in Writes
        BY HasWrite, Zenon DEF Roles, Making
      <4> QED BY <1>2, <3>1, <4>1, Zenon DEF BodyOf
    <3>4. loc[s].pc \in {"flush_write", "flush_end"} => file'[loc[s].file].body
      <4>1. loc[s].file # NoFile => loc[s].file \in Writes
        BY ReadTypes, Zenon DEF Numbers
      <4> QED BY <1>2, <3>1, <4>1, Zenon DEF BodyOf
    <3> QED BY <3>1, <3>2, <3>3, <3>4, Zenon DEF BodyOf
  <2> QED BY <2>1, <2>2, Zenon
<1>9. Temps'
  <2>1. loc[t].w \notin temps /\ temps \subseteq Writes
    BY Zenon DEF Core, Temps, Shape, DirShape
  <2> QED BY <2>1, QuietTemps, Zenon DEF Core, Temps, Quiet
<1>10. Owned'
  BY OwnedKept, Zenon DEF Core, Quiet
<1> QED BY <1>6, <1>7, <1>8, <1>9, <1>10, Zenon DEF Core, Bodies

LEMMA FlushCore ==
    ASSUME Shape, Roles, Core, NEW t \in Threads, FlushStep(t)
    PROVE  Core'
<1>0. loc[t] \in Locals
  BY LocalsType, Zenon
<1>1. CASE FlushBegin(t) \/ FlushCached(t) \/ FlushOpen(t)
  <2>1. /\ loc[t].pc \notin {"fill", "rename"} /\ entry' \in {entry, NoFile}
        /\ UNCHANGED <<file, temps, orphans, last, ofBackend, kind, queue>>
    BY <1>1, Zenon DEF FlushBegin, FlushCached, FlushOpen, At, dirVars, writeVars, queueVars
  <2>2. PICK r : Puts(t, r) /\ Quiet(t, r)
    <3>1. Quiet(t, Went(loc[t], "flush"))
      BY WentQuiet, Zenon DEF Fresh
    <3>2. \A m : Quiet(t, WentCached(loc[t], "flush_lock", m))
      BY <1>0, WentCachedFields, SMTT(30) DEF Quiet, Fresh
    <3>3. HeadWhole(entry) => Quiet(t, WentFile(loc[t], "flush_write", entry))
      <4>1. HeadWhole(entry) => entry # NoFile /\ file[entry].body
        BY Zenon DEF HeadWhole, Core, Bodies, HeadLast, Shape, DirShape, Numbers
      <4> QED BY <1>0, <4>1, WentFileFields DEF Quiet, Fresh
    <3> QED BY <1>1, <3>1, <3>2, <3>3, IdleQuiet, FlushMoves, Zenon
  <2> QED BY <2>1, <2>2, StillStep, Zenon
<1>2. CASE FlushWriteBegin(t) \/ FlushWriteEnd(t)
  <2>1. /\ loc[t].pc \in {"flush_write", "flush_end"}
        /\ UNCHANGED <<entry, temps, orphans, last, ofBackend, kind, queue>>
    BY <1>2, Zenon DEF FlushWriteBegin, FlushWriteEnd, At, writeVars, queueVars
  <2>2. loc[t].file \in Writes /\ file[loc[t].file] \in Files /\ file[loc[t].file].body
    BY <2>1, ReadTypes, Zenon DEF Core, Bodies, BodyOf, Numbers, Shape, DirShape
  <2>3. CASE FlushWriteBegin(t)
    <3>1. /\ Puts(t, Went(loc[t], "flush_end"))
          /\ Fill(loc[t].file, [file[loc[t].file] EXCEPT !.head = "torn"])
      BY <2>3, FlushMoves, Zenon DEF FlushWriteBegin
    <3>2. LET k == [file[loc[t].file] EXCEPT !.head = "torn"] IN k.body /\ k.head # "none"
      BY <2>2, Zenon DEF Files
    <3>3. LET r == Went(loc[t], "flush_end") IN
          Quiet(t, r) /\ r.file \in {loc[t].file, NoFile} /\ r.pc \notin Fresh
      BY <1>0, <2>2, WentFields DEF Quiet, Fresh, Writes, NoFile
    <3> QED BY <2>1, <3>1, <3>2, <3>3, StampCore, Zenon
  <2>4. CASE FlushWriteEnd(t)
    <3>1. /\ Puts(t, Idle)
          /\ Fill(loc[t].file, [file[loc[t].file] EXCEPT !.head = "whole", !.meta = loc[t].cached, !.mtime = @ + 1])
      BY <2>4, FlushMoves, Zenon DEF FlushWriteEnd
    <3>2. LET k == [file[loc[t].file] EXCEPT !.head = "whole", !.meta = loc[t].cached, !.mtime = @ + 1]
          IN  k.body /\ k.head # "none"
      BY <2>2, Zenon DEF Files
    <3>3. Quiet(t, Idle) /\ Idle.file \in {loc[t].file, NoFile} /\ Idle.pc \notin Fresh
      BY IdleQuiet, IdleFields, Zenon DEF Fresh
    <3> QED BY <2>1, <3>1, <3>2, <3>3, StampCore, Zenon
  <2> QED BY <1>2, <2>3, <2>4, Zenon
<1> QED BY <1>1, <1>2, Zenon DEF FlushStep

\* A killed process: its threads stop, its queues and locks are gone.
LEMMA CrashMoves ==
    ASSUME Shape, NEW p \in Processes, Crash(p)
    PROVE  /\ \A t \in Threads : loc'[t] = IF ProcessOf[On[t]] = p THEN Idle ELSE loc[t]
           /\ \A b \in Backends : queue'[b] = IF ProcessOf[b] = p THEN <<>> ELSE queue[b]
           /\ \A b \in Backends : pending'[b] = IF ProcessOf[b] = p THEN NoFile ELSE pending[b]
           /\ \A b \in Backends : touched'[b] = IF ProcessOf[b] = p THEN Untouched ELSE touched[b]
           /\ \A b \in Backends : lock'[b] = IF ProcessOf[b] = p THEN Free ELSE lock[b]
           /\ orphans' = orphans \cup {w \in temps : ProcessOf[ofBackend[w]] = p}
           /\ calm' = {}
           /\ UNCHANGED <<entry, file, temps, last, ofBackend, kind, deleted>>
<1>1. \A t \in Threads : loc'[t] = IF ProcessOf[On[t]] = p THEN Idle ELSE loc[t]
  BY Zenon DEF Crash
<1>2. \A b \in Backends : queue'[b] = IF ProcessOf[b] = p THEN <<>> ELSE queue[b]
  BY Zenon DEF Crash
<1>3. \A b \in Backends : pending'[b] = IF ProcessOf[b] = p THEN NoFile ELSE pending[b]
  BY Zenon DEF Crash
<1>4. \A b \in Backends : touched'[b] = IF ProcessOf[b] = p THEN Untouched ELSE touched[b]
  BY Zenon DEF Crash
<1>5. \A b \in Backends : lock'[b] = IF ProcessOf[b] = p THEN Free ELSE lock[b]
  BY Zenon DEF Crash
<1>6. /\ orphans' = orphans \cup {w \in temps : ProcessOf[ofBackend[w]] = p}
      /\ calm' = {}
      /\ UNCHANGED <<entry, file, temps, last, ofBackend, kind, deleted>>
  BY Zenon DEF Crash, writeVars
<1> QED BY <1>1, <1>2, <1>3, <1>4, <1>5, <1>6, Zenon

LEMMA CrashCore ==
    ASSUME Shape, Roles, Core, NEW p \in Processes, Crash(p)
    PROVE  Core' /\ Roles'
<1>1. \A t \in Threads : loc'[t] = IF ProcessOf[On[t]] = p THEN Idle ELSE loc[t]
  BY CrashMoves, Zenon
<1>2. \A b \in Backends : queue'[b] = <<>> \/ queue'[b] = queue[b]
  BY CrashMoves, Zenon
<1>3. /\ orphans' = orphans \cup {w \in temps : ProcessOf[ofBackend[w]] = p}
      /\ UNCHANGED <<entry, file, temps, last, ofBackend, kind>>
  BY CrashMoves, Zenon
<1>4. \A b \in Backends : \A i \in 1 .. Len(queue'[b]) : queue'[b] = queue[b] /\ i \in 1 .. Len(queue[b])
  BY <1>2
<1>5. \A t \in Threads : loc'[t].w \in {loc[t].w, NoFile} /\ loc'[t].file \in {loc[t].file, NoFile}
  BY <1>1, IdleFields, Zenon
<1>6. Roles'
  BY <1>1, IdleRole, Zenon DEF Roles, Role
<1>7. Owned'
  <2>1. \A s \in Threads : loc'[s].w # NoFile =>
           /\ loc'[s].w <= last
           /\ ofBackend[loc'[s].w] = On[s]
           /\ kind[loc'[s].w] = IF s \in Callers THEN "only" ELSE "full"
    BY <1>5, Zenon DEF Core, Owned
  <2>2. \A c, d \in Callers : loc'[c].w = loc'[d].w /\ loc'[c].w # NoFile => c = d
    <3>1. \A c, d \in Callers : loc[c].w = loc[d].w /\ loc[c].w # NoFile => c = d
      BY Zenon DEF Core, Owned
    <3> QED BY <1>5, <3>1, Zenon DEF Threads
  <2>3. \A b \in Backends : \A i \in 1 .. Len(queue'[b]) :
           queue'[b][i] <= last /\ ofBackend[queue'[b][i]] = b /\ kind[queue'[b][i]] = "full"
    <3>1. \A b \in Backends : \A i \in 1 .. Len(queue[b]) :
             queue[b][i] <= last /\ ofBackend[queue[b][i]] = b /\ kind[queue[b][i]] = "full"
      BY Zenon DEF Core, Owned
    <3> QED BY <1>4, <3>1
  <2>4. \A b \in Backends : \A i, j \in 1 .. Len(queue'[b]) : i < j => queue'[b][i] < queue'[b][j]
    BY <1>4, Zenon DEF Core, Owned
  <2>5. ASSUME NEW s \in Writers, NEW i \in 1 .. Len(queue'[On[s]])
        PROVE  loc'[s].w < queue'[On[s]][i]
    <3>1. On[s] \in Backends /\ s \in Threads
      BY ConstantsAssumption, Zenon DEF Threads
    <3>2. queue'[On[s]] = queue[On[s]] /\ i \in 1 .. Len(queue[On[s]])
      BY <1>4, <3>1, Zenon
    <3>3. loc[s].w < queue[On[s]][i] /\ queue[On[s]][i] \in Writes
      BY <3>1, <3>2 DEF Core, Owned, Shape, QueueShape
    <3> QED BY <1>5, <3>1, <3>2, <3>3 DEF Writes, NoFile
  <2>6. last' = last /\ ofBackend' = ofBackend /\ kind' = kind
    BY <1>3, Zenon
  <2> QED BY <2>1, <2>2, <2>3, <2>4, <2>5, <2>6, Zenon DEF Owned
<1>8. Publishing'
  <2>1. ASSUME NEW v \in Writes, NotOpen(v)
        PROVE  NotOpen(v)'
    <3>1. v # NoFile
      BY NotNone, Zenon
    <3> QED BY <1>5, <2>1, <3>1, Zenon DEF NotOpen
  <2>2. ASSUME NEW v \in Writes, Unpublished(v)
        PROVE  Unpublished(v)'
    BY <1>3, <2>1, <2>2, Zenon DEF Unpublished
  <2> SUFFICES ASSUME NEW v \in Writes
               PROVE  /\ v > last => Unpublished(v)' /\ file[v] = Blank /\ v \notin temps
                      /\ \A a \in Backends : \A i \in 1 .. Len(queue'[a]) :
                           queue'[a][i] = v => Unpublished(v)' /\ v \notin temps
                      /\ \A s \in Threads : loc'[s].w = v =>
                           /\ loc'[s].pc \in Fresh => Unpublished(v)'
                           /\ loc'[s].pc \in {"body", "head", "head_end"} => NotOpen(v)'
    BY <1>3, Zenon DEF Publishing
  <2>3. v > last => Unpublished(v)' /\ file[v] = Blank /\ v \notin temps
    BY <2>2, Zenon DEF Core, Publishing
  <2>4. \A a \in Backends : \A i \in 1 .. Len(queue'[a]) :
           queue'[a][i] = v => Unpublished(v)' /\ v \notin temps
    BY <1>4, <2>2, Zenon DEF Core, Publishing
  <2>5. \A s \in Threads : loc'[s].w = v =>
           /\ loc'[s].pc \in Fresh => Unpublished(v)'
           /\ loc'[s].pc \in {"body", "head", "head_end"} => NotOpen(v)'
    BY <1>1, <2>1, <2>2, IdleFields, Zenon DEF Core, Publishing, Fresh
  <2> QED BY <2>3, <2>4, <2>5, Zenon
<1>9. Temps'
  <2>1. NoFile \notin temps /\ orphans' \subseteq temps'
    <3>1. NoFile \notin temps
      BY DEF Shape, DirShape, Writes, NoFile
    <3>2. orphans \subseteq temps
      BY Zenon DEF Core, Temps
    <3> QED BY <1>3, <3>1, <3>2, Zenon
  <2>2. \A s \in Threads : loc[s].w \in temps => ofBackend[loc[s].w] = On[s]
    BY <2>1, Zenon DEF Core, Owned
  <2>3. \A s \in Threads : loc'[s].w \notin orphans'
    <3>1. \A s \in Threads : loc[s].w \notin orphans
      BY Zenon DEF Core, Temps
    <3>2. \A s \in Threads : loc[s].w \in orphans' => ProcessOf[On[s]] = p
      BY <1>3, <2>2, <3>1, Zenon
    <3>3. Idle.w = NoFile /\ NoFile \notin orphans'
      BY <1>3, <2>1, IdleFields, Zenon
    <3> QED BY <1>1, <3>2, <3>3, Zenon
  <2>4. \A s \in Threads : loc'[s].w \in temps' => loc'[s].pc \in {"fill", "rename"}
    <3>1. \A s \in Threads : loc[s].w \in temps => loc[s].pc \in {"fill", "rename"}
      BY Zenon DEF Core, Temps
    <3> QED BY <1>1, <1>3, <2>1, <3>1, IdleFields, Zenon
  <2>5. \A v \in temps' \ orphans' : \E s \in Threads : loc'[s].w = v
    <3> SUFFICES ASSUME NEW v \in temps, v \notin orphans'
                 PROVE  \E s \in Threads : loc'[s].w = v
      BY <1>3, Zenon
    <3>1. v \notin orphans /\ ProcessOf[ofBackend[v]] # p
      BY <1>3, Zenon
    <3>2. PICK s \in Threads : loc[s].w = v
      BY <3>1, Zenon DEF Core, Temps
    <3> QED BY <1>1, <2>2, <3>1, <3>2, Zenon
  <2> QED BY <2>1, <2>3, <2>4, <2>5, Zenon DEF Temps
<1>10. Bodies'
  <2>1. HeadLast'
    BY <1>3, Zenon DEF Core, Bodies, HeadLast
  <2>2. \A s \in Threads : BodyOf(loc[s])'
    BY <1>1, <1>3, IdleFields, Zenon DEF Core, Bodies, BodyOf
  <2> QED BY <2>1, <2>2, Zenon DEF Bodies
<1> QED BY <1>6, <1>7, <1>8, <1>9, <1>10, Zenon DEF Core

LEMMA WipeCore ==
    ASSUME Shape, Roles, Core, Wipe
    PROVE  Core' /\ Roles'
<1>1. /\ UNCHANGED <<file, last, ofBackend, kind, queue, loc>>
      /\ entry' = NoFile /\ temps' = {} /\ orphans' = {}
  BY Zenon DEF Wipe, writeVars, queueVars
<1>2. Roles'
  BY <1>1, Zenon DEF Roles, Role
<1>3. Owned'
  BY <1>1, ZenonT(30) DEF Core, Owned
<1>4. Publishing'
  <2>1. \A v \in Writes : /\ NotOpen(v) => NotOpen(v)'
                          /\ Unpublished(v) => Unpublished(v)'
    BY <1>1 DEF NotOpen, Unpublished, Writes, NoFile
  <2> QED BY <1>1, <2>1, Zenon DEF Core, Publishing
<1>5. Temps'
  BY <1>1, Zenon DEF Temps
<1>6. Bodies'
  BY <1>1, Zenon DEF Core, Bodies, HeadLast, BodyOf
<1> QED BY <1>2, <1>3, <1>4, <1>5, <1>6, Zenon DEF Core

-----------------------------------------------------------------------------
(* The entry's lock.                                                       *)

\* A step outside the lock, or from one place inside it to another.
LEMMA LockKept ==
    ASSUME Shape, LockInv, NEW t \in Threads, NEW r, Puts(t, r), lock' = lock,
           loc[t].pc \in Holding => r.pc \in Holding
    PROVE  LockInv'
<1>1. \A s \in Threads : loc[s].pc \in Holding => loc'[s].pc \in Holding
  BY Zenon DEF Puts
<1> QED BY <1>1, ZenonT(60) DEF LockInv, Shape, BackendShape

LEMMA LockTaken ==
    ASSUME Shape, LockInv, NEW t \in Threads, NEW r, Puts(t, r), lock' = [lock EXCEPT ![On[t]] = t],
           r.pc \in Holding
    PROVE  LockInv'
<1>1. \A s \in Threads : loc[s].pc \in Holding => loc'[s].pc \in Holding
  BY Zenon DEF Puts
<1>2. \A b \in Backends : lock'[b] = IF b = On[t] THEN t ELSE lock[b]
  BY Zenon DEF Shape, BackendShape
<1>3. loc'[t].pc \in Holding
  BY Zenon DEF Puts
<1> QED BY <1>1, <1>2, <1>3 DEF LockInv, Shape, BackendShape

LEMMA LockLeft ==
    ASSUME Shape, LockInv, NEW t \in Threads, NEW r, Puts(t, r), Unlock(t)
    PROVE  LockInv'
<1>1. \A s \in Threads : s # t => loc'[s] = loc[s]
  BY Zenon DEF Puts
<1>2. \A b \in Backends : lock'[b] = IF lock[b] = t THEN Free ELSE lock[b]
  BY Zenon DEF Unlock
<1> QED BY <1>1, <1>2 DEF LockInv, Shape, BackendShape

\* Every step of a thread changes only its own locals.
LEMMA StepMoves ==
    ASSUME Shape, NEW t \in Threads, WriteStep(t) \/ FlushStep(t) \/ CallStep(t)
    PROVE  \E r : Puts(t, r)
<1>1. CASE WriteStep(t)
  <2>1. CASE TempCreate(t) \/ Rename(t)
    BY <2>1, WriteMoves, MissingMoves, Zenon DEF TempCreate, Rename
  <2> QED BY <1>1, <2>1, WriteMoves, Zenon DEF WriteStep
<1>2. CASE FlushStep(t)
  BY <1>2, FlushMoves, Zenon DEF FlushStep
<1>3. CASE CallStep(t)
  <2>1. CASE SetBegin(t) \/ SetSubmit(t) \/ ReadBegin(t) \/ OnlyBegin(t) \/ DeleteBegin(t) \/ ClearBegin(t)
    BY <2>1, BeginningMoves, Zenon
  <2>2. CASE GetDecide(t) \/ MetadataDecide(t)
    BY <2>2, GetMoves, MetadataMoves, Zenon
  <2> QED BY <1>3, <2>1, <2>2, CallMoves, Zenon DEF CallStep
<1> QED BY <1>1, <1>2, <1>3, Zenon

LEMMA WriteLock ==
    ASSUME Shape, LockInv, NEW t \in Threads, WriteStep(t)
    PROVE  LockInv'
<1>0. loc[t] \in Locals
  BY LocalsType, Zenon
<1>1. CASE WriterTake(t) \/ Sweep(t) \/ RememberWritten(t)
  <2>1. loc[t].pc \notin Holding /\ lock' = lock
    BY <1>1, Zenon DEF WriterTake, Sweep, RememberWritten, At, Holding, backendVars
  <2> QED BY <1>1, <2>1, StepMoves, LockKept, Zenon DEF WriteStep
<1>2. CASE Lock(t)
  BY <1>0, <1>2, WriteMoves, WentFields, LockTaken, ZenonT(30) DEF Lock, Holding
<1>3. CASE Written(t) \/ WriteFailed(t)
  BY <1>3, WriteMoves, LockLeft, Zenon DEF Written, WriteFailed
<1>4. ASSUME NEW where \in Holding, Puts(t, Went(loc[t], where)), lock' = lock
      PROVE  LockInv'
  BY <1>0, <1>4, WentFields, LockKept
<1>5. CASE PlaceBody(t) \/ PlaceHeadBegin(t) \/ PlaceHeadEnd(t) \/ PlaceClose(t) \/ PlaceFails(t)
  BY <1>4, <1>5, WriteMoves, Zenon
     DEF PlaceBody, PlaceHeadBegin, PlaceHeadEnd, PlaceClose, PlaceFails, backendVars, Holding
<1>6. CASE TempFill(t) \/ TempFails(t) \/ Place(t)
  BY <1>4, <1>6, WriteMoves, Zenon DEF TempFill, TempFails, Place, backendVars, Holding
<1>7. CASE TempCreate(t) \/ Rename(t)
  <2>1. lock' = lock
    BY <1>7, Zenon DEF TempCreate, Rename, backendVars
  <2>2. Puts(t, WentBack(loc[t])) => LockInv'
    BY <1>0, <2>1, WentBackFields, LockKept, Zenon DEF Holding
  <2>3. \A where \in {"fill", "written", "failed"} : Puts(t, Went(loc[t], where)) => LockInv'
    BY <1>4, <2>1, Zenon DEF Holding
  <2> QED BY <1>7, <2>2, <2>3, WriteMoves, MissingMoves, Zenon DEF TempCreate, Rename
<1> QED BY <1>1, <1>2, <1>3, <1>5, <1>6, <1>7, Zenon DEF WriteStep

LEMMA FlushLock ==
    ASSUME Shape, LockInv, NEW t \in Threads, FlushStep(t)
    PROVE  LockInv'
<1>0. loc[t] \in Locals
  BY LocalsType, Zenon
<1>1. CASE FlushBegin(t) \/ FlushCached(t)
  <2>1. loc[t].pc \notin Holding /\ lock' = lock
    BY <1>1, Zenon DEF FlushBegin, FlushCached, At, Holding, backendVars
  <2> QED BY <1>1, <2>1, StepMoves, LockKept, Zenon DEF FlushStep
<1>2. CASE FlushOpen(t)
  <2>1. loc[t].pc \notin Holding
    BY <1>2, Zenon DEF FlushOpen, At, Holding
  <2>2. "flush_write" \in Holding
    BY Zenon DEF Holding
  <2>3. WentFile(loc[t], "flush_write", entry).pc \in Holding
    BY <1>0, <2>2, WentFileFields
  <2>4. CASE lock' = [lock EXCEPT ![On[t]] = t] /\ Puts(t, WentFile(loc[t], "flush_write", entry))
    BY <2>3, <2>4, LockTaken, Zenon
  <2>5. CASE lock' = lock /\ Puts(t, Idle)
    BY <2>1, <2>5, LockKept, Zenon
  <2> QED BY <1>2, <2>4, <2>5, FlushMoves, Zenon
<1>3. CASE FlushWriteBegin(t)
  BY <1>0, <1>3, FlushMoves, WentFields, LockKept DEF FlushWriteBegin, backendVars, Holding
<1>4. CASE FlushWriteEnd(t)
  BY <1>4, FlushMoves, LockLeft, Zenon DEF FlushWriteEnd
<1> QED BY <1>1, <1>2, <1>3, <1>4, Zenon DEF FlushStep

LEMMA CallLock ==
    ASSUME Shape, LockInv, NEW c \in Threads, CallStep(c)
    PROVE  LockInv'
<1>1. loc[c].pc \notin Holding /\ lock' = lock
  <2> USE DEF At, Holding, backendVars
  <2>1. CASE SetBegin(c) \/ SetSubmit(c) \/ ReadBegin(c) \/ OnlyBegin(c) \/ DeleteBegin(c) \/ ClearBegin(c)
    BY <2>1, Zenon DEF SetBegin, SetSubmit, ReadBegin, OnlyBegin, DeleteBegin, ClearBegin, Begin
  <2>2. CASE WaitOwn(c) \/ WaitSiblings(c) \/ Cached(c) \/ Stat(c) \/ ReadFile(c)
    BY <2>2, Zenon DEF WaitOwn, WaitSiblings, Cached, Stat, ReadFile
  <2>3. CASE GetDecide(c) \/ MetadataDecide(c) \/ Return(c)
    BY <2>3, Zenon DEF GetDecide, MetadataDecide, Return
  <2>4. CASE OnlyKnown(c) \/ Unlink(c) \/ Forget(c)
    BY <2>4, Zenon DEF OnlyKnown, Unlink, Forget
  <2> QED BY <2>1, <2>2, <2>3, <2>4, Zenon DEF CallStep
<1> QED BY <1>1, StepMoves, LockKept, Zenon

LEMMA CrashLock ==
    ASSUME Shape, LockInv, NEW p \in Processes, Crash(p)
    PROVE  LockInv'
<1>1. /\ \A t \in Threads : loc'[t] = IF ProcessOf[On[t]] = p THEN Idle ELSE loc[t]
      /\ \A b \in Backends : lock'[b] = IF ProcessOf[b] = p THEN Free ELSE lock[b]
  BY CrashMoves, Zenon
<1> QED BY <1>1 DEF LockInv, Shape, BackendShape

-----------------------------------------------------------------------------
(* The invariant holds.                                                    *)

LEMMA InitShape ==
    ASSUME Init
    PROVE  Shape /\ Roles
<1>1. DirShape /\ WriteShape
  <2>1. (CHOOSE b \in Backends : TRUE) \in Backends
    BY ConstantsAssumption, Zenon
  <2> QED BY <2>1, BlankType, ConstantsAssumption DEF Init, DirShape, WriteShape, Numbers
<1>2. QueueShape /\ MemShape /\ BackendShape
  BY UntouchedType DEF Init, QueueShape, MemShape, BackendShape, Numbers
<1>3. LocShape /\ BoundShape /\ deleted \subseteq Writes
  BY IdleType, Zenon DEF Init, LocShape, BoundShape
<1>4. Roles
  BY IdleRole, Zenon DEF Init, Roles, Role
<1> QED BY <1>1, <1>2, <1>3, <1>4, Zenon DEF Shape

LEMMA InitEntry ==
    ASSUME Init
    PROVE  EntryInv
<1>1. /\ \A t \in Threads : loc[t] = Idle
      /\ \A b \in Backends : queue[b] = <<>> /\ lock[b] = Free
      /\ \A w \in Writes : file[w] = Blank
      /\ entry = NoFile /\ temps = {} /\ orphans = {}
  BY Zenon DEF Init
<1>2. Owned
  <2>1. \A t \in Writers : On[t] \in Backends /\ t \in Threads
    BY ConstantsAssumption, Zenon DEF Threads
  <2>2. \A b \in Backends : 1 .. Len(queue[b]) = {}
    BY <1>1
  <2>3. \A t \in Threads : loc[t].w = NoFile
    BY <1>1, IdleFields, Zenon
  <2> QED BY <2>1, <2>2, <2>3, Zenon DEF Owned, Threads
<1>3. Publishing
  <2>1. ASSUME NEW w \in Writes
        PROVE  Unpublished(w) /\ file[w] = Blank /\ w \notin temps /\ \A s \in Threads : loc[s].w # w
    BY <1>1, IdleFields, NotNone, Zenon DEF Unpublished, NotOpen
  <2> QED BY <2>1, Zenon DEF Publishing
<1>4. Temps
  BY <1>1, ZenonT(30) DEF Temps
<1>5. Bodies
  <2>1. HeadLast
    BY <1>1 DEF HeadLast, Blank
  <2>2. BodyOf(Idle)
    BY IdleFields, Zenon DEF BodyOf
  <2> QED BY <1>1, <2>1, <2>2, Zenon DEF Bodies
<1>6. LockInv
  BY <1>1, Zenon DEF LockInv
<1> QED BY <1>2, <1>3, <1>4, <1>5, <1>6, InitShape, Zenon DEF EntryInv

\* Every step of every thread, and of the environment, keeps it.
LEMMA EntryStep ==
    ASSUME EntryInv, [Next]_vars
    PROVE  EntryInv'
<1>0. Shape /\ Roles /\ Core /\ LockInv
  BY Zenon DEF EntryInv, Core
<1>1. ASSUME NEW t \in Threads, WriteStep(t)
      PROVE  EntryInv'
  <2>1. Shape'
    BY <1>0, <1>1, WriteShapes, Zenon DEF Roles
  <2>2. Roles'
    BY <1>0, <1>1, WriteRoles, Zenon
  <2>3. Core'
    BY <1>0, <1>1, TakeCore, WriteRemoves, WriteStill, PlaceCore, TempCore, Zenon DEF WriteStep
  <2>4. LockInv'
    BY <1>0, <1>1, WriteLock, Zenon
  <2> QED BY <2>1, <2>2, <2>3, <2>4, Zenon DEF EntryInv, Core
<1>2. ASSUME NEW t \in Threads, FlushStep(t)
      PROVE  EntryInv'
  BY <1>0, <1>2, FlushShapes, FlushRoles, FlushCore, FlushLock, Zenon DEF EntryInv, Core
<1>3. ASSUME NEW c \in Callers, CallStep(c)
      PROVE  EntryInv'
  <2>0. c \in Threads
    BY Zenon DEF Threads
  <2>1. Shape' /\ Roles' /\ LockInv'
    BY <1>0, <1>3, <2>0, CallShapes, CallRoles, CallLock, Zenon
  <2>2. Core'
    BY <1>0, <1>3, CallCore, SubmitCore, OnlyCore, Zenon
  <2> QED BY <2>1, <2>2, Zenon DEF EntryInv, Core
<1>4. ASSUME NEW p \in Processes, Crash(p)
      PROVE  EntryInv'
  <2>1. Shape'
    BY <1>0, <1>4, EnvironmentShapes, Zenon DEF Core
  <2> QED BY <1>0, <1>4, <2>1, CrashCore, CrashLock, Zenon DEF EntryInv, Core
<1>5. CASE Wipe
  <2>1. Shape'
    BY <1>0, <1>5, EnvironmentShapes, Zenon DEF Core
  <2>2. LockInv'
    BY <1>0, <1>5, Zenon DEF Wipe, LockInv, backendVars
  <2> QED BY <1>0, <1>5, <2>1, <2>2, WipeCore, Zenon DEF EntryInv, Core
<1>6. CASE UNCHANGED vars
  <2>1. UNCHANGED <<dir, entry, file, temps, orphans, last, ofBackend, kind, queue, pending>>
    BY <1>6, Zenon DEF vars, dirVars, writeVars, queueVars
  <2>2. UNCHANGED <<touched, unflushed, lock, swept, closed, loc, flushes, crashes, wipes, deleted>>
    BY <1>6, Zenon DEF vars, memVars, backendVars, boundVars, histVars
  <2>3. Shape'
    BY <1>0, <2>1, <2>2, Zenon DEF Shape, DirShape, WriteShape, QueueShape, MemShape, BackendShape, LocShape, BoundShape
  <2>4. Roles' /\ LockInv' /\ Temps'
    BY <1>0, <2>1, <2>2, Zenon DEF Roles, Role, LockInv, Core, Temps
  <2>5. Owned'
    BY <1>0, <2>1, <2>2, ZenonT(60) DEF Core, Owned
  <2>6. Publishing'
    BY <1>0, <2>1, <2>2, Zenon DEF Core, Publishing, Unpublished, NotOpen
  <2>7. Bodies'
    BY <1>0, <2>1, <2>2, Zenon DEF Core, Bodies, HeadLast, BodyOf
  <2> QED BY <2>3, <2>4, <2>5, <2>6, <2>7, Zenon DEF EntryInv
<1> QED BY <1>1, <1>2, <1>3, <1>4, <1>5, <1>6, Zenon DEF Next

LEMMA EntryAlways == Spec => []EntryInv
BY InitEntry, EntryStep, PTL DEF Spec

LEMMA EntryTypes ==
    ASSUME EntryInv
    PROVE  TypeOK
<1>1. /\ dir \in BOOLEAN /\ entry \in Writes \cup {NoFile} /\ temps \subseteq Writes
      /\ file \in [Writes -> [head : {"none", "torn", "whole"}, meta : Writes \cup {NoFile},
                              body : BOOLEAN, mtime : Nat]]
  BY Zenon DEF EntryInv, Shape, DirShape, Files, Numbers
<1>2. orphans \subseteq temps /\ temps \ orphans \subseteq {loc[t].w : t \in Threads}
  BY Zenon DEF EntryInv, Temps
<1>3. \A b \in Backends : lock[b] \in Threads \cup {Free}
  BY Zenon DEF EntryInv, Shape, BackendShape
<1>4. \A w \in Writes : w > last => file[w] = Blank
  BY Zenon DEF EntryInv, Publishing
<1> QED BY <1>1, <1>2, <1>3, <1>4, Zenon DEF TypeOK

\* The types, and that a temp file has a thread that fills it or a killed
\* owner: a write that fails, finds no directory or is renamed leaves none.
THEOREM EntryTyped == Spec => []TypeOK
BY EntryAlways, EntryTypes, PTL

\* The header goes last: no file has a head before its payload is whole,
\* whoever fills it, stamps it, fails on it or is killed over it.
THEOREM HeadComesLast == Spec => []HeadLast
<1>1. EntryInv => HeadLast
  BY Zenon DEF EntryInv, Bodies
<1> QED BY <1>1, EntryAlways, PTL

\* The entry's lock is held only inside a write or a flush.
THEOREM LockComesFree == Spec => []LockReleased
<1>1. EntryInv => LockReleased
  BY Zenon DEF EntryInv, LockInv, LockReleased, Holding
<1> QED BY <1>1, EntryAlways, PTL

-----------------------------------------------------------------------------
(* A write that landed left the key readable.                              *)

\* A step that leaves the path alone, or gives it a file with a head.
LEMMA LandedKept ==
    ASSUME Shape, Landed, NEW t \in Threads, NEW r, Puts(t, r),
           entry' = entry \/ HasHead', HasHead => HasHead',
           calm' \cap Threads \subseteq calm \cup {t}, LandedOf(r)'
    PROVE  Landed'
<1> SUFFICES ASSUME NEW s \in Threads, s \in calm'
             PROVE  LandedOf(loc[s])'
  BY Zenon DEF Landed
<1>1. CASE s = t
  BY <1>1, Zenon DEF Puts, LandedOf
<1>2. CASE s # t
  BY <1>2, Zenon DEF Landed, LandedOf, Puts, HasHead
<1> QED BY <1>1, <1>2, Zenon

\* Which threads a call calms, and that it lands nowhere.
LEMMA CallLands ==
    ASSUME Shape, NEW c \in Threads, CallStep(c)
    PROVE  \E r : Puts(c, r) /\ r.pc \notin Landing
<1>0. loc[c] \in Locals
  BY LocalsType, Zenon
<1>1. CASE SetBegin(c) \/ SetSubmit(c) \/ ReadBegin(c) \/ OnlyBegin(c) \/ DeleteBegin(c) \/ ClearBegin(c)
  BY <1>1, BeginningMoves, SubmittingFields, IdleFields, WaitingFields, MarkingFields, ZenonT(30) DEF Landing
<1>2. ASSUME NEW where, where \notin Landing
      PROVE  /\ Went(loc[c], where).pc \notin Landing
             /\ \A m : WentMeta(loc[c], where, m).pc \notin Landing
             /\ \A m : WentStat(loc[c], where, m).pc \notin Landing
             /\ \A m : WentCached(loc[c], where, m).pc \notin Landing
             /\ \A m : WentWaiting(loc[c], where, m).pc \notin Landing
             /\ \A f, m : WentRead(loc[c], where, f, m).pc \notin Landing
  <2>1. Went(loc[c], where).pc \notin Landing
    BY <1>0, <1>2, WentFields, Zenon
  <2>2. \A m : WentMeta(loc[c], where, m).pc \notin Landing
    BY <1>0, <1>2, WentMetaFields, Zenon
  <2>3. \A m : WentStat(loc[c], where, m).pc \notin Landing
    BY <1>0, <1>2, WentStatFields, Zenon
  <2>4. \A m : WentCached(loc[c], where, m).pc \notin Landing
    BY <1>0, <1>2, WentCachedFields, Zenon
  <2>5. \A m : WentWaiting(loc[c], where, m).pc \notin Landing
    BY <1>0, <1>2, WentWaitingFields, ZenonT(30)
  <2>6. \A f, m : WentRead(loc[c], where, f, m).pc \notin Landing
    BY <1>0, <1>2, WentReadFields
  <2> QED BY <2>1, <2>2, <2>3, <2>4, <2>5, <2>6, Zenon
<1>3. CASE WaitOwn(c)
  <2>1. AfterWait(loc[c].op) \notin Landing
    BY Zenon DEF AfterWait, Landing
  <2> QED BY <1>2, <1>3, <2>1, CallMoves, Zenon
<1>4. CASE WaitSiblings(c)
  <2>1. AfterSiblings(loc[c].op) \notin Landing
    BY Zenon DEF AfterSiblings, Landing
  <2> QED BY <1>2, <1>4, <2>1, CallMoves, Zenon
<1>5. CASE Cached(c)
  <2>1. AfterCached(loc[c].op, touched[On[c]].meta) \notin Landing
    BY Zenon DEF AfterCached, Landing
  <2> QED BY <1>2, <1>5, <2>1, CallMoves, Zenon
<1>6. {"miss", "answer", "open", "decide", "hit", "temp", "place", "forget", Idle.pc} \cap Landing = {}
  BY IdleFields, Zenon DEF Landing
<1>7. CASE Stat(c) \/ ReadFile(c) \/ Return(c) \/ Forget(c) \/ OnlyKnown(c) \/ Unlink(c)
  BY <1>2, <1>6, <1>7, CallMoves, Zenon
<1>8. CASE GetDecide(c)
  <2>1. Waiting(c, "delete", last).pc \notin Landing
    BY WaitingFields, Zenon DEF Landing
  <2> QED BY <1>2, <1>6, <1>8, <2>1, GetMoves, Zenon
<1>9. CASE MetadataDecide(c)
  BY <1>2, <1>6, <1>9, MetadataMoves, Zenon
<1> QED BY <1>1, <1>3, <1>4, <1>5, <1>7, <1>8, <1>9, Zenon DEF CallStep

LEMMA CallCalm ==
    ASSUME NEW c \in Threads, CallStep(c)
    PROVE  /\ file' = file
           /\ \/ calm' = {}
              \/ entry' = entry /\ calm' \cap Threads \subseteq calm \cup {c}
<1> USE DEF dirVars, histVars
<1>1. CASE SetSubmit(c)
  <2>1. ProcessOf[On[c]] \notin Threads
    BY ConstantsAssumption, Zenon
  <2> QED BY <1>1, <2>1, Zenon DEF SetSubmit
<1>2. CASE SetBegin(c) \/ ReadBegin(c) \/ OnlyBegin(c) \/ DeleteBegin(c) \/ ClearBegin(c)
  BY <1>2, Zenon DEF SetBegin, ReadBegin, OnlyBegin, DeleteBegin, ClearBegin
<1>3. CASE WaitOwn(c) \/ WaitSiblings(c) \/ Cached(c) \/ Stat(c) \/ ReadFile(c)
  BY <1>3, Zenon DEF WaitOwn, WaitSiblings, Cached, Stat, ReadFile
<1>4. CASE GetDecide(c) \/ MetadataDecide(c) \/ Return(c)
  BY <1>4, Zenon DEF GetDecide, MetadataDecide, Return
<1>5. CASE OnlyKnown(c) \/ Unlink(c) \/ Forget(c)
  BY <1>5, Zenon DEF OnlyKnown, Unlink, Forget
<1> QED BY <1>1, <1>2, <1>3, <1>4, <1>5, Zenon DEF CallStep

LEMMA CallLanded ==
    ASSUME Shape, Landed, NEW c \in Threads, CallStep(c)
    PROVE  Landed'
<1>1. CASE calm' = {}
  BY <1>1, Zenon DEF Landed
<1>2. CASE entry' = entry /\ calm' \cap Threads \subseteq calm \cup {c}
  <2>1. PICK r : Puts(c, r) /\ r.pc \notin Landing
    BY CallLands, Zenon
  <2>2. file' = file
    BY CallCalm, Zenon
  <2> QED BY <1>2, <2>1, <2>2, LandedKept, Zenon DEF HasHead, LandedOf
<1> QED BY <1>1, <1>2, CallCalm, Zenon

LEMMA FlushLanded ==
    ASSUME Shape, Bodies, Landed, NEW t \in Threads, FlushStep(t)
    PROVE  Landed'
<1>0. loc[t] \in Locals /\ file \in [Writes -> Files]
  BY LocalsType, Zenon DEF Shape, DirShape
<1>1. CASE FlushWriteBegin(t)
  BY <1>1, Zenon DEF FlushWriteBegin, Landed
<1>2. CASE ~FlushWriteBegin(t)
  <2>1. entry' = entry /\ calm' = calm
    BY <1>2, Zenon DEF FlushStep, FlushBegin, FlushCached, FlushOpen, FlushWriteEnd, dirVars, histVars
  <2>2. HasHead => HasHead'
    <3>1. CASE FlushWriteEnd(t)
      <4>1. PICK k : file' = [file EXCEPT ![loc[t].file] = k] /\ k.head = "whole"
        <5>1. file[loc[t].file] \in Files
          BY <1>0, <3>1, ReadTypes, Zenon DEF FlushWriteEnd, At, Bodies, BodyOf, Numbers
        <5>2. [file[loc[t].file] EXCEPT !.head = "whole", !.meta = loc[t].cached, !.mtime = @ + 1].head = "whole"
          BY <5>1, Zenon DEF Files
        <5> QED BY <3>1, <5>2, Zenon DEF FlushWriteEnd, Fill
      <4> QED BY <1>0, <2>1, <4>1 DEF HasHead
    <3>2. CASE ~FlushWriteEnd(t)
      BY <1>2, <2>1, <3>2, Zenon DEF FlushStep, FlushBegin, FlushCached, FlushOpen, dirVars, HasHead
    <3> QED BY <3>1, <3>2, Zenon
  <2>3. PICK r : Puts(t, r) /\ r.pc \notin Landing
    <3>1. Idle.pc \notin Landing
      BY IdleFields, Zenon DEF Landing
    <3>2. \A where \in {"flush", "flush_end"} : Went(loc[t], where).pc \notin Landing
      BY <1>0, WentFields, Zenon DEF Landing
    <3>3. \A m : WentCached(loc[t], "flush_lock", m).pc \notin Landing
      BY <1>0, WentCachedFields DEF Landing
    <3>4. \A k : WentFile(loc[t], "flush_write", k).pc \notin Landing
      BY <1>0, WentFileFields DEF Landing
    <3> QED BY <1>2, <3>1, <3>2, <3>3, <3>4, FlushMoves, Zenon DEF FlushStep
  <2>4. LandedOf(r)'
    BY <2>3, Zenon DEF LandedOf
  <2> QED BY <2>1, <2>2, <2>3, <2>4, LandedKept, Zenon
<1> QED BY <1>1, <1>2, Zenon

LEMMA WriteLanded ==
    ASSUME EntryInv, Landed, NEW t \in Threads, WriteStep(t)
    PROVE  Landed'
<1>0. /\ loc[t] \in Locals /\ file \in [Writes -> Files] /\ Shape /\ Core /\ Roles
      /\ entry # NoFile => entry \in Writes
  BY LocalsType, Zenon DEF EntryInv, Shape, DirShape, Core, Numbers
<1>1. ASSUME NEW r, Puts(t, r), r.pc \notin Landing, entry' = entry, file' = file,
             calm' = {} \/ calm' \cap Threads \subseteq calm \cup {t}
      PROVE  Landed'
  BY <1>0, <1>1, LandedKept, Zenon DEF HasHead, LandedOf, Landed
<1>2. CASE WriterTake(t)
  <2>1. Taking(IF swept[On[t]] THEN "lock" ELSE "sweep", Head(queue[On[t]])).pc \notin Landing
    BY TakingFields DEF Landing
  <2> QED BY <1>0, <1>1, <1>2, <2>1, WriteMoves, Zenon DEF WriterTake, dirVars
<1>3. ASSUME NEW where \in {"lock", "place", "temp", "remember", "failed"}, Puts(t, Went(loc[t], where)),
             entry' = entry, file' = file, calm' \in {{}, calm}
      PROVE  Landed'
  BY <1>0, <1>1, <1>3, WentFields, ZenonT(30) DEF Landing
<1>4. CASE Sweep(t) \/ Lock(t) \/ Written(t) \/ TempFails(t)
  BY <1>0, <1>3, <1>4, WriteMoves, Zenon DEF Sweep, Lock, Written, TempFails, dirVars, histVars
<1>5. CASE RememberWritten(t) \/ WriteFailed(t)
  BY <1>0, <1>1, <1>5, WriteMoves, IdleFields, Zenon DEF RememberWritten, WriteFailed, dirVars, histVars, Landing
<1>6. CASE PlaceFails(t)
  BY <1>6, Zenon DEF PlaceFails, Landed
<1>7. ASSUME Missing(t), entry' = entry, file' = file
      PROVE  Landed'
  <2>1. Puts(t, WentBack(loc[t])) /\ calm' = calm => Landed'
    BY <1>0, <1>1, <1>7, WentBackFields, Zenon DEF Landing
  <2> QED BY <1>0, <1>3, <1>7, <2>1, MissingMoves, Zenon
<1>8. CASE Place(t)
  <2>1. CASE dir /\ entry = NoFile
    <3>1. \A s \in Threads : s \in calm => loc[s].pc \notin Landing
      BY <2>1, Zenon DEF Landed, LandedOf, HasHead
    <3>2. Puts(t, Went(loc[t], "body")) /\ entry' = loc[t].w /\ calm' = calm
      BY <1>0, <1>8, <2>1, WriteMoves, Zenon DEF Place, histVars
    <3>3. loc[t].w # NoFile
      BY <1>0, <1>8, MakingWrite, SMTT(30) DEF Place, At, Writes, NoFile
    <3>4. loc'[t].pc = "body" /\ loc'[t].w = loc[t].w /\ \A s \in Threads : s # t => loc'[s] = loc[s]
      BY <1>0, <3>2, WentFields DEF Puts
    <3> QED BY <3>1, <3>2, <3>3, <3>4, Zenon DEF Landed, LandedOf
  <2>2. CASE ~(dir /\ entry = NoFile)
    BY <1>0, <1>3, <1>8, <2>2, WriteMoves, Zenon DEF Place, histVars
  <2> QED BY <2>1, <2>2, Zenon
<1>9. CASE TempCreate(t)
  <2>1. CASE dir
    <3>1. Puts(t, Went(loc[t], "fill")) /\ entry' = entry /\ calm' = calm /\ Fill(loc[t].w, Blank)
      BY <1>0, <1>9, <2>1, WriteMoves, Zenon DEF TempCreate
    <3>2. entry # loc[t].w /\ loc[t].w \in Writes
      BY <1>0, <1>9, MakingWrite, Zenon DEF TempCreate, At, Unpublished, Fresh
    <3>3. HasHead => HasHead'
      BY <1>0, <3>1, <3>2, Zenon DEF HasHead, Fill
    <3>4. PICK r : r = Went(loc[t], "fill")
      BY SMTT(30)
    <3>5. LandedOf(r)'
      BY <1>0, <3>4, WentFields DEF LandedOf, Landing
    <3> QED BY <1>0, <3>1, <3>3, <3>4, <3>5, LandedKept, Zenon
  <2>2. CASE ~dir
    BY <1>7, <1>9, <2>2, Zenon DEF TempCreate
  <2> QED BY <2>1, <2>2, Zenon
<1>10. CASE TempFill(t)
  <2>1. Puts(t, Went(loc[t], "rename")) /\ entry' = entry /\ calm' = calm
    BY <1>0, <1>10, WriteMoves, Zenon DEF TempFill, histVars
  <2>2. HasHead => HasHead'
    BY <1>0, <1>10, Zenon DEF TempFill, HasHead, Fill
  <2>3. PICK r : r = Went(loc[t], "rename")
    OBVIOUS
  <2>4. LandedOf(r)'
    BY <1>0, <2>3, WentFields DEF LandedOf, Landing
  <2> QED BY <1>0, <2>1, <2>2, <2>3, <2>4, LandedKept, Zenon
<1>11. CASE Rename(t)
  <2>1. CASE loc[t].w \in temps
    <3>1. entry' = loc[t].w /\ calm' = calm /\ file' = file /\ loc[t].pc = "rename"
      BY <1>11, <2>1, Zenon DEF Rename, At
    <3>2. HasHead'
      <4>1. loc[t].w \in Writes /\ file[loc[t].w].head = "whole"
        BY <1>0, <3>1, MakingWrite, Zenon DEF Core, Bodies, BodyOf
      <4> QED BY <3>1, <4>1 DEF HasHead, Writes, NoFile
    <3> QED BY <3>2, Zenon DEF Landed, LandedOf
  <2>2. CASE loc[t].w \notin temps
    BY <1>7, <1>11, <2>2, Zenon DEF Rename
  <2> QED BY <2>1, <2>2, Zenon
<1>12. CASE PlaceBody(t) \/ PlaceHeadBegin(t) \/ PlaceHeadEnd(t) \/ PlaceClose(t)
  <2>1. /\ entry' = entry /\ calm' = calm /\ loc[t].w \in Writes
        /\ loc[t].pc \in {"body", "head", "head_end", "close"}
    <3>1. entry' = entry /\ calm' = calm /\ loc[t].pc \in {"body", "head", "head_end", "close"}
      BY <1>12, Zenon DEF PlaceBody, PlaceHeadBegin, PlaceHeadEnd, PlaceClose, At, dirVars, histVars
    <3> QED BY <1>0, <3>1, HasWrite, Zenon DEF Roles, Making
  <2>2. \A v \in Writes : file[v].head # "none" => file'[v].head # "none"
    <3>1. file[loc[t].w] \in Files
      BY <1>0, <2>1, Zenon
    <3>2. CASE PlaceBody(t)
      <4>1. [file[loc[t].w] EXCEPT !.body = TRUE].head = file[loc[t].w].head
        BY <3>1, Zenon DEF Files
      <4> QED BY <1>0, <3>2, <4>1, Zenon DEF PlaceBody, Fill
    <3>3. CASE PlaceHeadBegin(t)
      <4>1. [file[loc[t].w] EXCEPT !.head = "torn"].head = "torn"
        BY <3>1, Zenon DEF Files
      <4> QED BY <1>0, <3>3, <4>1, Zenon DEF PlaceHeadBegin, Fill
    <3>4. CASE PlaceHeadEnd(t)
      <4>1. [file[loc[t].w] EXCEPT !.head = "whole", !.meta = loc[t].w].head = "whole"
        BY <3>1, Zenon DEF Files
      <4> QED BY <1>0, <3>4, <4>1, Zenon DEF PlaceHeadEnd, Fill
    <3>5. CASE PlaceClose(t)
      BY <3>5, Zenon DEF PlaceClose, dirVars
    <3> QED BY <1>12, <3>2, <3>3, <3>4, <3>5, Zenon
  <2>3. HasHead => HasHead'
    BY <1>0, <2>1, <2>2, Zenon DEF HasHead
  <2>4. PICK r : Puts(t, r) /\ r.w = loc[t].w /\ (r.pc = "written" => PlaceClose(t))
    <3>1. \A where : LET r == Went(loc[t], where) IN r.w = loc[t].w /\ r.pc = where
      BY <1>0, WentFields, Zenon
    <3> QED BY <1>0, <1>12, <3>1, WriteMoves, ZenonT(30)
  <2>5. t \in calm => LandedOf(r)'
    <3>1. CASE HasHead
      BY <2>3, <3>1, Zenon DEF LandedOf
    <3>2. CASE t \in calm /\ entry # NoFile /\ entry = loc[t].w
      <4>1. PlaceClose(t) => HasHead
        BY <1>0, <3>2, Zenon DEF PlaceClose, At, Core, Bodies, BodyOf, HasHead
      <4> QED BY <2>1, <2>3, <2>4, <3>2, <4>1, Zenon DEF LandedOf
    <3>3. t \in calm => HasHead \/ (entry # NoFile /\ entry = loc[t].w)
      BY <2>1, Zenon DEF Landed, LandedOf, Landing
    <3> QED BY <3>1, <3>2, <3>3, Zenon
  <2>6. \A s \in Threads : s # t /\ s \in calm => LandedOf(loc[s])'
    BY <2>1, <2>3, <2>4, Zenon DEF Landed, LandedOf, Puts, HasHead
  <2>7. t \in calm => LandedOf(loc[t])'
    BY <2>4, <2>5, Zenon DEF Puts, LandedOf
  <2> QED BY <2>1, <2>6, <2>7, Zenon DEF Landed
<1> QED BY <1>2, <1>4, <1>5, <1>6, <1>8, <1>9, <1>10, <1>11, <1>12, Zenon DEF WriteStep

\* A write that succeeded left the key readable, unless something was
\* removed, failed, killed or stamped meanwhile.
THEOREM WritesLand == Spec => []LandedReadable
<1>1. Init => Landed
  BY Zenon DEF Init, Landed
<1>2. EntryInv /\ Landed /\ [Next]_vars => Landed'
  <2> SUFFICES ASSUME EntryInv, Landed, [Next]_vars
               PROVE  Landed'
    OBVIOUS
  <2>1. ASSUME NEW p \in Processes, Crash(p)
        PROVE  Landed'
    BY <2>1, Zenon DEF Crash, Landed
  <2>2. CASE Wipe
    BY <2>2, Zenon DEF Wipe, Landed
  <2>3. CASE UNCHANGED vars
    BY <2>3, Zenon DEF vars, dirVars, histVars, Landed, LandedOf, HasHead
  <2>4. ASSUME NEW c \in Callers, CallStep(c)
        PROVE  Landed'
    BY <2>4, CallLanded, Zenon DEF EntryInv, Threads
  <2>5. ASSUME NEW t \in Threads, WriteStep(t) \/ FlushStep(t)
        PROVE  Landed'
    BY <2>5, WriteLanded, FlushLanded, Zenon DEF EntryInv
  <2> QED BY <2>1, <2>2, <2>3, <2>4, <2>5, Zenon DEF Next
<1>3. EntryInv /\ Landed => LandedReadable
  BY Zenon DEF Landed, LandedOf, LandedReadable, HasHead, At, Landing
<1> QED BY <1>1, <1>2, <1>3, EntryAlways, PTL DEF Spec
=============================================================================
