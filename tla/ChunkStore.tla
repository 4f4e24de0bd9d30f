------------------------------ MODULE ChunkStore ------------------------------
(***************************************************************************)
(* The chunk files of a cache directory and the processes that share them  *)
(* (backends/chunk_store.py): large buffers are stored once, in packs that *)
(* several entries may hold, a pack goes when no entry holds it, and a     *)
(* pack that is mostly dead is rewritten and its holders are repointed.    *)
(*                                                                         *)
(* A pack is named by its members, so it is the set of its chunks.  at is  *)
(* an entry's chunk_places: the pack each of its chunks is in.  An entry   *)
(* is written in one step here: EntryFile.tla has the steps of that.       *)
(* Times are readings of one clock that every write or touch of a file     *)
(* moves on; a time of 0 is a file that is not there.                      *)
(***************************************************************************)
EXTENDS Integers, FiniteSets

CONSTANTS
    Stores,         \* ChunkStore objects, one for each backend over the directory
    Threads,        \* their threads
    StoreOf,        \* StoreOf[t]: the store thread t works on
    OperationsOf,   \* OperationsOf[t]: the operations t performs
    Stems,          \* entries
    Chunks,         \* buffers, by digest
    WriteMayFail,   \* may the write of a pack or an entry fail?
    MaxSets,        \* bound: entries written in a behaviour
    MaxCrashes,     \* bound: stores whose process is killed
    MaxHours        \* bound: times ORPHAN_CHUNK_AGE passes

ASSUME ConstantsAssumption ==
    /\ StoreOf \in [Threads -> Stores]
    /\ OperationsOf \in [Threads -> SUBSET {"set", "remove", "clear"}]
    /\ WriteMayFail \in BOOLEAN
    /\ MaxSets \in Nat \ {0}
    /\ {MaxCrashes, MaxHours} \subseteq Nat

Packs == (SUBSET Chunks) \ {{}}
None == {}                          \* no pack
Nowhere == [d \in Chunks |-> None]
NoEntry == [id |-> 0, at |-> Nowhere]
Free == "free"                      \* no thread holds the lock

Held(at) == {at[d] : d \in Chunks} \ {None}

\* The locals of a thread between two operations.
Idle == [pc |-> "idle", then |-> "idle", after |-> "idle", stem |-> CHOOSE s \in Stems : TRUE,
         id |-> 0, want |-> {}, at |-> Nowhere, fresh |-> {}, held |-> {}, name |-> None, chunk |-> {},
         replaced |-> {}, gone |-> {}, mine |-> 0, todo |-> {},
         started |-> 0, unread |-> {}, found |-> [s \in Stems |-> Nowhere],
         pack |-> None, live |-> {}, holders |-> {}, moved |-> FALSE, existed |-> FALSE,
         made |-> NoEntry, aside |-> NoEntry]

VARIABLES
    entry,      \* the entry in the directory under each stem
    mtime,      \* time of each pack file
    claim,      \* time of each pack's claim file
    clock, hour,    \* the time, and what is ORPHAN_CHUNK_AGE old
    indexed, indexedAt,     \* ChunkStore.indexed, _indexed_at
    heldBy,     \* _held_by (and its inverse, _holders): the packs of each stem
    placedBy,   \* _placed_by: where the chunks of each stem are
    places,     \* _places: the pack this store finds a chunk in
    pending,    \* _pending: writes in flight that will hold a pack
    own,        \* _own_mtime
    lock,       \* the thread holding the entry_lock of a stem
    loc,        \* the locals of every thread
    sets, crashes, hours, strayed,  \* strayed: a kill or a failed rewrite may have left a pack
    newest      \* history: the last write of each stem, 0 once it was removed

diskVars == <<entry, mtime, claim, clock, hour>>
indexVars == <<indexed, indexedAt>>
knownVars == <<heldBy, placedBy>>
boundVars == <<sets, crashes, hours, strayed>>
vars == <<diskVars, indexVars, knownVars, places, pending, own, lock, loc, boundVars, newest>>

Init ==
    /\ entry = [s \in Stems |-> NoEntry]
    /\ mtime = [p \in Packs |-> 0]
    /\ claim = [p \in Packs |-> 0]
    /\ clock = 0
    /\ hour = 0
    /\ indexed = [r \in Stores |-> FALSE]
    /\ indexedAt = [r \in Stores |-> 0]
    /\ heldBy = [r \in Stores |-> [s \in Stems |-> {}]]
    /\ placedBy = [r \in Stores |-> [s \in Stems |-> Nowhere]]
    /\ places = [r \in Stores |-> Nowhere]
    /\ pending = [r \in Stores |-> [p \in Packs |-> 0]]
    /\ own = [r \in Stores |-> [p \in Packs |-> 0]]
    /\ lock = [r \in Stores |-> [s \in Stems |-> Free]]
    /\ loc = [t \in Threads |-> Idle]
    /\ sets = 0
    /\ crashes = 0
    /\ hours = 0
    /\ strayed = FALSE
    /\ newest = [s \in Stems |-> 0]

-----------------------------------------------------------------------------
(* Moves of a thread, and what the store's fields say.                     *)

At(t, where) == loc[t].pc = where
Goto(t, where) == loc' = [loc EXCEPT ![t].pc = where]

Holders(r, p) == {s \in Stems : p \in heldBy[r][s]}

\* Mutant: the entries holding a pack are not asked.
OnlyPending(r, p) == pending[r][p] > 0

InUse(r, p) == Holders(r, p) # {} \/ pending[r][p] > 0
Knows(r, s) == heldBy[r][s] # {}

Hold(r, p) == pending' = [pending EXCEPT ![r][p] = @ + 1]
Unpend(r, ps) == pending' = [pending EXCEPT ![r] = [p \in Packs |-> IF p \in ps THEN @[p] - 1 ELSE @[p]]]
Forget(r, p) == places' = [places EXCEPT ![r] = [d \in Chunks |-> IF @[d] = p THEN None ELSE @[d]]]
Learn(r, p) == places' = [places EXCEPT ![r] = [d \in Chunks |-> IF d \in p THEN p ELSE @[d]]]

\* The stem's chunks are at these places (_set_holder, _set_placed).
SetHolder(r, s, at) ==
    /\ heldBy' = [heldBy EXCEPT ![r][s] = Held(at)]
    /\ placedBy' = [placedBy EXCEPT ![r][s] = at]

\* A file is written or touched.
Stamp(p) ==
    /\ clock' = clock + 1
    /\ mtime' = [mtime EXCEPT ![p] = clock + 1]

\* _note_own: the time the file has now, whoever touched it last.
NoteOwn(r, p) == own' = [own EXCEPT ![r][p] = IF mtime[p] # 0 THEN mtime[p] ELSE @]

-----------------------------------------------------------------------------
(* ensure_index: which entry holds which chunk, learned once.              *)

IndexStart(t) ==
    LET listed == {s \in Stems : entry[s] # NoEntry} IN
    /\ At(t, "index")
    /\ IF indexed[StoreOf[t]]
         THEN Goto(t, loc[t].then)
         ELSE loc' = [loc EXCEPT ![t].pc = IF listed = {} THEN "install" ELSE "index_read",
                                 ![t].started = clock, ![t].unread = listed]
    /\ UNCHANGED <<diskVars, indexVars, knownVars, places, pending, own, lock, boundVars, newest>>

IndexRead(t) ==
    /\ At(t, "index_read")
    /\ \E s \in loc[t].unread :
         loc' = [loc EXCEPT ![t].unread = @ \ {s}, ![t].found[s] = entry[s].at,
                            ![t].pc = IF loc[t].unread = {s} THEN "install" ELSE @]
    /\ UNCHANGED <<diskVars, indexVars, knownVars, places, pending, own, lock, boundVars, newest>>

IndexInstall(t) ==
    LET r == StoreOf[t]
        found == loc[t].found
        options(d) == {found[s][d] : s \in Stems} \ {None}
    IN
    /\ At(t, "install")
    /\ IF indexed[r]
         THEN /\ loc' = [loc EXCEPT ![t].pc = loc[t].then, ![t].found = Idle.found, ![t].started = 0]
              /\ UNCHANGED <<indexVars, knownVars, places>>
         ELSE /\ \E f \in [Chunks -> Packs \cup {None}] :
                   /\ \A d \in Chunks : f[d] \in IF options(d) = {} THEN {places[r][d]} ELSE options(d)
                   /\ places' = [places EXCEPT ![r] = f]
              /\ heldBy' = [heldBy EXCEPT ![r] = [s \in Stems |-> IF Knows(r, s) THEN @[s] ELSE Held(found[s])]]
              /\ placedBy' = [placedBy EXCEPT ![r] = [s \in Stems |-> IF Knows(r, s) THEN @[s] ELSE found[s]]]
              /\ indexed' = [indexed EXCEPT ![r] = TRUE]
              /\ indexedAt' = [indexedAt EXCEPT ![r] = loc[t].started]
              /\ loc' = [loc EXCEPT ![t].pc = "sweep", ![t].found = Idle.found, ![t].started = 0]
    /\ UNCHANGED <<diskVars, pending, own, lock, boundVars, newest>>

\* _sweep_orphans: the files no entry and no write here holds, ...
SweepCheck(t) ==
    /\ At(t, "sweep")
    /\ loc' = [loc EXCEPT ![t].pc = "sweep_remove",
                          ![t].holders = {p \in Packs : ~InUse(StoreOf[t], p)}]
    /\ UNCHANGED <<diskVars, indexVars, knownVars, places, pending, own, lock, boundVars, newest>>

\* ... when they are older than ORPHAN_CHUNK_AGE; old claims too.
SweepRemove(t) ==
    /\ At(t, "sweep_remove")
    /\ mtime' = [p \in Packs |-> IF p \in loc[t].holders /\ mtime[p] <= hour THEN 0 ELSE mtime[p]]
    /\ claim' = [p \in Packs |-> IF claim[p] <= hour THEN 0 ELSE claim[p]]
    /\ loc' = [loc EXCEPT ![t].pc = loc[t].then, ![t].holders = {}]
    /\ UNCHANGED <<entry, clock, hour, indexVars, knownVars, places, pending, own, lock, boundVars, newest>>

-----------------------------------------------------------------------------
(* put_all: hold what is stored, write the rest as one pack.               *)

SetBegin(t) ==
    /\ At(t, "idle")
    /\ "set" \in OperationsOf[t]
    /\ sets < MaxSets
    /\ sets' = sets + 1
    /\ \E s \in Stems, want \in Packs :
         loc' = [loc EXCEPT ![t] = [Idle EXCEPT !.pc = "index", !.then = "hold", !.stem = s,
                                       !.want = want, !.id = sets + 1]]
    /\ UNCHANGED <<diskVars, indexVars, knownVars, places, pending, own, lock, crashes, hours, strayed, newest>>

\* The next buffer: in a pack held already, in one to hold, or to be written.
HoldNext(t) ==
    LET r == StoreOf[t]
        left == {d \in loc[t].want \ loc[t].fresh : loc[t].at[d] = None}
        d == CHOOSE d \in left : TRUE
        p == places[r][d]
    IN
    /\ At(t, "hold")
    /\ \/ /\ left = {}
          /\ Goto(t, IF loc[t].fresh = {} THEN "lock" ELSE "pack")
          /\ UNCHANGED pending
       \/ /\ left # {} /\ p = None
          /\ loc' = [loc EXCEPT ![t].fresh = @ \cup {d}]
          /\ UNCHANGED pending
       \/ /\ left # {} /\ p \in loc[t].held
          /\ loc' = [loc EXCEPT ![t].at[d] = p]
          /\ UNCHANGED pending
       \/ /\ left # {} /\ p \notin loc[t].held \cup {None}
          /\ Hold(r, p)
          /\ loc' = [loc EXCEPT ![t].pc = "touch", ![t].name = p, ![t].chunk = {d}]
    /\ UNCHANGED <<diskVars, indexVars, knownVars, places, own, lock, boundVars, newest>>

\* _hold_stored: os.utime and os.stat; a pack that is gone is forgotten.
Touch(t) ==
    LET r == StoreOf[t]
        p == loc[t].name
    IN
    /\ At(t, "touch")
    /\ IF mtime[p] # 0
         THEN /\ Stamp(p)
              /\ Goto(t, "note")
              /\ UNCHANGED <<pending, places>>
         ELSE /\ Unpend(r, {p})
              /\ Forget(r, p)
              /\ loc' = [loc EXCEPT ![t].pc = "hold", ![t].fresh = @ \cup loc[t].chunk]
              /\ UNCHANGED <<mtime, clock>>
    /\ UNCHANGED <<entry, claim, hour, indexVars, knownVars, own, lock, boundVars, newest>>

TouchNote(t) ==
    LET p == loc[t].name IN
    /\ At(t, "note")
    /\ NoteOwn(StoreOf[t], p)
    /\ loc' = [loc EXCEPT ![t].pc = "hold", ![t].held = @ \cup {p},
                          ![t].at = [d \in Chunks |-> IF d \in loc[t].chunk THEN p ELSE @[d]]]
    /\ UNCHANGED <<diskVars, indexVars, knownVars, places, pending, lock, boundVars, newest>>

\* _write_pack, for put_all ("pack") and for a rewrite ("repack").
PackBegin(t) ==
    LET p == IF At(t, "pack") THEN loc[t].fresh ELSE loc[t].live IN
    /\ At(t, "pack") \/ At(t, "repack")
    /\ Hold(StoreOf[t], p)
    /\ loc' = [loc EXCEPT ![t].pc = IF @ = "pack" THEN "pack_write" ELSE "repack_write", ![t].name = p]
    /\ UNCHANGED <<diskVars, indexVars, knownVars, places, own, lock, boundVars, newest>>

PackWrite(t) ==
    /\ At(t, "pack_write") \/ At(t, "repack_write")
    /\ Stamp(loc[t].name)
    /\ Goto(t, IF At(t, "pack_write") THEN "pack_learn" ELSE "repack_learn")
    /\ UNCHANGED <<entry, claim, hour, indexVars, knownVars, places, pending, own, lock, boundVars, newest>>

\* Mutant: the pack stays counted.
PackFailsPending(t) ==
    /\ WriteMayFail
    /\ At(t, "pack_write") \/ At(t, "repack_write")
    /\ Goto(t, IF At(t, "pack_write") THEN "abandon" ELSE "unclaim")
    /\ UNCHANGED <<diskVars, indexVars, knownVars, places, pending, own, lock, boundVars, newest>>

\* The write fails: put_all abandons what it held, a rewrite gives up.
PackFails(t) ==
    /\ WriteMayFail
    /\ At(t, "pack_write") \/ At(t, "repack_write")
    /\ Unpend(StoreOf[t], {loc[t].name})
    /\ Goto(t, IF At(t, "pack_write") THEN "abandon" ELSE "unclaim")
    /\ UNCHANGED <<diskVars, indexVars, knownVars, places, own, lock, boundVars, newest>>

PackLearn(t) ==
    LET p == loc[t].name IN
    /\ At(t, "pack_learn") \/ At(t, "repack_learn")
    /\ NoteOwn(StoreOf[t], p)
    /\ Learn(StoreOf[t], p)
    /\ loc' = [loc EXCEPT ![t] =
                 IF @.pc = "pack_learn"
                   THEN [@ EXCEPT !.pc = "lock", !.held = @ \cup {p},
                                  !.at = [d \in Chunks |-> IF d \in p THEN p ELSE @[d]]]
                   ELSE [@ EXCEPT !.pc = "repoint"]]
    /\ UNCHANGED <<diskVars, indexVars, knownVars, pending, lock, boundVars, newest>>

-----------------------------------------------------------------------------
(* _write_entry, under the entry's lock, and the chunks' commit.           *)

Locked(t, s) == lock' = [lock EXCEPT ![StoreOf[t]][s] = t]
Unlocked(t) ==
    lock' = [lock EXCEPT ![StoreOf[t]] = [s \in Stems |-> IF @[s] = t THEN Free ELSE @[s]]]

\* replaced: the packs of the entry that is there, unless the store knows them.
ChunksHeld(r, s) == IF Knows(r, s) THEN {} ELSE Held(entry[s].at)

EntryLock(t) ==
    LET r == StoreOf[t]
        s == loc[t].stem
    IN
    /\ At(t, "lock")
    /\ lock[r][s] = Free
    /\ Locked(t, s)
    /\ loc' = [loc EXCEPT ![t].pc = "entry", ![t].replaced = ChunksHeld(r, s)]
    /\ UNCHANGED <<diskVars, indexVars, knownVars, places, pending, own, boundVars, newest>>

EntryWrite(t) ==
    LET s == loc[t].stem IN
    /\ At(t, "entry")
    /\ entry' = [entry EXCEPT ![s] = [id |-> loc[t].id, at |-> loc[t].at]]
    /\ newest' = [newest EXCEPT ![s] = loc[t].id]
    /\ Goto(t, "commit")
    /\ UNCHANGED <<mtime, claim, clock, hour, indexVars, knownVars, places, pending, own, lock, boundVars>>

EntryFails(t) ==
    /\ WriteMayFail
    /\ At(t, "entry")
    /\ Goto(t, "abandon")
    /\ UNCHANGED <<diskVars, indexVars, knownVars, places, pending, own, lock, boundVars, newest>>

\* Mutant: what was held stays on disk.
AbandonKeeps(t) ==
    /\ At(t, "abandon")
    /\ Unpend(StoreOf[t], loc[t].held)
    /\ loc' = [loc EXCEPT ![t].pc = "done", ![t].held = {}]
    /\ UNCHANGED <<diskVars, indexVars, knownVars, places, own, lock, boundVars, newest>>

Abandon(t) ==
    /\ At(t, "abandon")
    /\ Unpend(StoreOf[t], loc[t].held)
    /\ loc' = [loc EXCEPT ![t].pc = "drop", ![t].after = "done", ![t].gone = loc[t].held, ![t].held = {}]
    /\ UNCHANGED <<diskVars, indexVars, knownVars, places, own, lock, boundVars, newest>>

\* The packs the stem held: as the store knows them, else as read from the entry.
Before(t) ==
    LET r == StoreOf[t]
        s == loc[t].stem
    IN IF Knows(r, s) THEN heldBy[r][s] ELSE loc[t].replaced

Commit(t) ==
    LET gone == Before(t) \ loc[t].held IN
    /\ At(t, "commit")
    /\ Unpend(StoreOf[t], loc[t].held)
    /\ SetHolder(StoreOf[t], loc[t].stem, loc[t].at)
    /\ loc' = [loc EXCEPT ![t].pc = "drop", ![t].after = "compact", ![t].gone = gone,
                          ![t].todo = gone \cup loc[t].held, ![t].held = {}]
    /\ UNCHANGED <<diskVars, indexVars, places, own, lock, boundVars, newest>>

-----------------------------------------------------------------------------
(* FileEvictor.remove_path: the entry under its lock, then its chunks.     *)

RemoveBegin(t) ==
    /\ At(t, "idle")
    /\ "remove" \in OperationsOf[t]
    /\ \E s \in Stems :
         /\ entry[s] # NoEntry
         /\ loc' = [loc EXCEPT ![t] = [Idle EXCEPT !.pc = "unlink", !.stem = s,
                                          !.replaced = ChunksHeld(StoreOf[t], s)]]
    /\ UNCHANGED <<diskVars, indexVars, knownVars, places, pending, own, lock, boundVars, newest>>

Unlink(t) ==
    LET s == loc[t].stem IN
    /\ At(t, "unlink")
    /\ lock[StoreOf[t]][s] = Free
    /\ entry' = [entry EXCEPT ![s] = NoEntry]
    /\ newest' = [newest EXCEPT ![s] = 0]
    /\ Goto(t, "release")
    /\ UNCHANGED <<mtime, claim, clock, hour, indexVars, knownVars, places, pending, own, lock, boundVars>>

Release(t) ==
    /\ At(t, "release")
    /\ SetHolder(StoreOf[t], loc[t].stem, Nowhere)
    /\ loc' = [loc EXCEPT ![t].pc = "drop", ![t].after = "compact",
                          ![t].gone = Before(t), ![t].todo = Before(t)]
    /\ UNCHANGED <<diskVars, indexVars, places, pending, own, lock, boundVars, newest>>

-----------------------------------------------------------------------------
(* _drop: each name no entry and no write holds.                           *)

DropNext(t) ==
    LET r == StoreOf[t] IN
    /\ At(t, "drop")
    /\ \/ /\ loc[t].gone = {}
          /\ Goto(t, loc[t].after)
       \/ /\ loc[t].gone # {} /\ ~indexed[r]
          /\ loc' = [loc EXCEPT ![t].pc = "index", ![t].then = "drop"]
       \/ \E p \in loc[t].gone :
            /\ indexed[r] /\ InUse(r, p)
            /\ loc' = [loc EXCEPT ![t].gone = @ \ {p}]
       \/ \E p \in loc[t].gone :
            /\ indexed[r] /\ ~InUse(r, p)
            /\ loc' = [loc EXCEPT ![t].pc = "drop_stat", ![t].name = p, ![t].mine = own[r][p]]
    /\ UNCHANGED <<diskVars, indexVars, knownVars, places, pending, own, lock, boundVars, newest>>

\* Written or touched since this store read the folder, and not by this
\* store: another process's entry may hold it.
DropStat(t) ==
    LET p == loc[t].name
        theirs == mtime[p] > indexedAt[StoreOf[t]] /\ mtime[p] # loc[t].mine
    IN
    /\ At(t, "drop_stat")
    /\ loc' = [loc EXCEPT ![t] = IF mtime[p] = 0 \/ theirs
                                   THEN [@ EXCEPT !.pc = "drop", !.gone = @ \ {p}]
                                   ELSE [@ EXCEPT !.pc = "drop_remove"]]
    /\ UNCHANGED <<diskVars, indexVars, knownVars, places, pending, own, lock, boundVars, newest>>

DropRemove(t) ==
    LET p == loc[t].name IN
    /\ At(t, "drop_remove")
    /\ mtime' = [mtime EXCEPT ![p] = 0]
    /\ loc' = [loc EXCEPT ![t] = IF mtime[p] = 0
                                   THEN [@ EXCEPT !.pc = "drop", !.gone = @ \ {p}]
                                   ELSE [@ EXCEPT !.pc = "drop_forget"]]
    /\ UNCHANGED <<entry, claim, clock, hour, indexVars, knownVars, places, pending, own, lock, boundVars, newest>>

DropForget(t) ==
    LET p == loc[t].name IN
    /\ At(t, "drop_forget")
    /\ own' = [own EXCEPT ![StoreOf[t]][p] = 0]
    /\ Forget(StoreOf[t], p)
    /\ loc' = [loc EXCEPT ![t].pc = "drop", ![t].gone = @ \ {p}]
    /\ UNCHANGED <<diskVars, indexVars, knownVars, pending, lock, boundVars, newest>>

-----------------------------------------------------------------------------
(* _compact: a pack of which more than a third is dead is rewritten.       *)

Live(r, p) == UNION {{d \in Chunks : placedBy[r][s][d] = p} : s \in Holders(r, p)}

\* Every chunk is taken to be the same size.
WorthIt(r, p) ==
    /\ Holders(r, p) # {}
    /\ pending[r][p] = 0
    /\ \A s \in Holders(r, p) : placedBy[r][s] # Nowhere
    /\ Live(r, p) # {}
    /\ 3 * Cardinality(Live(r, p)) < 2 * Cardinality(p)

CompactNext(t) ==
    LET r == StoreOf[t] IN
    /\ At(t, "compact")
    /\ \/ /\ loc[t].todo = {}
          /\ Goto(t, "done")
       \/ \E p \in loc[t].todo :
            /\ ~WorthIt(r, p)
            /\ loc' = [loc EXCEPT ![t].todo = @ \ {p}]
       \/ \E p \in loc[t].todo :
            /\ WorthIt(r, p)
            /\ loc' = [loc EXCEPT ![t].pc = "claim", ![t].pack = p, ![t].todo = @ \ {p},
                                  ![t].live = Live(r, p), ![t].holders = Holders(r, p)]
    /\ UNCHANGED <<diskVars, indexVars, knownVars, places, pending, own, lock, boundVars, newest>>

\* Mutant: a claim that is there is taken over.
ClaimAnyway(t) ==
    LET p == loc[t].pack IN
    /\ At(t, "claim")
    /\ clock' = clock + 1
    /\ claim' = [claim EXCEPT ![p] = clock + 1]
    /\ Goto(t, "plan")
    /\ UNCHANGED <<entry, mtime, hour, indexVars, knownVars, places, pending, own, lock, boundVars, newest>>

\* _claim: created exclusively; a claim left by a crash is removed once old.
Claim(t) ==
    LET p == loc[t].pack IN
    /\ At(t, "claim")
    /\ IF claim[p] = 0
         THEN /\ clock' = clock + 1
              /\ claim' = [claim EXCEPT ![p] = clock + 1]
              /\ Goto(t, "plan")
         ELSE /\ claim' = [claim EXCEPT ![p] = IF @ <= hour THEN 0 ELSE @]
              /\ loc' = [loc EXCEPT ![t].pc = "compact", ![t].pack = None]
              /\ UNCHANGED clock
    /\ UNCHANGED <<entry, mtime, hour, indexVars, knownVars, places, pending, own, lock, boundVars, newest>>

\* moved_head: the entry names the old pack, and only live chunks in it.
Movable(s, old, live) ==
    /\ old \in Held(entry[s].at)
    /\ {d \in Chunks : entry[s].at[d] = old} \subseteq live
Moved(at, old, new) == [d \in Chunks |-> IF at[d] = old THEN new ELSE at[d]]

\* Every holder can be told, and the old pack can be read.
Plan(t) ==
    LET p == loc[t].pack
        live == loc[t].live
    IN
    /\ At(t, "plan")
    /\ loc' = [loc EXCEPT ![t].pc = IF mtime[p] # 0 /\ \A s \in loc[t].holders : Movable(s, p, live)
                                       THEN "repack" ELSE "unclaim",
                          ![t].existed = mtime[live] # 0]
    /\ UNCHANGED <<diskVars, indexVars, knownVars, places, pending, own, lock, boundVars, newest>>

\* _repoint: skipped when another thread holds the entry's lock, or the
\* entry no longer is what the plan says.
Repoint(t) ==
    LET r == StoreOf[t]
        s == CHOOSE s \in loc[t].holders : TRUE
        may == lock[r][s] \in {Free, t} /\ Movable(s, loc[t].pack, loc[t].live)
    IN
    /\ At(t, "repoint")
    /\ loc[t].holders # {}
    /\ IF may
         THEN /\ loc' = [loc EXCEPT ![t].pc = "swap",
                                    ![t].made = [entry[s] EXCEPT !.at = Moved(@, loc[t].pack, loc[t].live)]]
              /\ Locked(t, s)
         ELSE loc' = [loc EXCEPT ![t].holders = @ \ {s}] /\ UNCHANGED lock
    /\ UNCHANGED <<diskVars, indexVars, knownVars, places, pending, own, boundVars, newest>>

\* The lock of a stem repointed goes back, unless the write of that stem has it.
LetGo(t, s) ==
    lock' = [lock EXCEPT ![StoreOf[t]][s] = IF loc[t].want # {} /\ loc[t].stem = s THEN t ELSE Free]

Repointed(t, s, moved) ==
    /\ LetGo(t, s)
    /\ loc' = [loc EXCEPT ![t].pc = "repoint", ![t].holders = @ \ {s}, ![t].aside = NoEntry,
                          ![t].made = NoEntry, ![t].moved = @ \/ moved]

\* The entry cannot be copied, because it is gone or the write fails: the
\* error ends the rewrite, and whatever it has written stays.
RepointFails(t) ==
    LET s == CHOOSE s \in loc[t].holders : TRUE IN
    /\ At(t, "swap")
    /\ WriteMayFail \/ entry[s] = NoEntry
    /\ LetGo(t, s)
    /\ Unpend(StoreOf[t], {loc[t].live})
    /\ strayed' = TRUE
    /\ loc' = [loc EXCEPT ![t].pc = "unclaim", ![t].made = NoEntry, ![t].moved = FALSE]
    /\ UNCHANGED <<diskVars, indexVars, knownVars, places, own, sets, crashes, hours, newest>>

\* _swap_if_same: the entry is renamed aside, ...
SwapTake(t) ==
    LET s == CHOOSE s \in loc[t].holders : TRUE IN
    /\ At(t, "swap")
    /\ IF entry[s] = NoEntry
         THEN Repointed(t, s, FALSE) /\ UNCHANGED entry
         ELSE /\ entry' = [entry EXCEPT ![s] = NoEntry]
              /\ loc' = [loc EXCEPT ![t].pc = "link", ![t].aside = entry[s]]
              /\ UNCHANGED lock
    /\ UNCHANGED <<mtime, claim, clock, hour, indexVars, knownVars, places, pending, own, boundVars, newest>>

\* Mutant: the rewritten entry is renamed over whatever is there.
SwapOver(t) ==
    LET s == CHOOSE s \in loc[t].holders : TRUE IN
    /\ At(t, "link")
    /\ entry' = [entry EXCEPT ![s] = loc[t].made]
    /\ Repointed(t, s, TRUE)
    /\ UNCHANGED <<mtime, claim, clock, hour, indexVars, knownVars, places, pending, own, boundVars, newest>>

\* ... and the new one, or what was taken by mistake, is linked in where
\* nothing is.
SwapLink(t) ==
    LET r == StoreOf[t]
        s == CHOOSE s \in loc[t].holders : TRUE
        same == loc[t].aside.id = loc[t].made.id
        absent == entry[s] = NoEntry
        old == loc[t].pack
    IN
    /\ At(t, "link")
    /\ entry' = IF absent THEN [entry EXCEPT ![s] = IF same THEN loc[t].made ELSE loc[t].aside] ELSE entry
    /\ IF absent /\ same
         THEN /\ heldBy' = [heldBy EXCEPT ![r][s] = (@ \ {old}) \cup {loc[t].live}]
              /\ placedBy' = [placedBy EXCEPT ![r][s] = Moved(@, old, loc[t].live)]
         ELSE UNCHANGED knownVars
    /\ Repointed(t, s, absent /\ same)
    /\ UNCHANGED <<mtime, claim, clock, hour, indexVars, places, pending, own, boundVars, newest>>

\* Every holder was told: the old pack goes, or the new one if none moved.
RewriteEnd(t) ==
    /\ At(t, "repoint")
    /\ loc[t].holders = {}
    /\ Unpend(StoreOf[t], {loc[t].live})
    /\ loc' = [loc EXCEPT ![t].pc = "drop", ![t].after = "unclaim", ![t].moved = FALSE,
                          ![t].gone = IF loc[t].moved THEN {loc[t].pack}
                                      ELSE IF loc[t].existed THEN {} ELSE {loc[t].live}]
    /\ UNCHANGED <<diskVars, indexVars, knownVars, places, own, lock, boundVars, newest>>

Unclaim(t) ==
    /\ At(t, "unclaim")
    /\ claim' = [claim EXCEPT ![loc[t].pack] = 0]
    /\ loc' = [loc EXCEPT ![t] = [@ EXCEPT !.pc = "compact", !.pack = None, !.live = {},
                                    !.holders = {}, !.existed = FALSE]]
    /\ UNCHANGED <<entry, mtime, clock, hour, indexVars, knownVars, places, pending, own, lock, boundVars, newest>>

\* Mutant: the entry's lock is kept.
DoneLocked(t) ==
    /\ At(t, "done")
    /\ loc' = [loc EXCEPT ![t] = Idle]
    /\ UNCHANGED <<diskVars, indexVars, knownVars, places, pending, own, lock, boundVars, newest>>

Done(t) ==
    /\ At(t, "done")
    /\ Unlocked(t)
    /\ loc' = [loc EXCEPT ![t] = Idle]
    /\ UNCHANGED <<diskVars, indexVars, knownVars, places, pending, own, boundVars, newest>>

-----------------------------------------------------------------------------
(* FileBackend.clear: the entries, what the store knows, the packs.        *)

ClearBegin(t) ==
    /\ At(t, "idle")
    /\ "clear" \in OperationsOf[t]
    /\ loc' = [loc EXCEPT ![t] = [Idle EXCEPT !.pc = "clear", !.unread = Stems]]
    /\ UNCHANGED <<diskVars, indexVars, knownVars, places, pending, own, lock, boundVars, newest>>

ClearEntry(t) ==
    /\ At(t, "clear")
    /\ \E s \in loc[t].unread :
         /\ entry' = [entry EXCEPT ![s] = NoEntry]
         /\ newest' = [newest EXCEPT ![s] = 0]
         /\ loc' = [loc EXCEPT ![t].unread = @ \ {s},
                               ![t].pc = IF loc[t].unread = {s} THEN "clear_known" ELSE @]
    /\ UNCHANGED <<mtime, claim, clock, hour, indexVars, knownVars, places, pending, own, lock, boundVars>>

\* _placed_by and _pending are left as they are.
ClearKnown(t) ==
    LET r == StoreOf[t] IN
    /\ At(t, "clear_known")
    /\ heldBy' = [heldBy EXCEPT ![r] = [s \in Stems |-> {}]]
    /\ places' = [places EXCEPT ![r] = Nowhere]
    /\ own' = [own EXCEPT ![r] = [p \in Packs |-> 0]]
    /\ indexed' = [indexed EXCEPT ![r] = TRUE]
    /\ indexedAt' = [indexedAt EXCEPT ![r] = clock]
    /\ Goto(t, "clear_packs")
    /\ UNCHANGED <<diskVars, placedBy, pending, lock, boundVars, newest>>

ClearPacks(t) ==
    /\ At(t, "clear_packs")
    /\ mtime' = [p \in Packs |-> 0]
    /\ claim' = [p \in Packs |-> 0]
    /\ Goto(t, "done")
    /\ UNCHANGED <<entry, clock, hour, indexVars, knownVars, places, pending, own, lock, boundVars, newest>>

-----------------------------------------------------------------------------
(* The environment.                                                        *)

\* A process is killed and started again: the files stay as they are, an
\* entry taken aside is lost with its temp name.
Crash(r) ==
    /\ crashes < MaxCrashes
    /\ crashes' = crashes + 1
    /\ strayed' = TRUE
    /\ indexed' = [indexed EXCEPT ![r] = FALSE]
    /\ indexedAt' = [indexedAt EXCEPT ![r] = 0]
    /\ heldBy' = [heldBy EXCEPT ![r] = [s \in Stems |-> {}]]
    /\ placedBy' = [placedBy EXCEPT ![r] = [s \in Stems |-> Nowhere]]
    /\ places' = [places EXCEPT ![r] = Nowhere]
    /\ pending' = [pending EXCEPT ![r] = [p \in Packs |-> 0]]
    /\ own' = [own EXCEPT ![r] = [p \in Packs |-> 0]]
    /\ lock' = [lock EXCEPT ![r] = [s \in Stems |-> Free]]
    /\ loc' = [t \in Threads |-> IF StoreOf[t] = r THEN Idle ELSE loc[t]]
    /\ UNCHANGED <<diskVars, sets, hours, newest>>

\* ORPHAN_CHUNK_AGE passes; no operation takes that long.
HourPasses ==
    /\ hours < MaxHours
    /\ \A t \in Threads : At(t, "idle")
    /\ hours' = hours + 1
    /\ hour' = clock
    /\ clock' = clock + 1
    /\ UNCHANGED <<entry, mtime, claim, indexVars, knownVars, places, pending, own, lock, loc, sets, crashes, strayed, newest>>

Step(t) ==
    \/ IndexStart(t) \/ IndexRead(t) \/ IndexInstall(t) \/ SweepCheck(t) \/ SweepRemove(t)
    \/ SetBegin(t) \/ HoldNext(t) \/ Touch(t) \/ TouchNote(t)
    \/ PackBegin(t) \/ PackWrite(t) \/ PackFails(t) \/ PackLearn(t)
    \/ EntryLock(t) \/ EntryWrite(t) \/ EntryFails(t) \/ Abandon(t) \/ Commit(t)
    \/ RemoveBegin(t) \/ Unlink(t) \/ Release(t)
    \/ DropNext(t) \/ DropStat(t) \/ DropRemove(t) \/ DropForget(t)
    \/ CompactNext(t) \/ Claim(t) \/ Plan(t) \/ Repoint(t) \/ RepointFails(t) \/ SwapTake(t) \/ SwapLink(t)
    \/ RewriteEnd(t) \/ Unclaim(t) \/ Done(t)
    \/ ClearBegin(t) \/ ClearEntry(t) \/ ClearKnown(t) \/ ClearPacks(t)

Next == (\E t \in Threads : Step(t)) \/ (\E r \in Stores : Crash(r)) \/ HourPasses

Spec == Init /\ [][Next]_vars

-----------------------------------------------------------------------------
(* Properties.                                                             *)

\* Types; an entry's lock is held by a thread of the store that is at work.
TypeOK ==
    /\ entry \in [Stems -> [id : 0 .. MaxSets, at : [Chunks -> Packs \cup {None}]]]
    /\ mtime \in [Packs -> 0 .. clock] /\ claim \in [Packs -> 0 .. clock] /\ hour \in 0 .. clock
    /\ indexed \in [Stores -> BOOLEAN] /\ indexedAt \in [Stores -> 0 .. clock]
    /\ heldBy \in [Stores -> [Stems -> SUBSET Packs]]
    /\ placedBy \in [Stores -> [Stems -> [Chunks -> Packs \cup {None}]]]
    /\ places \in [Stores -> [Chunks -> Packs \cup {None}]]
    /\ pending \in [Stores -> [Packs -> Nat]] /\ own \in [Stores -> [Packs -> 0 .. clock]]
    /\ \A r \in Stores, s \in Stems :
         lock[r][s] # Free => StoreOf[lock[r][s]] = r /\ ~At(lock[r][s], "idle")

\* The packs thread t has counted in _pending.
InHand(t) ==
    loc[t].held
    \cup (IF loc[t].pc \in {"touch", "note", "pack_write", "pack_learn", "repack_write", "repack_learn"}
           THEN {loc[t].name} ELSE {})
    \cup (IF loc[t].pc \in {"repoint", "swap", "link"} THEN {loc[t].live} ELSE {})

\* Every write in flight is counted once and let go once, whichever way it
\* ends (_pending): a count left over would keep a pack for ever, one too few
\* would let it be removed under a write.
PendingBalanced ==
    \A r \in Stores, p \in Packs :
      pending[r][p] = Cardinality({t \in Threads : StoreOf[t] = r /\ p \in InHand(t)})

\* A file goes only when no entry holds a chunk in it (the module docstring):
\* every pack an entry names is there, across replacements, removals, failed
\* writes, rewrites of packs and restarts.
EntryWhole == \A s \in Stems : \A p \in Held(entry[s].at) : mtime[p] # 0

Unheld(p) == mtime[p] # 0 /\ \A s \in Stems : p \notin Held(entry[s].at)

\* Nothing is left over: when no operation is in progress, a pack no entry
\* holds was left by a killed process or by a rewrite an error ended, and only
\* until a store has read the folder after ORPHAN_CHUNK_AGE (_sweep_orphans).
NoLeak ==
    (\A t \in Threads : At(t, "idle")) =>
      \A p \in Packs : Unheld(p) =>
        /\ strayed
        /\ \A r \in Stores : indexed[r] /\ indexedAt[r] > hour => mtime[p] > hour

\* One process at a time rewrites a pack (<pack>.claim), and the claim goes
\* with the rewrite, whether it moved the pack or gave up.
ClaimExclusive ==
    crashes = 0 =>
      \A p \in Packs :
        Cardinality({t \in Threads : loc[t].pack = p /\ ~At(t, "claim")}) = IF claim[p] = 0 THEN 0 ELSE 1

\* A rewrite undoes nothing another process did meanwhile (_swap_if_same):
\* what is there is the last write of the stem, or nothing.
RewriteUndoesNothing == \A s \in Stems : entry[s].id \in {0, newest[s]}
=============================================================================
