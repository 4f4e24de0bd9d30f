------------------------------- MODULE Tiered -------------------------------
(***************************************************************************)
(* TieredBackend: the RAM tiers of several processes over one cache        *)
(* directory, and how a clear reaches them.  A clear removes entries and   *)
(* gives the directory's stamp another identity (CacheDirStamp); a process *)
(* compares the stamp at most once a second (ClearWatcher) and drops its   *)
(* RAM tier when it moved.  One thread per process uses the tiers, beside  *)
(* the disk tier's writer.  A copy of an entry carries its version and, to *)
(* state the properties, a mark: its entry was removed from disk, the stamp *)
(* has moved since, the process has looked since ("due").  Left out: ttls, *)
(* metadata-only entries, call references, tiers past the disk.            *)
(***************************************************************************)
EXTENDS Integers, FiniteSets

CONSTANTS
    Procs, Keys, None,
    Operations,     \* what each process does to which key: "get", "set", "persist", "clear"
    MaxStores,      \* bound on the versions stored
    Clears,         \* bounds on the clears begun: in a process, by `cash clear', all or a function
    RamMayFail,     \* a RAM tier may raise over a value it cannot copy
    WriteMayFail    \* a background write may fail

ClearKinds == {"process", "function", "all"}

\* How far a background write has come.
Tried == {"first", "stamp", "written", "count", "again"}

ASSUME TieredAssumption ==
    /\ MaxStores \in Nat /\ Clears \subseteq [ClearKinds -> Nat]
    /\ {RamMayFail, WriteMayFail} \subseteq BOOLEAN
    /\ None \notin [v : Nat, alone : BOOLEAN, try : Tried]

VARIABLES
    dir, stamp,     \* the directory exists; its stamp's identity, NoStamp if there is none
    stamps,         \* identities given out
    entry,          \* the entry of each key on disk
    ram,            \* per process: the RAM tier
    queue,          \* per process and key: the write the disk tier's queue holds
    watch,          \* ClearWatcher: _generation, _stamp_writes_seen
    own,            \* the disk tier's _initialized, stamp.writes, stamp.written
    pc, key, got,   \* per process: where its thread is, on which key, with what,
    tok, num,       \* the stamp and the number it has read
    cli,            \* the `cash clear' under way
    stores, clears  \* versions stored, clears yet to begin

diskVars == <<dir, stamp, stamps, entry>>
threadVars == <<pc, key, got, tok, num>>
vars == <<diskVars, ram, queue, own, stores, cli, clears, watch, threadVars>>

NoStamp == 0
Unseen == -1
NoCopy == [v |-> 0, kept |-> TRUE, mark |-> "none"]
CliIdle == [at |-> "idle", names |-> {}, stamped |-> FALSE]

Init ==
    /\ dir \in BOOLEAN
    /\ stamp = (IF dir THEN 1 ELSE NoStamp) /\ stamps = 1
    /\ entry \in [Keys -> IF dir THEN {None, [v |-> 0, alone |-> FALSE]} ELSE {None}]
    /\ ram = [p \in Procs |-> [k \in Keys |-> None]]
    /\ queue = [p \in Procs |-> [k \in Keys |-> None]]
    /\ watch = [p \in Procs |-> [generation |-> Unseen, seen |-> 0]]
    /\ own = [p \in Procs |-> [initialized |-> FALSE, writes |-> 0, written |-> NoStamp]]
    /\ pc = [p \in Procs |-> "idle"] /\ key = [p \in Procs |-> None]
    /\ got = [p \in Procs |-> NoCopy]
    /\ tok = [p \in Procs |-> NoStamp] /\ num = [p \in Procs |-> 0]
    /\ cli = CliIdle
    /\ stores = 0 /\ clears \in Clears

At(p, where) == pc[p] = where
Call(p, k, where) == pc' = [pc EXCEPT ![p] = where] /\ key' = [key EXCEPT ![p] = k]
Goto(p, where) == Call(p, IF where = "idle" THEN None ELSE key[p], where)

\* CacheDirStamp.write and .bump give the stamp an identity it never had.
NewStamp == stamp' = stamps + 1 /\ stamps' = stamps + 1

\* CacheDirStamp.write after the file: the stamp is read back, then counted.
ReadBack(o) == [o EXCEPT !.written = stamp]
CountWrite(o) == [o EXCEPT !.writes = @ + 1]

\* The process's writer is between stamping the directory and counting that.
Stamping(p) == \E k \in Keys : queue[p][k] # None /\ queue[p][k].try \in {"written", "count"}

\* The process has seen a stamp, or since it last looked written one and read
\* it back.
Remembers(p) ==
    \/ watch[p].generation \notin {Unseen, NoStamp}
    \/ own[p].writes # watch[p].seen /\ own[p].written # NoStamp

Marked(copy, from, to) ==
    IF copy # None /\ copy.mark = from THEN [copy EXCEPT !.mark = to] ELSE copy
Mark(p, ks, from, to) ==
    [k \in Keys |-> IF k \in ks THEN Marked(ram[p][k], from, to) ELSE ram[p][k]]
MarkGot(p, ks, from, to) == IF At(p, "promote") /\ key[p] \in ks THEN Marked(got[p], from, to) ELSE got[p]

\* The entries of ks are removed, and after that the stamp moves: for a process
\* that remembers none, that says nothing.
Remove(ks) ==
    /\ ram' = [p \in Procs |-> Mark(p, ks, "none", "removed")]
    /\ got' = [p \in Procs |-> MarkGot(p, ks, "none", "removed")]
MovedFor(p) == IF Remembers(p) THEN "told" ELSE "none"
Tell(ks) ==
    /\ ram' = [p \in Procs |-> Mark(p, ks, "removed", MovedFor(p))]
    /\ got' = [p \in Procs |-> MarkGot(p, ks, "removed", MovedFor(p))]

-----------------------------------------------------------------------------
(* get: _drop_ram_if_cleared, the RAM tier, the disk tier, promotion.      *)

\* Within a second of the last look, straight to the RAM tier (where a hit
\* changes nothing), then the disk tier.
GetLately(p, k) ==
    /\ At(p, "idle") /\ <<"get", k>> \in Operations[p]
    /\ watch[p].generation # Unseen /\ ram[p][k] = None
    /\ Call(p, k, "disk")
    /\ UNCHANGED <<diskVars, ram, queue, own, stores, cli, clears, watch, got, tok, num>>

\* A look reads the stamp, ...
Get(p, k) ==
    /\ At(p, "idle") /\ <<"get", k>> \in Operations[p]
    /\ tok' = [tok EXCEPT ![p] = stamp]
    /\ ram' = [ram EXCEPT ![p] = IF Stamping(p) THEN @ ELSE Mark(p, Keys, "told", "due")]
    /\ Call(p, k, "writes")
    /\ UNCHANGED <<diskVars, got, num, queue, own, stores, cli, clears, watch>>

\* ... then how often the process has stamped the directory, ...
StampWrites(p) ==
    /\ At(p, "writes")
    /\ num' = [num EXCEPT ![p] = own[p].writes]
    /\ Goto(p, "compare")
    /\ UNCHANGED <<diskVars, ram, got, tok, queue, own, stores, cli, clears, watch>>

\* Mutant: a stamp where there was none is always a directory being created.
ClearedNotByUs(p, token, writes) ==
    watch[p].generation \notin {Unseen, NoStamp} /\ token # watch[p].generation

\* ... and compares (ClearWatcher.cleared): did it move since the last look?
Cleared(p, token, writes) ==
    LET w == watch[p]
        restamped == writes > w.seen /\ (w.seen >= 1 \/ writes - w.seen >= 2)
        known == IF w.generation \in {Unseen, NoStamp} /\ writes # w.seen THEN own[p].written
                                                                          ELSE w.generation
    IN  restamped \/ (known \notin {Unseen, NoStamp} /\ token # known)

\* The RAM tier, dropped first if the directory was cleared.
Compare(p) ==
    /\ At(p, "compare")
    /\ ram' = IF Cleared(p, tok[p], num[p]) THEN [ram EXCEPT ![p] = [k \in Keys |-> None]] ELSE ram
    /\ watch' = [watch EXCEPT ![p] = [generation |-> tok[p], seen |-> num[p]]]
    /\ tok' = [tok EXCEPT ![p] = NoStamp] /\ num' = [num EXCEPT ![p] = 0]
    /\ Goto(p, IF ram'[p][key[p]] # None THEN "idle" ELSE "disk")
    /\ UNCHANGED <<diskVars, queue, own, stores, cli, clears, got>>

\* The disk tier's first use creates the directory; stamp.check stamps one
\* that has no stamp.
EnsureInitialized(p) ==
    /\ At(p, "disk") /\ ~own[p].initialized
    /\ dir' = TRUE
    /\ own' = [own EXCEPT ![p].initialized = TRUE]
    /\ Goto(p, IF stamp = NoStamp THEN "stamp" ELSE "disk")
    /\ UNCHANGED <<stamp, stamps, entry, ram, queue, stores, cli, clears, watch, got, tok, num>>

StampCheck(p) ==
    /\ At(p, "stamp")
    /\ IF dir THEN NewStamp ELSE UNCHANGED <<stamp, stamps>>
    /\ Goto(p, IF dir THEN "written" ELSE "disk")
    /\ UNCHANGED <<dir, entry, ram, queue, own, stores, cli, clears, watch, got, tok, num>>

\* (No look of the process's own comes between the two.)
StampCheckRead(p) ==
    /\ At(p, "written")
    /\ own' = [own EXCEPT ![p] = CountWrite(ReadBack(@))]
    /\ Goto(p, "disk")
    /\ UNCHANGED <<diskVars, ram, queue, stores, cli, clears, watch, got, tok, num>>

\* Once this process's own write of the key is through, the entry, or none;
\* one that proved no faster to read than to compute is deleted, and still
\* promoted.
DiskGet(p) ==
    /\ At(p, "disk") /\ own[p].initialized /\ queue[p][key[p]] = None
    /\ LET found == entry[key[p]]
       IN  IF found = None \/ found.alone
           THEN Goto(p, "idle") /\ UNCHANGED got
           ELSE Goto(p, "promote") /\ got' = [got EXCEPT ![p] = [NoCopy EXCEPT !.v = found.v]]
    /\ \/ UNCHANGED entry
       \/ entry' = [entry EXCEPT ![key[p]] = None]
    /\ UNCHANGED <<dir, stamp, stamps, ram, queue, own, stores, cli, clears, watch, tok, num>>

\* InMemoryBackend.set, the tier after it: the copy is kept, and the tier's
\* caps may drop any of its entries; or it is refused, and the key's older
\* copy goes too; or the value cannot be copied, which raises and leaves the
\* older copy.
RamSet(p, k, copy) ==
    {[j \in Keys |-> IF j \in gone THEN None ELSE IF j = k THEN copy ELSE ram[p][j]] : gone \in SUBSET Keys}
    \cup IF RamMayFail THEN {ram[p]} ELSE {}

\* A value that would be copied is kept on its second read (_read_once), so
\* a read may leave the RAM tier alone.
Promote(p) ==
    /\ At(p, "promote")
    /\ \/ \E tier \in RamSet(p, key[p], got[p]) : ram' = [ram EXCEPT ![p] = tier]
       \/ UNCHANGED ram
    /\ got' = [got EXCEPT ![p] = NoCopy]
    /\ Goto(p, "idle")
    /\ UNCHANGED <<diskVars, queue, own, stores, cli, clears, watch, tok, num>>

-----------------------------------------------------------------------------
(* set: the RAM tier, then the disk tier if the policy says so.  The RAM   *)
(* tier is the process's own, so one step does both.                       *)

Work(v, alone) == [v |-> v, alone |-> alone, try |-> "first"]

\* A call stores after the disk tier was asked.
CanStore(p, k) ==
    At(p, "idle") /\ <<"set", k>> \in Operations[p] /\ own[p].initialized /\ stores < MaxStores
NewCopy(kept) == [v |-> stores + 1, kept |-> kept, mark |-> "none"]

\* The policy may keep the value from disk, and so may a size cap, an error,
\* or that rebuilding it writes a file.  A RAM copy whose entry is on disk
\* says so.
Set(p, k) ==
    /\ CanStore(p, k)
    /\ stores' = stores + 1
    /\ \/ /\ \E tier \in RamSet(p, k, NewCopy(FALSE)) : ram' = [ram EXCEPT ![p] = tier]
          /\ UNCHANGED queue
       \/ /\ \E tier \in RamSet(p, k, NewCopy(TRUE)) : ram' = [ram EXCEPT ![p] = tier]
          /\ queue[p][k] = None
          /\ queue' = [queue EXCEPT ![p][k] = Work(stores + 1, FALSE)]
    /\ UNCHANGED <<diskVars, own, cli, clears, watch, threadVars>>

\* Mutant: the older RAM copy stays.
SetAloneKeepsOlder(p, k) ==
    /\ CanStore(p, k) /\ queue[p][k] = None
    /\ stores' = stores + 1
    /\ queue' = [queue EXCEPT ![p][k] = Work(stores + 1, TRUE)]
    /\ UNCHANGED <<diskVars, ram, own, cli, clears, watch, threadVars>>

\* A value so large that it goes to disk alone; an older RAM copy is dropped.
\* (One that no disk tier takes is the RAM tier's after all, as in Set.)
SetAlone(p, k) ==
    /\ CanStore(p, k) /\ queue[p][k] = None
    /\ stores' = stores + 1
    /\ ram' = [ram EXCEPT ![p][k] = None]
    /\ queue' = [queue EXCEPT ![p][k] = Work(stores + 1, TRUE)]
    /\ UNCHANGED <<diskVars, own, cli, clears, watch, threadVars>>

\* persist_from_memory: an entry only the RAM tier holds is written after all.
PersistFromMemory(p, k) ==
    /\ At(p, "idle") /\ <<"persist", k>> \in Operations[p]
    /\ ram[p][k] # None /\ ~ram[p][k].kept /\ queue[p][k] = None
    /\ queue' = [queue EXCEPT ![p][k] = Work(ram[p][k].v, FALSE)]
    /\ ram' = [ram EXCEPT ![p][k].kept = TRUE]
    /\ UNCHANGED <<diskVars, own, stores, cli, clears, watch, threadVars>>

\* The background write (_write_cache_files), one at a time.
Writing(p, k, at) ==
    /\ queue[p][k] # None /\ queue[p][k].try = at
    /\ {j \in Keys : queue[p][j] # None /\ queue[p][j].try # "first"} \subseteq {k}
Tries(p, k, at) == queue' = [queue EXCEPT ![p][k].try = at]

Land(p, k) ==
    /\ Writing(p, k, "first") \/ Writing(p, k, "again")
    /\ dir
    /\ entry' = [entry EXCEPT ![k] = [v |-> queue[p][k].v, alone |-> queue[p][k].alone]]
    /\ queue' = [queue EXCEPT ![p][k] = None]
    /\ UNCHANGED <<dir, stamp, stamps, ram, own, stores, cli, clears, watch, threadVars>>

\* FileNotFoundError: the directory was deleted under the process, which
\* recreates it, ...
Recreate(p, k) ==
    /\ Writing(p, k, "first") /\ ~dir
    /\ dir' = TRUE
    /\ Tries(p, k, "stamp")
    /\ UNCHANGED <<stamp, stamps, entry, ram, own, stores, cli, clears, watch, threadVars>>

\* ... stamps it, unless it is gone again, and tries once more.
RecreateStamp(p, k) ==
    /\ Writing(p, k, "stamp")
    /\ IF dir THEN NewStamp ELSE UNCHANGED <<stamp, stamps>>
    /\ Tries(p, k, IF dir THEN "written" ELSE "again")
    /\ UNCHANGED <<dir, entry, ram, own, stores, cli, clears, watch, threadVars>>

\* (A look under way meanwhile does not count as one.)
RecreateRead(p, k) ==
    /\ Writing(p, k, "written")
    /\ own' = [own EXCEPT ![p] = ReadBack(@)]
    /\ ram' = [ram EXCEPT ![p] = Mark(p, Keys, "due", "told")]
    /\ Tries(p, k, "count")
    /\ UNCHANGED <<diskVars, stores, cli, clears, watch, threadVars>>

RecreateCount(p, k) ==
    /\ Writing(p, k, "count")
    /\ own' = [own EXCEPT ![p] = CountWrite(@)]
    /\ Tries(p, k, "again")
    /\ UNCHANGED <<diskVars, ram, stores, cli, clears, watch, threadVars>>

LandFails(p, k) ==
    /\ Writing(p, k, "first") \/ Writing(p, k, "again")
    /\ WriteMayFail \/ (~dir /\ queue[p][k].try = "again")
    /\ queue' = [queue EXCEPT ![p][k] = None]
    /\ UNCHANGED <<diskVars, ram, own, stores, cli, clears, watch, threadVars>>

-----------------------------------------------------------------------------
(* cache_clear in a process: delete from each tier, then bump_generation.  *)

\* (The bound on the clears begun.)
Begin(kind) == clears[kind] > 0 /\ clears' = [clears EXCEPT ![kind] = @ - 1]

\* TieredBackend.delete, once the process's own write is through; then
\* bump_generation reads the stamp.
ClearFunction(p, k) ==
    /\ At(p, "idle") /\ <<"clear", k>> \in Operations[p] /\ own[p].initialized /\ queue[p][k] = None
    /\ Begin("process")
    /\ entry' = [entry EXCEPT ![k] = None]
    /\ ram' = [q \in Procs |-> IF q = p THEN [ram[p] EXCEPT ![k] = None]
                                        ELSE Mark(q, {k}, "none", "removed")]
    /\ got' = [q \in Procs |-> MarkGot(q, {k}, "none", "removed")]
    /\ tok' = [tok EXCEPT ![p] = stamp]
    /\ Call(p, k, "bump")
    /\ UNCHANGED <<dir, stamp, stamps, queue, own, stores, cli, watch, num>>

\* CacheDirStamp.bump: a missing stamp stays missing.
BumpStamp == IF stamp = NoStamp THEN UNCHANGED <<stamp, stamps>> ELSE NewStamp

\* Mutant: the process takes the stamp for its own whatever it was before.
OwnMoveForgets(p, before) == TRUE

\* ClearWatcher.moved_by_us: the process takes the move for its own, unless
\* the stamp had moved from elsewhere before.
OwnMove(p, before) == watch[p].generation # Unseen /\ watch[p].generation = before

\* The stamp moves (num is what it should read then, if nothing else moved it), ...
Bump(p) ==
    /\ At(p, "bump")
    /\ BumpStamp
    /\ ram' = [q \in Procs |-> IF q = p THEN ram[p] ELSE Mark(q, {key[p]}, "removed", MovedFor(q))]
    /\ got' = [q \in Procs |-> MarkGot(q, {key[p]}, "removed", MovedFor(q))]
    /\ num' = [num EXCEPT ![p] = IF stamp = tok[p] THEN stamp' ELSE Unseen]
    /\ Goto(p, "moved")
    /\ UNCHANGED <<dir, entry, tok, queue, own, stores, cli, clears, watch>>

\* ... and is read once more.  A clear elsewhere between the two readings goes
\* unnoticed.
MovedByUs(p) ==
    /\ At(p, "moved")
    /\ watch' = IF OwnMove(p, tok[p]) THEN [watch EXCEPT ![p].generation = stamp] ELSE watch
    /\ ram' = IF OwnMove(p, tok[p]) /\ stamp # num[p]
              THEN [ram EXCEPT ![p] = Mark(p, Keys, "told", "none")] ELSE ram
    /\ tok' = [tok EXCEPT ![p] = NoStamp] /\ num' = [num EXCEPT ![p] = 0]
    /\ Goto(p, "idle")
    /\ UNCHANGED <<diskVars, got, queue, own, stores, cli, clears>>

-----------------------------------------------------------------------------
(* cash clear, in a process of its own.                                    *)

cliUnchanged == <<queue, own, stores, watch, pc, key, tok, num>>

\* clear --function: the key's entry is deleted through a backend of the
\* command's own, which stamps an unstamped directory, ...
CliDelete(k) ==
    /\ cli = CliIdle /\ Begin("function")
    /\ entry[k] # None
    /\ IF stamp = NoStamp THEN NewStamp ELSE UNCHANGED <<stamp, stamps>>
    /\ entry' = [entry EXCEPT ![k] = None]
    /\ Remove({k})
    /\ cli' = [at |-> "bump", names |-> {k}, stamped |-> FALSE]
    /\ UNCHANGED <<dir, cliUnchanged>>

\* ... then the stamp moves.
CliBump ==
    /\ cli.at = "bump"
    /\ BumpStamp
    /\ Tell(cli.names)
    /\ cli' = CliIdle
    /\ UNCHANGED <<dir, entry, clears, cliUnchanged>>

\* clear --all: _remove_markers_last lists the directory, ...
CliList ==
    /\ cli = CliIdle /\ Begin("all")
    /\ dir
    /\ Remove({k \in Keys : entry[k] = None})
    /\ cli' = [at |-> "unlink", names |-> {k \in Keys : entry[k] # None}, stamped |-> stamp # NoStamp]
    /\ UNCHANGED <<diskVars, cliUnchanged>>

\* ... removes the entries (one that is gone already stops it), ...
CliUnlink(k) ==
    /\ cli.at = "unlink" /\ k \in cli.names
    /\ entry' = [entry EXCEPT ![k] = None]
    /\ Remove({k})
    /\ cli' = IF entry[k] = None THEN CliIdle ELSE [cli EXCEPT !.names = @ \ {k}]
    /\ UNCHANGED <<dir, stamp, stamps, clears, cliUnchanged>>

\* ... then the stamp, if it was there, ...
CliUnlinkStamp ==
    /\ cli.at = "unlink" /\ cli.names = {}
    /\ IF cli.stamped THEN stamp' = NoStamp /\ Tell(Keys) ELSE UNCHANGED <<stamp, ram, got>>
    /\ cli' = [cli EXCEPT !.at = "rmdir"]
    /\ UNCHANGED <<dir, stamps, entry, clears, cliUnchanged>>

\* Mutant: the directory goes with whatever it holds.
CliRmdirAnyway ==
    /\ cli.at = "rmdir"
    /\ dir' = FALSE
    /\ cli' = CliIdle
    /\ UNCHANGED <<stamp, stamps, entry, clears, ram, got, cliUnchanged>>

\* ... and the directory, unless something was written into it since.
CliRmdir ==
    /\ cli.at = "rmdir"
    /\ dir' = (stamp # NoStamp \/ \E k \in Keys : entry[k] # None)
    /\ cli' = CliIdle
    /\ UNCHANGED <<stamp, stamps, entry, clears, ram, got, cliUnchanged>>

-----------------------------------------------------------------------------
Next ==
    \/ \E p \in Procs :
         \/ \E k \in Keys :
              \/ GetLately(p, k) \/ Get(p, k) \/ PersistFromMemory(p, k) \/ ClearFunction(p, k)
              \/ Set(p, k) \/ SetAlone(p, k)
              \/ Land(p, k) \/ LandFails(p, k)
              \/ Recreate(p, k) \/ RecreateStamp(p, k) \/ RecreateRead(p, k) \/ RecreateCount(p, k)
         \/ StampWrites(p) \/ Compare(p) \/ DiskGet(p) \/ Promote(p)
         \/ EnsureInitialized(p) \/ StampCheck(p) \/ StampCheckRead(p)
         \/ Bump(p) \/ MovedByUs(p)
    \/ \E k \in Keys : CliDelete(k) \/ CliUnlink(k)
    \/ CliBump \/ CliList \/ CliUnlinkStamp \/ CliRmdir

Spec == Init /\ [][Next]_vars

-----------------------------------------------------------------------------
(* Properties.                                                             *)

Versions == 0 .. MaxStores
Copies == [v : Versions, kept : BOOLEAN, mark : {"none", "removed", "told", "due"}]
Tokens == NoStamp .. stamps

\* The types; and no stamp and no entry outlives its directory: `cash clear'
\* takes the directory only when nothing was written into it meanwhile.
TypeOK ==
    /\ dir \in BOOLEAN /\ stamps \in Nat /\ stamp \in Tokens
    /\ entry \in [Keys -> [v : Versions, alone : BOOLEAN] \cup {None}]
    /\ ram \in [Procs -> [Keys -> Copies \cup {None}]]
    /\ queue \in [Procs -> [Keys -> [v : Versions, alone : BOOLEAN, try : Tried] \cup {None}]]
    /\ watch \in [Procs -> [generation : Tokens \cup {Unseen}, seen : Nat]]
    /\ own \in [Procs -> [initialized : BOOLEAN, writes : Nat, written : Tokens]]
    /\ pc \in [Procs -> {"idle", "writes", "compare", "disk", "stamp", "written", "promote", "bump", "moved"}]
    /\ key \in [Procs -> Keys \cup {None}] /\ got \in [Procs -> Copies]
    /\ tok \in [Procs -> Tokens] /\ num \in [Procs -> Nat \cup {Unseen}]
    /\ cli \in [at : {"idle", "bump", "unlink", "rmdir"}, names : SUBSET Keys, stamped : BOOLEAN]
    /\ stores \in Versions /\ clears \in [ClearKinds -> Nat]
    /\ stamp # NoStamp \/ (\E k \in Keys : entry[k] # None) => dir

\* A clear reaches processes that are still running: once a process has
\* looked at the stamp after it moved, its RAM tier holds nothing from before
\* the removal, whoever stamped, cleared and wrote in between.  (Not for a
\* process that had neither seen a stamp nor written one and read it back when
\* it moved, nor for one whose own clear crossed another.  A look that overlaps
\* the process's own stamping may miss it: the next one is the look meant.)
ClearReaches ==
    \A p \in Procs, k \in Keys :
        ram[p][k] # None /\ ram[p][k].mark = "due" => pc[p] \in {"writes", "compare"}

\* A process reads back what it stored: while its write of a key is on its
\* way to disk, its RAM tier holds no older version of the key, nor is a read
\* about to put one there.  (Unless the RAM tier raised over the new value,
\* which leaves the older copy.)
ReadsOwnStore ==
    ~RamMayFail => \A p \in Procs, k \in Keys : queue[p][k] # None =>
        /\ ram[p][k] # None => ram[p][k].v >= queue[p][k].v
        /\ At(p, "promote") /\ key[p] = k => got[p].v >= queue[p][k].v
=============================================================================
