----------------------------- MODULE TieredTypeProofs -----------------------
(***************************************************************************)
(* Proofs about Tiered, for any processes, keys and number of stores and   *)
(* clears: the types, and that a process reads back what it stored.        *)
(***************************************************************************)
EXTENDS Tiered, TLAPS

Marks == {"none", "removed", "told", "due"}
CopyOf(n) == [v : 0 .. n, kept : BOOLEAN, mark : Marks]
Tier(n) == [Keys -> CopyOf(n) \cup {None}]
JobOf(n) == [v : 0 .. n, alone : BOOLEAN, try : Tried]
Places == {"idle", "writes", "compare", "disk", "stamp", "written", "promote", "bump", "moved"}

\* No version is ahead of the last one stored.
DiskTypes ==
    /\ dir \in BOOLEAN /\ stamps \in Nat /\ stamp \in 0 .. stamps
    /\ entry \in [Keys -> [v : 0 .. stores, alone : BOOLEAN] \cup {None}]
    /\ stamp # NoStamp \/ (\E k \in Keys : entry[k] # None) => dir
CopyTypes == ram \in [Procs -> Tier(stores)] /\ got \in [Procs -> CopyOf(stores)]
QueueTypes == queue \in [Procs -> [Keys -> JobOf(stores) \cup {None}]]
StampTypes ==
    /\ watch \in [Procs -> [generation : (0 .. stamps) \cup {Unseen}, seen : Nat]]
    /\ own \in [Procs -> [initialized : BOOLEAN, writes : Nat, written : 0 .. stamps]]
    /\ tok \in [Procs -> 0 .. stamps] /\ num \in [Procs -> Nat \cup {Unseen}]
    /\ \A p \in Procs : pc[p] = "compare" => num[p] \in Nat
ThreadTypes ==
    /\ pc \in [Procs -> Places] /\ key \in [Procs -> Keys \cup {None}]
    /\ \A p \in Procs : pc[p] # "idle" => key[p] \in Keys
ClearTypes ==
    /\ cli \in [at : {"idle", "bump", "unlink", "rmdir"}, names : SUBSET Keys, stamped : BOOLEAN]
    /\ stores \in 0 .. MaxStores /\ clears \in [ClearKinds -> Nat]

TierTypes == DiskTypes /\ CopyTypes /\ QueueTypes /\ StampTypes /\ ThreadTypes /\ ClearTypes

\* The RAM tier holds nothing older than the write on its way, and nothing is
\* promoted for a key whose write is.
OwnStore ==
    \A p \in Procs, k \in Keys : queue[p][k] # None =>
        /\ ram[p][k] # None => ram[p][k].v >= queue[p][k].v
        /\ ~(pc[p] = "promote" /\ key[p] = k)

\* More versions, more tiers.
LEMMA KeptGrows ==
    ASSUME NEW m \in Nat, NEW n \in Nat, m <= n
    PROVE  CopyOf(m) \subseteq CopyOf(n) /\ Tier(m) \subseteq Tier(n) /\ JobOf(m) \subseteq JobOf(n)
<1>1. 0 .. m \subseteq 0 .. n
  OBVIOUS
<1>2. CopyOf(m) \subseteq CopyOf(n) /\ JobOf(m) \subseteq JobOf(n)
  BY <1>1, Zenon DEF CopyOf, JobOf
<1> QED
  BY <1>2, Zenon DEF Tier

\* Marks leave a tier a tier, with the versions it had.
LEMMA MarkTypes ==
    ASSUME NEW n \in Nat, NEW p \in Procs, ram[p] \in Tier(n), got[p] \in CopyOf(n),
           NEW ks, NEW from, NEW to \in Marks
    PROVE  /\ Mark(p, ks, from, to) \in Tier(n) /\ MarkGot(p, ks, from, to) \in CopyOf(n)
           /\ \A k \in Keys : Mark(p, ks, from, to)[k] # None
                 => ram[p][k] # None /\ Mark(p, ks, from, to)[k].v = ram[p][k].v
<1>1. \A c \in CopyOf(n) : Marked(c, from, to) \in CopyOf(n) /\ Marked(c, from, to).v = c.v
  BY Zenon DEF Marked, CopyOf
<1>2. Marked(None, from, to) = None
  BY Zenon DEF Marked
<1>3. \A k \in Keys : ram[p][k] \in CopyOf(n) \cup {None}
  BY Zenon DEF Tier
<1>4. \A k \in Keys : /\ Marked(ram[p][k], from, to) \in CopyOf(n) \cup {None}
                      /\ Marked(ram[p][k], from, to) # None => ram[p][k] # None /\ Marked(ram[p][k], from, to).v = ram[p][k].v
  BY <1>1, <1>2, <1>3, Zenon
<1>5. \A k \in Keys : Mark(p, ks, from, to)[k] \in {ram[p][k], Marked(ram[p][k], from, to)}
  BY Zenon DEF Mark
<1>6. Mark(p, ks, from, to) \in Tier(n)
  BY <1>3, <1>4, Zenon DEF Mark, Tier
<1>7. MarkGot(p, ks, from, to) \in CopyOf(n)
  BY <1>1, Zenon DEF MarkGot
<1> QED
  BY <1>4, <1>5, <1>6, <1>7, Zenon

\* InMemoryBackend.set leaves a tier.
LEMMA RamSetTypes ==
    ASSUME NEW n \in Nat, NEW p \in Procs, ram[p] \in Tier(n), NEW k \in Keys, NEW c \in CopyOf(n),
           NEW tier \in RamSet(p, k, c)
    PROVE  /\ tier \in Tier(n)
           /\ ~RamMayFail => tier[k] \in {None, c} /\ \A j \in Keys \ {k} : tier[j] \in {None, ram[p][j]}
<1>1. CASE tier = ram[p] /\ RamMayFail
  BY <1>1, Zenon
<1>2. CASE \E gone \in SUBSET Keys :
             tier = [j \in Keys |-> IF j \in gone THEN None ELSE IF j = k THEN c ELSE ram[p][j]]
  BY <1>2, Zenon DEF Tier
<1>3. RamMayFail \in BOOLEAN
  BY TieredAssumption, Zenon
<1> QED
  BY <1>1, <1>2, <1>3, Zenon DEF RamSet

\* A step of a process's thread or its disk tier's writer, and of `cash clear'.
Writer(p) ==
    \E k \in Keys : \/ Land(p, k) \/ LandFails(p, k)
                    \/ Recreate(p, k) \/ RecreateStamp(p, k) \/ RecreateRead(p, k) \/ RecreateCount(p, k)
Storing(p) == \E k \in Keys : Set(p, k) \/ SetAlone(p, k) \/ PersistFromMemory(p, k)
Reading(p) ==
    \/ \E k \in Keys : GetLately(p, k) \/ Get(p, k)
    \/ StampWrites(p) \/ Compare(p) \/ EnsureInitialized(p) \/ StampCheck(p) \/ StampCheckRead(p)
    \/ DiskGet(p) \/ Promote(p)
Clearing(p) == (\E k \in Keys : ClearFunction(p, k)) \/ Bump(p) \/ MovedByUs(p)
Cli ==
    \/ \E k \in Keys : CliDelete(k) \/ CliUnlink(k)
    \/ CliBump \/ CliList \/ CliUnlinkStamp \/ CliRmdir

\* The steps by kind.
LEMMA Kinds == Next <=> Cli \/ \E p \in Procs : Writer(p) \/ Storing(p) \/ Reading(p) \/ Clearing(p)
BY Zenon DEF Next, Cli, Writer, Storing, Reading, Clearing

\* What the kinds of step leave alone.
LEMMA WriterLeaves ==
    ASSUME NEW p \in Procs, Writer(p)
    PROVE  UNCHANGED <<stores, cli, clears, watch, pc, key, got, tok, num>>
BY Zenon DEF Writer, Land, LandFails, Recreate, RecreateStamp, RecreateRead, RecreateCount, threadVars

\* A store asks nothing of the directory.
LEMMA StoringLeaves ==
    ASSUME NEW p \in Procs, Storing(p)
    PROVE  UNCHANGED <<dir, stamp, stamps, entry, own, cli, clears, watch, pc, key, got, tok, num>>
BY Zenon DEF Storing, Set, SetAlone, PersistFromMemory, diskVars, threadVars

\* A read writes no entry.
LEMMA ReadingLeaves ==
    ASSUME NEW p \in Procs, Reading(p)
    PROVE  UNCHANGED <<queue, stores, cli, clears>>
BY Zenon DEF Reading, GetLately, Get, StampWrites, Compare, EnsureInitialized, StampCheck, StampCheckRead,
             DiskGet, Promote

\* cache_clear stores nothing.
LEMMA ClearingLeaves ==
    ASSUME NEW p \in Procs, Clearing(p)
    PROVE  UNCHANGED <<dir, queue, own, stores, cli>>
BY Zenon DEF Clearing, ClearFunction, Bump, MovedByUs, diskVars

\* `cash clear' stays out of every process.
LEMMA CliLeaves ==
    ASSUME Cli
    PROVE  UNCHANGED <<queue, own, stores, watch, pc, key, tok, num>>
BY Zenon DEF Cli, CliDelete, CliBump, CliList, CliUnlink, CliUnlinkStamp, CliRmdir, cliUnchanged

\* The bound on clears.
LEMMA BeginTypes ==
    ASSUME clears \in [ClearKinds -> Nat], NEW kind \in ClearKinds, Begin(kind)
    PROVE  clears' \in [ClearKinds -> Nat]
BY DEF Begin

\* Versions, clears and `cash clear' itself.
LEMMA ClearStep ==
    ASSUME TierTypes, Next
    PROVE  ClearTypes' /\ stores \in Nat /\ stores' \in Nat /\ stores <= stores'
<1>1. ClearTypes
  BY Zenon DEF TierTypes
<1>2. stores \in Nat /\ stores <= MaxStores /\ MaxStores \in Nat
  BY <1>1, TieredAssumption DEF ClearTypes
<1>3. CASE Cli
  <2>1. UNCHANGED stores
    BY <1>3, CliLeaves, Zenon
  <2>2. clears' \in [ClearKinds -> Nat]
    <3>1. clears' = clears \/ Begin("function") \/ Begin("all")
      BY <1>3, Zenon DEF Cli, CliDelete, CliBump, CliList, CliUnlink, CliUnlinkStamp, CliRmdir
    <3> QED
      BY <1>1, <3>1, BeginTypes, Zenon DEF ClearTypes, ClearKinds
  <2>3. cli' \in [at : {"idle", "bump", "unlink", "rmdir"}, names : SUBSET Keys, stamped : BOOLEAN]
    <3>1. CliIdle \in [at : {"idle", "bump", "unlink", "rmdir"}, names : SUBSET Keys, stamped : BOOLEAN]
      BY Zenon DEF CliIdle
    <3>2. /\ cli \in [at : {"idle", "bump", "unlink", "rmdir"}, names : SUBSET Keys, stamped : BOOLEAN]
          /\ cli.names \in SUBSET Keys
      BY <1>1, Zenon DEF ClearTypes
    <3>3. \/ cli' = CliIdle
          \/ \E ks \in SUBSET Keys, b \in BOOLEAN : cli' = [at |-> "bump", names |-> ks, stamped |-> b]
          \/ \E ks \in SUBSET Keys, b \in BOOLEAN : cli' = [at |-> "unlink", names |-> ks, stamped |-> b]
          \/ \E k : cli' = [cli EXCEPT !.names = cli.names \ {k}]
          \/ cli' = [cli EXCEPT !.at = "rmdir"]
      <4>1. CASE \E k \in Keys : CliDelete(k)
        BY <4>1, Zenon DEF CliDelete
      <4>2. CASE CliList
        BY <4>2, Zenon DEF CliList
      <4>3. CASE \E k \in Keys : CliUnlink(k)
        BY <4>3, Zenon DEF CliUnlink
      <4> QED
        BY <1>3, <4>1, <4>2, <4>3, Zenon DEF Cli, CliBump, CliUnlinkStamp, CliRmdir
    <3> QED
      BY <3>1, <3>2, <3>3
  <2> QED
    BY <1>1, <1>2, <2>1, <2>2, <2>3 DEF ClearTypes
<1>4. ASSUME NEW p \in Procs, Writer(p) \/ Reading(p)
      PROVE  ClearTypes' /\ stores' = stores
  <2>1. UNCHANGED <<stores, cli, clears>>
    BY <1>4, WriterLeaves, ReadingLeaves, Zenon
  <2> QED
    BY <1>1, <2>1, Zenon DEF ClearTypes
<1>5. ASSUME NEW p \in Procs, Storing(p)
      PROVE  ClearTypes' /\ stores' \in {stores, stores + 1}
  <2>1. UNCHANGED <<cli, clears>>
    BY <1>5, StoringLeaves, Zenon
  <2>2. stores' = stores \/ (stores < MaxStores /\ stores' = stores + 1)
    BY <1>5, Zenon DEF Storing, Set, SetAlone, PersistFromMemory, CanStore
  <2>3. stores' \in 0 .. MaxStores
    BY <1>2, <2>2
  <2> QED
    BY <1>1, <2>1, <2>2, <2>3, Zenon DEF ClearTypes
<1>6. ASSUME NEW p \in Procs, Clearing(p)
      PROVE  ClearTypes' /\ stores' = stores
  <2>1. UNCHANGED <<cli, stores>>
    BY <1>6, ClearingLeaves, Zenon
  <2>2. clears' = clears \/ Begin("process")
    BY <1>6, Zenon DEF Clearing, ClearFunction, Bump, MovedByUs
  <2>3. clears' \in [ClearKinds -> Nat]
    BY <1>1, <2>2, BeginTypes, Zenon DEF ClearTypes, ClearKinds
  <2> QED
    BY <1>1, <2>1, <2>3, Zenon DEF ClearTypes
<1>7. PICK m : m = stores'
  OBVIOUS
<1>8. ClearTypes' /\ m \in {stores, stores + 1}
  BY <1>3, <1>4, <1>5, <1>6, <1>7, Kinds, CliLeaves, Zenon
<1> QED
  BY <1>2, <1>7, <1>8

\* Where a thread is, and on which key.
LEMMA ThreadStep ==
    ASSUME TierTypes, Next
    PROVE  ThreadTypes'
<1>1. ThreadTypes
  BY Zenon DEF TierTypes
<1>2. CASE UNCHANGED <<pc, key>>
  BY <1>1, <1>2, Zenon DEF ThreadTypes
<1>3. ASSUME NEW p \in Procs, Reading(p) \/ Clearing(p)
      PROVE  ThreadTypes'
  <2>1. \E k \in Keys \cup {None}, where \in Places :
            /\ pc' = [pc EXCEPT ![p] = where] /\ key' = [key EXCEPT ![p] = k]
            /\ where # "idle" => k \in Keys
    <3>1. CASE \E k \in Keys : GetLately(p, k) \/ Get(p, k) \/ ClearFunction(p, k)
      BY <3>1, Zenon DEF GetLately, Get, ClearFunction, Call, Places
    <3>2. CASE \/ StampWrites(p) \/ Compare(p) \/ EnsureInitialized(p) \/ StampCheck(p) \/ StampCheckRead(p)
               \/ DiskGet(p) \/ Promote(p) \/ Bump(p) \/ MovedByUs(p)
      <4>1. key[p] \in Keys
        BY <1>1, <3>2, Zenon DEF StampWrites, Compare, EnsureInitialized, StampCheck, StampCheckRead, DiskGet,
                                 Promote, Bump, MovedByUs, At, ThreadTypes
      <4>2. \E where \in Places : Goto(p, where)
        BY <3>2, Zenon DEF StampWrites, Compare, EnsureInitialized, StampCheck, StampCheckRead, DiskGet,
                           Promote, Bump, MovedByUs, Places
      <4> QED
        BY <4>1, <4>2, Zenon DEF Goto, Call
    <3> QED
      BY <1>3, <3>1, <3>2, Zenon DEF Reading, Clearing
  <2> QED
    BY <1>1, <2>1, Zenon DEF ThreadTypes
<1> QED
  BY <1>2, <1>3, Kinds, WriterLeaves, StoringLeaves, CliLeaves, Zenon

\* The directory.
LEMMA DiskStep ==
    ASSUME TierTypes, Next
    PROVE  DiskTypes' /\ stamps \in Nat /\ stamps' \in Nat /\ stamps <= stamps' /\ stamp' \in 0 .. stamps'
<1>1. /\ dir \in BOOLEAN /\ stamps \in Nat /\ stamp \in 0 .. stamps
      /\ entry \in [Keys -> [v : 0 .. stores, alone : BOOLEAN] \cup {None}]
      /\ stamp # NoStamp => dir
      /\ \A k \in Keys : entry[k] # None => dir
  BY Zenon DEF TierTypes, DiskTypes
<1>2. stores \in Nat /\ stores' \in Nat /\ stores <= stores'
  BY ClearStep, Zenon
<1> DEFINE E(n) == [v : 0 .. n, alone : BOOLEAN] \cup {None}
<1>3. E(stores) \subseteq E(stores')
  BY <1>2
<1> DEFINE Sound ==
             /\ dir' \in BOOLEAN /\ stamps' \in {stamps, stamps + 1}
             /\ stamp' \in {stamp, NoStamp} \/ (stamps' = stamps + 1 /\ stamp' = stamps')
             /\ entry' \in [Keys -> E(stores')]
             /\ stamp' # NoStamp => dir'
             /\ \A k \in Keys : entry'[k] # None => dir'
<1>4. SUFFICES Sound
  BY <1>1, <1>2 DEF DiskTypes, NoStamp
<1>5. CASE UNCHANGED <<dir, stamp, stamps, entry>>
  BY <1>1, <1>3, <1>5, Zenon
<1>6. ASSUME NEW p \in Procs, NEW k \in Keys, Land(p, k)
      PROVE  Sound
  <2>1. UNCHANGED <<dir, stamp, stamps>> /\ dir
        /\ entry' = [entry EXCEPT ![k] = [v |-> queue[p][k].v, alone |-> queue[p][k].alone]]
    BY <1>6, Zenon DEF Land
  <2>2. queue[p][k] \in JobOf(stores)
    BY <1>6, Zenon DEF Land, Writing, TierTypes, QueueTypes
  <2>3. [v |-> queue[p][k].v, alone |-> queue[p][k].alone] \in E(stores)
    BY <2>2, Zenon DEF JobOf
  <2>4. entry' \in [Keys -> E(stores)]
    BY <1>1, <2>1, <2>3, Zenon
  <2> QED
    BY <1>1, <1>3, <2>1, <2>4, Zenon
<1>7. ASSUME NEW p \in Procs, NEW k \in Keys, Recreate(p, k) \/ RecreateStamp(p, k)
      PROVE  Sound
  BY <1>1, <1>3, <1>7, Zenon DEF Recreate, RecreateStamp, NewStamp
<1>8. ASSUME NEW p \in Procs, EnsureInitialized(p) \/ StampCheck(p)
      PROVE  Sound
  BY <1>1, <1>3, <1>8, Zenon DEF EnsureInitialized, StampCheck, NewStamp
<1>9. ASSUME NEW p \in Procs, DiskGet(p) \/ (\E k \in Keys : ClearFunction(p, k)) \/ Bump(p)
      PROVE  Sound
  <2>1. /\ entry' = entry \/ \E j \in Keys \cup {None} : entry' = [entry EXCEPT ![j] = None]
        /\ UNCHANGED dir
        /\ UNCHANGED <<stamp, stamps>> \/ (NewStamp /\ stamp # NoStamp)
    <3>1. key[p] \in Keys \cup {None}
      BY Zenon DEF TierTypes, ThreadTypes
    <3> QED
      BY <1>9, <3>1, Zenon DEF DiskGet, ClearFunction, Bump, BumpStamp
  <2>2. entry' \in [Keys -> E(stores)] /\ \A k \in Keys : entry'[k] # None => entry[k] # None
    BY <1>1, <2>1, Zenon
  <2> QED
    BY <1>1, <1>3, <2>1, <2>2, Zenon DEF NewStamp
<1>10. CASE Cli
  <2>1. CASE CliRmdir
    <3>1. UNCHANGED <<stamp, stamps, entry>> /\ dir' = (stamp # NoStamp \/ \E k \in Keys : entry[k] # None)
      BY <2>1, Zenon DEF CliRmdir
    <3>2. dir' \in BOOLEAN
      BY <3>1, Zenon
    <3> QED
      BY <1>1, <1>3, <3>1, <3>2, Zenon
  <2>2. CASE CliUnlinkStamp
    <3>1. UNCHANGED <<dir, stamps, entry>> /\ stamp' \in {stamp, NoStamp}
      BY <2>2, Zenon DEF CliUnlinkStamp
    <3> QED
      BY <1>1, <1>3, <3>1, Zenon
  <2>3. CASE CliBump \/ CliList
    <3>1. UNCHANGED <<dir, entry>> /\ (UNCHANGED <<stamp, stamps>> \/ (NewStamp /\ stamp # NoStamp))
      BY <2>3, Zenon DEF CliBump, CliList, BumpStamp, diskVars
    <3> QED
      BY <1>1, <1>3, <3>1, Zenon DEF NewStamp
  <2>4. CASE \E k \in Keys : CliDelete(k) \/ CliUnlink(k)
    <3>1. PICK k \in Keys : CliDelete(k) \/ CliUnlink(k)
      BY <2>4, Zenon
    <3>2. UNCHANGED dir /\ entry' = [entry EXCEPT ![k] = None]
          /\ (UNCHANGED <<stamp, stamps>> \/ (NewStamp /\ entry[k] # None))
      BY <3>1, Zenon DEF CliDelete, CliUnlink
    <3>3. entry' \in [Keys -> E(stores)] /\ \A j \in Keys : entry'[j] # None => entry[j] # None
      BY <1>1, <3>2, Zenon
    <3> QED
      BY <1>1, <1>3, <3>2, <3>3, Zenon DEF NewStamp
  <2> QED
    BY <1>10, <2>1, <2>2, <2>3, <2>4, Zenon DEF Cli
<1>11. ASSUME NEW p \in Procs, Reading(p) \/ Clearing(p) \/ Writer(p)
       PROVE  Sound
  <2>1. CASE \/ \E k \in Keys : \/ GetLately(p, k) \/ Get(p, k) \/ LandFails(p, k)
                                \/ RecreateRead(p, k) \/ RecreateCount(p, k)
             \/ StampWrites(p) \/ Compare(p) \/ StampCheckRead(p) \/ Promote(p) \/ MovedByUs(p)
    <3>1. UNCHANGED <<dir, stamp, stamps, entry>>
      BY <2>1, Zenon DEF GetLately, Get, LandFails, RecreateRead, RecreateCount, StampWrites, Compare,
                         StampCheckRead, Promote, MovedByUs, diskVars
    <3> QED
      BY <1>5, <3>1, Zenon
  <2> QED
    BY <1>6, <1>7, <1>8, <1>9, <1>11, <2>1, Zenon DEF Reading, Clearing, Writer
<1> QED
  BY <1>5, <1>10, <1>11, Kinds, StoringLeaves, Zenon

\* The writes on their way to disk.
LEMMA QueueStep ==
    ASSUME TierTypes, Next
    PROVE  QueueTypes'
<1>1. queue \in [Procs -> [Keys -> JobOf(stores) \cup {None}]]
  BY Zenon DEF TierTypes, QueueTypes
<1>2. stores \in Nat /\ stores' \in Nat /\ stores <= stores'
  BY ClearStep, Zenon
<1>3. JobOf(stores) \subseteq JobOf(stores')
  BY <1>2, KeptGrows, Zenon
<1>4. CASE UNCHANGED queue
  BY <1>1, <1>3, <1>4, Zenon DEF QueueTypes
<1>5. ASSUME NEW p \in Procs, NEW k \in Keys, NEW j \in JobOf(stores') \cup {None},
             queue' = [queue EXCEPT ![p][k] = j]
      PROVE  QueueTypes'
  BY <1>1, <1>3, <1>5 DEF QueueTypes
<1>6. ASSUME NEW p \in Procs, Storing(p)
      PROVE  QueueTypes'
  <2>1. PICK k \in Keys : Set(p, k) \/ SetAlone(p, k) \/ PersistFromMemory(p, k)
    BY <1>6, Zenon DEF Storing
  <2>2. CASE Set(p, k) \/ SetAlone(p, k)
    <3>1. UNCHANGED queue \/ \E b \in BOOLEAN : queue' = [queue EXCEPT ![p][k] = Work(stores + 1, b)]
      BY <2>2, Zenon DEF Set, SetAlone
    <3>2. stores' = stores + 1
      BY <2>2, Zenon DEF Set, SetAlone
    <3>3. \A b \in BOOLEAN : Work(stores + 1, b) \in JobOf(stores')
      BY <1>2, <3>2 DEF Work, JobOf, Tried
    <3> QED
      BY <1>4, <1>5, <3>1, <3>3, Zenon
  <2>3. CASE PersistFromMemory(p, k)
    <3>1. queue' = [queue EXCEPT ![p][k] = Work(ram[p][k].v, FALSE)] /\ ram[p][k] # None /\ stores' = stores
      BY <2>3, Zenon DEF PersistFromMemory
    <3>2. ram[p][k] \in CopyOf(stores)
      BY <3>1, Zenon DEF TierTypes, CopyTypes, Tier
    <3>3. Work(ram[p][k].v, FALSE) \in JobOf(stores')
      BY <3>1, <3>2, Zenon DEF Work, JobOf, CopyOf, Tried
    <3> QED
      BY <1>5, <3>1, <3>3, Zenon
  <2> QED
    BY <2>1, <2>2, <2>3, Zenon
<1>7. ASSUME NEW p \in Procs, Writer(p)
      PROVE  QueueTypes'
  <2>1. PICK k \in Keys : \/ Land(p, k) \/ LandFails(p, k)
                         \/ Recreate(p, k) \/ RecreateStamp(p, k) \/ RecreateRead(p, k) \/ RecreateCount(p, k)
    BY <1>7, Zenon DEF Writer
  <2>2. queue[p][k] \in JobOf(stores) /\ stores' = stores
    <3>1. queue[p][k] # None
      BY <2>1, Zenon DEF Land, LandFails, Recreate, RecreateStamp, RecreateRead, RecreateCount, Writing
    <3> QED
      BY <1>1, <1>7, <3>1, WriterLeaves, Zenon
  <2>3. \E j \in JobOf(stores') \cup {None} : queue' = [queue EXCEPT ![p][k] = j]
    <3>1. CASE Land(p, k) \/ LandFails(p, k)
      BY <3>1, Zenon DEF Land, LandFails
    <3>2. CASE Recreate(p, k) \/ RecreateStamp(p, k) \/ RecreateRead(p, k) \/ RecreateCount(p, k)
      <4>1. \E where \in Tried : queue' = [queue EXCEPT ![p][k].try = where]
        BY <3>2, Zenon DEF Recreate, RecreateStamp, RecreateRead, RecreateCount, Tries, Tried
      <4>2. \A where \in Tried : [queue[p][k] EXCEPT !.try = where] \in JobOf(stores')
        BY <2>2, Zenon DEF JobOf
      <4>3. \A where : [queue EXCEPT ![p][k].try = where] = [queue EXCEPT ![p][k] = [queue[p][k] EXCEPT !.try = where]]
        OBVIOUS
      <4> QED
        BY <4>1, <4>2, <4>3, Zenon
    <3> QED
      BY <2>1, <3>1, <3>2, Zenon
  <2> QED
    BY <1>5, <2>3, Zenon
<1> QED
  BY <1>4, <1>6, <1>7, Kinds, ReadingLeaves, ClearingLeaves, CliLeaves, Zenon

\* What a process knows of its own stamps.
OwnOf(n) == [initialized : BOOLEAN, writes : Nat, written : 0 .. n]

\* Reading back and counting a stamp.
LEMMA OwnStampTypes ==
    ASSUME stamps \in Nat, stamp \in 0 .. stamps, NEW o \in OwnOf(stamps)
    PROVE  /\ ReadBack(o) \in OwnOf(stamps) /\ CountWrite(o) \in OwnOf(stamps)
           /\ [o EXCEPT !.initialized = TRUE] \in OwnOf(stamps)
<1>1. ReadBack(o) \in OwnOf(stamps)
  BY Zenon DEF ReadBack, OwnOf
<1>2. CountWrite(o) \in OwnOf(stamps)
  BY DEF CountWrite, OwnOf
<1>3. [o EXCEPT !.initialized = TRUE] \in OwnOf(stamps)
  BY Zenon DEF OwnOf
<1> QED
  BY <1>1, <1>2, <1>3, Zenon

\* Only the writer and a get change what the process knows of its own stamps.
LEMMA OwnStep ==
    ASSUME TierTypes, Next
    PROVE  own' \in [Procs -> OwnOf(stamps)]
<1>1. own \in [Procs -> OwnOf(stamps)] /\ stamps \in Nat /\ stamp \in 0 .. stamps
  BY Zenon DEF TierTypes, StampTypes, DiskTypes, OwnOf
<1>2. ASSUME NEW p \in Procs, NEW o \in OwnOf(stamps), own' = [own EXCEPT ![p] = o]
      PROVE  own' \in [Procs -> OwnOf(stamps)]
  BY <1>1, <1>2, Zenon
<1>3. \A p \in Procs : /\ ReadBack(own[p]) \in OwnOf(stamps) /\ CountWrite(own[p]) \in OwnOf(stamps)
                       /\ [own[p] EXCEPT !.initialized = TRUE] \in OwnOf(stamps)
                       /\ CountWrite(ReadBack(own[p])) \in OwnOf(stamps)
  <2>1. ASSUME NEW p \in Procs
        PROVE  /\ ReadBack(own[p]) \in OwnOf(stamps) /\ CountWrite(own[p]) \in OwnOf(stamps)
               /\ [own[p] EXCEPT !.initialized = TRUE] \in OwnOf(stamps)
    BY <1>1, OwnStampTypes, Zenon
  <2> QED
    BY <1>1, <2>1, OwnStampTypes, Zenon
<1>4. ASSUME NEW p \in Procs, Writer(p)
      PROVE  own' \in [Procs -> OwnOf(stamps)]
  <2>1. \/ own' = own
        \/ own' = [own EXCEPT ![p] = ReadBack(own[p])]
        \/ own' = [own EXCEPT ![p] = CountWrite(own[p])]
    BY <1>4, Zenon DEF Writer, Land, LandFails, Recreate, RecreateStamp, RecreateRead, RecreateCount
  <2> QED
    BY <1>1, <1>2, <1>3, <2>1, Zenon
<1>5. ASSUME NEW p \in Procs, Reading(p)
      PROVE  own' \in [Procs -> OwnOf(stamps)]
  <2>1. \/ own' = own
        \/ own' = [own EXCEPT ![p] = CountWrite(ReadBack(own[p]))]
        \/ own' = [own EXCEPT ![p] = [own[p] EXCEPT !.initialized = TRUE]]
    <3>1. CASE \/ \E k \in Keys : GetLately(p, k) \/ Get(p, k)
               \/ StampWrites(p) \/ Compare(p) \/ StampCheck(p) \/ DiskGet(p) \/ Promote(p)
      BY <3>1, Zenon DEF GetLately, Get, StampWrites, Compare, StampCheck, DiskGet, Promote
    <3>2. CASE EnsureInitialized(p) \/ StampCheckRead(p)
      BY <3>2, Zenon DEF EnsureInitialized, StampCheckRead
    <3> QED
      BY <1>5, <3>1, <3>2, Zenon DEF Reading
  <2> QED
    BY <1>1, <1>2, <1>3, <2>1, Zenon
<1> QED
  BY <1>1, <1>4, <1>5, Kinds, StoringLeaves, ClearingLeaves, CliLeaves, Zenon

\* What a process remembers of the stamp, and holds on to.
LEMMA StampStep ==
    ASSUME TierTypes, Next
    PROVE  StampTypes'
<1> DEFINE Knows(n) == [generation : (0 .. n) \cup {Unseen}, seen : Nat]
<1>1. /\ watch \in [Procs -> Knows(stamps)] /\ tok \in [Procs -> 0 .. stamps]
      /\ num \in [Procs -> Nat \cup {Unseen}] /\ pc \in [Procs -> Places]
      /\ own \in [Procs -> OwnOf(stamps)]
      /\ \A p \in Procs : pc[p] = "compare" => num[p] \in Nat
  BY Zenon DEF TierTypes, StampTypes, ThreadTypes, OwnOf
<1>2. /\ stamps \in Nat /\ stamps' \in Nat /\ stamps <= stamps'
      /\ stamp' \in 0 .. stamps' /\ stamp \in 0 .. stamps
  BY DiskStep, Zenon DEF TierTypes, DiskTypes
<1>3. 0 .. stamps \subseteq 0 .. stamps' /\ 0 \in 0 .. stamps' /\ 0 \in 0 .. stamps
  BY <1>2
<1>4. Knows(stamps) \subseteq Knows(stamps') /\ OwnOf(stamps) \subseteq OwnOf(stamps')
  BY <1>3, Zenon DEF OwnOf
<1> DEFINE Read ==
             /\ watch' \in [Procs -> Knows(stamps)] /\ tok' \in [Procs -> 0 .. stamps]
             /\ num' \in [Procs -> Nat \cup {Unseen}]
             /\ \A p \in Procs : pc'[p] = "compare" => num'[p] \in Nat
<1>5. SUFFICES Read
  <2>1. own' \in [Procs -> OwnOf(stamps')]
    BY <1>4, OwnStep, Zenon
  <2>2. watch' \in [Procs -> Knows(stamps')] /\ tok' \in [Procs -> 0 .. stamps']
    BY <1>3, <1>4, Zenon
  <2> QED
    BY <2>1, <2>2, Zenon DEF StampTypes, OwnOf
<1>6. CASE UNCHANGED <<watch, tok, num, pc>>
  BY <1>1, <1>6, Zenon
<1>7. ASSUME NEW p \in Procs, UNCHANGED <<watch, num>>, tok' \in {tok, [tok EXCEPT ![p] = stamp]},
             NEW where, pc' = [pc EXCEPT ![p] = where], where # "compare"
      PROVE  Read
  BY <1>1, <1>2, <1>7, Zenon
<1>8. ASSUME NEW p \in Procs, NEW k \in Keys, GetLately(p, k) \/ Get(p, k) \/ ClearFunction(p, k)
      PROVE  Read
  <2>1. UNCHANGED <<watch, num>> /\ tok' \in {tok, [tok EXCEPT ![p] = stamp]}
    BY <1>8, Zenon DEF GetLately, Get, ClearFunction
  <2>2. PICK where \in {"disk", "writes", "bump"} : pc' = [pc EXCEPT ![p] = where]
    BY <1>8, Zenon DEF GetLately, Get, ClearFunction, Call
  <2> QED
    BY <1>7, <2>1, <2>2, Zenon
<1>9. ASSUME NEW p \in Procs, EnsureInitialized(p) \/ StampCheck(p) \/ StampCheckRead(p) \/ DiskGet(p) \/ Promote(p)
      PROVE  Read
  <2>1. PICK where \in {"stamp", "written", "disk", "promote", "idle"} : pc' = [pc EXCEPT ![p] = where]
    BY <1>9, Zenon DEF EnsureInitialized, StampCheck, StampCheckRead, DiskGet, Promote, Goto, Call
  <2>2. UNCHANGED <<watch, num, tok>>
    BY <1>9, Zenon DEF EnsureInitialized, StampCheck, StampCheckRead, DiskGet, Promote
  <2> QED
    BY <1>7, <2>1, <2>2, Zenon
<1>10. ASSUME NEW p \in Procs, StampWrites(p)
       PROVE  Read
  <2>1. /\ UNCHANGED <<watch, tok>> /\ num' = [num EXCEPT ![p] = own[p].writes]
        /\ pc' = [pc EXCEPT ![p] = "compare"]
    BY <1>10, Zenon DEF StampWrites, Goto, Call
  <2>2. own[p].writes \in Nat
    BY <1>1, Zenon DEF OwnOf
  <2>3. num'[p] \in Nat /\ \A q \in Procs \ {p} : num'[q] = num[q] /\ pc'[q] = pc[q]
    BY <1>1, <2>1, <2>2, Zenon
  <2>4. num' \in [Procs -> Nat \cup {Unseen}]
    BY <1>1, <2>1, <2>2, Zenon
  <2> QED
    BY <1>1, <2>1, <2>3, <2>4, Zenon
<1>11. ASSUME NEW p \in Procs, Bump(p)
       PROVE  Read
  <2>1. /\ UNCHANGED <<watch, tok>> /\ pc' = [pc EXCEPT ![p] = "moved"]
        /\ num' = [num EXCEPT ![p] = IF stamp = tok[p] THEN stamp' ELSE Unseen]
    BY <1>11, Zenon DEF Bump, Goto, Call
  <2>2. stamp' \in Nat
    BY <1>2
  <2>3. num' \in [Procs -> Nat \cup {Unseen}] /\ pc'[p] = "moved"
        /\ \A q \in Procs \ {p} : num'[q] = num[q] /\ pc'[q] = pc[q]
    BY <1>1, <2>1, <2>2, Zenon
  <2>4. \A q \in Procs : pc'[q] = "compare" => num'[q] \in Nat
    BY <1>1, <2>3, Zenon
  <2> QED
    BY <1>1, <2>1, <2>3, <2>4, Zenon
<1>12. ASSUME NEW p \in Procs, Compare(p) \/ MovedByUs(p)
       PROVE  Read
  <2>1. PICK where \in {"idle", "disk"} : pc' = [pc EXCEPT ![p] = where]
    BY <1>12, Zenon DEF Compare, MovedByUs, Goto, Call
  <2>2. tok' = [tok EXCEPT ![p] = NoStamp] /\ num' = [num EXCEPT ![p] = 0]
    BY <1>12, Zenon DEF Compare, MovedByUs
  <2>3. tok' \in [Procs -> 0 .. stamps]
    BY <1>1, <1>3, <2>2, Zenon DEF NoStamp
  <2>4. num' \in [Procs -> Nat \cup {Unseen}] /\ \A q \in Procs : pc'[q] = "compare" => num'[q] \in Nat
    <3>1. pc'[p] = where /\ \A q \in Procs \ {p} : num'[q] = num[q] /\ pc'[q] = pc[q]
      BY <1>1, <2>1, <2>2, Zenon
    <3>2. num' \in [Procs -> Nat \cup {Unseen}]
      BY <1>1, <2>2
    <3> QED
      BY <1>1, <3>1, <3>2, Zenon
  <2>5. watch' \in [Procs -> Knows(stamps)]
    <3>1. CASE Compare(p)
      <4>1. watch' = [watch EXCEPT ![p] = [generation |-> tok[p], seen |-> num[p]]]
        BY <3>1, Zenon DEF Compare
      <4>2. tok[p] \in 0 .. stamps /\ num[p] \in Nat
        BY <1>1, <3>1, Zenon DEF Compare, At
      <4>3. [generation |-> tok[p], seen |-> num[p]] \in Knows(stamps)
        BY <4>2, Zenon
      <4> QED
        BY <1>1, <4>1, <4>3, Zenon
    <3>2. CASE MovedByUs(p)
      <4>1. watch' = watch \/ watch' = [watch EXCEPT ![p] = [watch[p] EXCEPT !.generation = stamp]]
        BY <3>2, Zenon DEF MovedByUs
      <4>2. [watch[p] EXCEPT !.generation = stamp] \in Knows(stamps)
        BY <1>1, <1>2, Zenon
      <4> QED
        BY <1>1, <4>1, <4>2, Zenon
    <3> QED
      BY <1>12, <3>1, <3>2, Zenon
  <2> QED
    BY <2>3, <2>4, <2>5, Zenon
<1>13. CASE Cli \/ \E p \in Procs : Writer(p) \/ Storing(p)
  BY <1>6, <1>13, CliLeaves, WriterLeaves, StoringLeaves, Zenon
<1> HIDE DEF Read
<1> QED
  BY <1>8, <1>9, <1>10, <1>11, <1>12, <1>13, Kinds, Zenon DEF Reading, Clearing

\* A step that stores or promotes nothing leaves copies out or leaves them with
\* their versions.
Older(tier, n, was) ==
    tier \in Tier(n) /\ \A k \in Keys : tier[k] # None => was[k] # None /\ tier[k].v = was[k].v

\* Marks leave the versions alone.
LEMMA MarkOlder ==
    ASSUME NEW n \in Nat, NEW p \in Procs, ram[p] \in Tier(n), got[p] \in CopyOf(n),
           NEW ks, NEW from, NEW to \in Marks
    PROVE  Older(Mark(p, ks, from, to), n, ram[p]) /\ MarkGot(p, ks, from, to) \in CopyOf(n)
BY MarkTypes DEF Older

\* What Removed leaves of the copies: marks only.
LEMMA Removals ==
    ASSUME TierTypes, NEW ks, NEW from, NEW to \in [Procs -> Marks],
           ram' = [q \in Procs |-> Mark(q, ks, from, to[q])],
           got' = [q \in Procs |-> MarkGot(q, ks, from, to[q])]
    PROVE  /\ ram' = [q \in Procs |-> ram'[q]] /\ got' \in [Procs -> CopyOf(stores)]
           /\ \A q \in Procs : Older(ram'[q], stores, ram[q])
<1>1. /\ ram \in [Procs -> Tier(stores)] /\ got \in [Procs -> CopyOf(stores)] /\ stores \in Nat
  BY DEF TierTypes, CopyTypes, ClearTypes
<1>2. ASSUME NEW q \in Procs
      PROVE  Older(Mark(q, ks, from, to[q]), stores, ram[q]) /\ MarkGot(q, ks, from, to[q]) \in CopyOf(stores)
  <2>1. ram[q] \in Tier(stores) /\ got[q] \in CopyOf(stores) /\ to[q] \in Marks
    BY <1>1, Zenon
  <2> QED
    BY <1>1, <2>1, MarkOlder, Zenon
<1> QED
  BY <1>2, Zenon

\* `cash clear' makes no version and moves no copy.
LEMMA CliCopies ==
    ASSUME TierTypes, Cli
    PROVE  /\ ram' = [q \in Procs |-> ram'[q]] /\ got' \in [Procs -> CopyOf(stores)]
           /\ \A q \in Procs : Older(ram'[q], stores, ram[q])
<1>1. /\ ram \in [Procs -> Tier(stores)] /\ got \in [Procs -> CopyOf(stores)]
  BY Zenon DEF TierTypes, CopyTypes
<1>2. CASE UNCHANGED <<ram, got>>
  BY <1>1, <1>2, Zenon DEF Older
<1>3. ASSUME NEW ks, Remove(ks)
      PROVE  /\ ram' = [q \in Procs |-> ram'[q]] /\ got' \in [Procs -> CopyOf(stores)]
             /\ \A q \in Procs : Older(ram'[q], stores, ram[q])
  <2> DEFINE to == [q \in Procs |-> "removed"]
  <2>1. to \in [Procs -> Marks]
    BY Zenon DEF Marks
  <2>2. /\ ram' = [q \in Procs |-> Mark(q, ks, "none", to[q])]
        /\ got' = [q \in Procs |-> MarkGot(q, ks, "none", to[q])]
    BY <1>3, Zenon DEF Remove
  <2> HIDE DEF to
  <2> QED
    BY <2>1, <2>2, Removals, Zenon
<1>4. ASSUME NEW ks, Tell(ks)
      PROVE  /\ ram' = [q \in Procs |-> ram'[q]] /\ got' \in [Procs -> CopyOf(stores)]
             /\ \A q \in Procs : Older(ram'[q], stores, ram[q])
  <2> DEFINE to == [q \in Procs |-> MovedFor(q)]
  <2>1. to \in [Procs -> Marks]
    BY Zenon DEF Marks, MovedFor
  <2>2. /\ ram' = [q \in Procs |-> Mark(q, ks, "removed", to[q])]
        /\ got' = [q \in Procs |-> MarkGot(q, ks, "removed", to[q])]
    BY <1>4, Zenon DEF Tell
  <2> HIDE DEF to
  <2> QED
    BY <2>1, <2>2, Removals, Zenon
<1>5. UNCHANGED <<ram, got>> \/ (\E ks : Remove(ks)) \/ (\E ks : Tell(ks))
  BY Zenon DEF Cli, CliDelete, CliBump, CliList, CliUnlink, CliUnlinkStamp, CliRmdir
<1> QED
  BY <1>2, <1>3, <1>4, <1>5, Zenon

\* Nor does cache_clear, which drops its own process's copy.
LEMMA ClearingCopies ==
    ASSUME TierTypes, NEW p \in Procs, Clearing(p)
    PROVE  /\ ram' = [q \in Procs |-> ram'[q]] /\ got' \in [Procs -> CopyOf(stores)]
           /\ \A q \in Procs : Older(ram'[q], stores, ram[q])
<1>1. /\ ram \in [Procs -> Tier(stores)] /\ got \in [Procs -> CopyOf(stores)] /\ stores \in Nat
  BY DEF TierTypes, CopyTypes, ClearTypes
<1>2. ASSUME NEW q \in Procs, NEW ks, NEW from, NEW to \in Marks
      PROVE  Older(Mark(q, ks, from, to), stores, ram[q]) /\ MarkGot(q, ks, from, to) \in CopyOf(stores)
  <2>1. ram[q] \in Tier(stores) /\ got[q] \in CopyOf(stores)
    BY <1>1, Zenon
  <2> QED
    BY <1>1, <2>1, MarkOlder, Zenon
<1>3. "removed" \in Marks /\ "none" \in Marks /\ \A q \in Procs : MovedFor(q) \in Marks
  BY Zenon DEF Marks, MovedFor
<1>4. CASE \E k \in Keys : ClearFunction(p, k)
  <2>1. PICK k \in Keys : ClearFunction(p, k)
    BY <1>4, Zenon
  <2>2. /\ ram' = [q \in Procs |-> IF q = p THEN [ram[p] EXCEPT ![k] = None] ELSE Mark(q, {k}, "none", "removed")]
        /\ got' = [q \in Procs |-> MarkGot(q, {k}, "none", "removed")]
    BY <2>1, Zenon DEF ClearFunction
  <2>3. Older([ram[p] EXCEPT ![k] = None], stores, ram[p])
    BY <1>1, Zenon DEF Older, Tier
  <2> QED
    BY <1>2, <1>3, <2>2, <2>3, Zenon
<1>5. CASE Bump(p)
  <2>1. /\ ram' = [q \in Procs |-> IF q = p THEN ram[p] ELSE Mark(q, {key[p]}, "removed", MovedFor(q))]
        /\ got' = [q \in Procs |-> MarkGot(q, {key[p]}, "removed", MovedFor(q))]
    BY <1>5, Zenon DEF Bump
  <2>2. Older(ram[p], stores, ram[p])
    BY <1>1, Zenon DEF Older
  <2> QED
    BY <1>2, <1>3, <2>1, <2>2, Zenon
<1>6. CASE MovedByUs(p)
  <2>1. UNCHANGED got /\ (ram' = ram \/ ram' = [ram EXCEPT ![p] = Mark(p, Keys, "told", "none")])
    BY <1>6, Zenon DEF MovedByUs
  <2>2. \A q \in Procs : Older(ram[q], stores, ram[q])
    BY <1>1, Zenon DEF Older
  <2>3. Older(Mark(p, Keys, "told", "none"), stores, ram[p])
    BY <1>2, <1>3, Zenon
  <2> QED
    BY <1>1, <2>1, <2>2, <2>3, Zenon
<1> QED
  BY <1>4, <1>5, <1>6, Zenon DEF Clearing

\* Nor does a read, which drops copies at a look, and brings one from disk.
LEMMA ReadingCopies ==
    ASSUME TierTypes, NEW p \in Procs, Reading(p), ~Promote(p)
    PROVE  /\ ram' = [q \in Procs |-> ram'[q]] /\ got' \in [Procs -> CopyOf(stores)]
           /\ \A q \in Procs : Older(ram'[q], stores, ram[q])
<1>1. /\ ram \in [Procs -> Tier(stores)] /\ got \in [Procs -> CopyOf(stores)] /\ stores \in Nat
  BY DEF TierTypes, CopyTypes, ClearTypes
<1>2. \A q \in Procs : Older(ram[q], stores, ram[q])
  BY <1>1, Zenon DEF Older
<1>3. CASE \E k \in Keys : Get(p, k)
  <2>1. /\ UNCHANGED got
        /\ ram' = [ram EXCEPT ![p] = ram[p]] \/ ram' = [ram EXCEPT ![p] = Mark(p, Keys, "told", "due")]
    BY <1>3, Zenon DEF Get
  <2>2. ram[p] \in Tier(stores) /\ got[p] \in CopyOf(stores) /\ "due" \in Marks
    BY <1>1, Zenon DEF Marks
  <2>3. Older(Mark(p, Keys, "told", "due"), stores, ram[p])
    BY <1>1, <2>2, MarkOlder, Zenon
  <2> QED
    BY <1>1, <1>2, <2>1, <2>3, Zenon
<1>4. CASE Compare(p)
  <2>1. UNCHANGED got /\ (ram' = ram \/ ram' = [ram EXCEPT ![p] = [k \in Keys |-> None]])
    BY <1>4, Zenon DEF Compare
  <2>2. Older([k \in Keys |-> None], stores, ram[p])
    BY Zenon DEF Older, Tier
  <2> QED
    BY <1>1, <1>2, <2>1, <2>2, Zenon
<1>5. CASE DiskGet(p)
  <2>1. /\ UNCHANGED ram
        /\ \/ UNCHANGED got
           \/ entry[key[p]] # None /\ got' = [got EXCEPT ![p] = [NoCopy EXCEPT !.v = entry[key[p]].v]]
    BY <1>5, Zenon DEF DiskGet
  <2>2. key[p] \in Keys
    BY <1>5, Zenon DEF TierTypes, ThreadTypes, DiskGet, At
  <2>3. entry[key[p]] # None => entry[key[p]].v \in 0 .. stores
    BY <2>2, Zenon DEF TierTypes, DiskTypes
  <2>4. \A v \in 0 .. stores : [NoCopy EXCEPT !.v = v] \in CopyOf(stores)
    BY Zenon DEF NoCopy, CopyOf, Marks
  <2> QED
    BY <1>1, <1>2, <2>1, <2>3, <2>4, Zenon
<1>6. CASE \/ \E k \in Keys : GetLately(p, k)
           \/ StampWrites(p) \/ EnsureInitialized(p) \/ StampCheck(p) \/ StampCheckRead(p)
  <2>1. UNCHANGED <<ram, got>>
    BY <1>6, Zenon DEF GetLately, StampWrites, EnsureInitialized, StampCheck, StampCheckRead
  <2> QED
    BY <1>1, <1>2, <2>1, Zenon
<1> QED
  BY <1>3, <1>4, <1>5, <1>6, Zenon DEF Reading

\* Nor does the writer, which marks copies when it reads back its stamp.
LEMMA WriterCopies ==
    ASSUME TierTypes, NEW p \in Procs, Writer(p)
    PROVE  /\ ram' = [q \in Procs |-> ram'[q]] /\ got' \in [Procs -> CopyOf(stores)]
           /\ \A q \in Procs : Older(ram'[q], stores, ram[q])
<1>1. /\ ram \in [Procs -> Tier(stores)] /\ got \in [Procs -> CopyOf(stores)] /\ stores \in Nat
  BY DEF TierTypes, CopyTypes, ClearTypes
<1>2. \A q \in Procs : Older(ram[q], stores, ram[q])
  BY <1>1, Zenon DEF Older
<1>3. UNCHANGED got /\ (ram' = ram \/ ram' = [ram EXCEPT ![p] = Mark(p, Keys, "due", "told")])
  BY Zenon DEF Writer, Land, LandFails, Recreate, RecreateStamp, RecreateRead, RecreateCount, threadVars
<1>4. ram[p] \in Tier(stores) /\ got[p] \in CopyOf(stores) /\ "told" \in Marks
  BY <1>1, Zenon DEF Marks
<1>5. Older(Mark(p, Keys, "due", "told"), stores, ram[p])
  BY <1>1, <1>4, MarkOlder, Zenon
<1> QED
  BY <1>1, <1>2, <1>3, <1>5, Zenon

\* What Set and SetAlone leave in the RAM tier, and promotion: the new copy,
\* older ones of other keys, or (the RAM tier failed) what was there.
LEMMA StoringCopies ==
    ASSUME TierTypes, NEW p \in Procs, Storing(p)
    PROVE  \E tier \in Tier(stores') : ram' = [ram EXCEPT ![p] = tier]
<1>1. /\ ram \in [Procs -> Tier(stores)] /\ stores \in Nat
  BY DEF TierTypes, CopyTypes, ClearTypes
<1>2. ram[p] \in Tier(stores)
  BY <1>1, Zenon
<1>3. PICK k \in Keys : Set(p, k) \/ SetAlone(p, k) \/ PersistFromMemory(p, k)
  BY Zenon DEF Storing
<1>4. CASE Set(p, k)
  <2>1. PICK b \in BOOLEAN : \E tier \in RamSet(p, k, NewCopy(b)) : ram' = [ram EXCEPT ![p] = tier]
    BY <1>4, Zenon DEF Set
  <2>2. stores' = stores + 1
    BY <1>4, Zenon DEF Set
  <2>3. NewCopy(b) \in CopyOf(stores') /\ stores' \in Nat /\ stores <= stores'
    BY <1>1, <2>2 DEF NewCopy, CopyOf, Marks
  <2>4. ram[p] \in Tier(stores')
    BY <1>1, <1>2, <2>3, KeptGrows, Zenon
  <2> QED
    BY <2>1, <2>3, <2>4, RamSetTypes, Zenon
<1>5. CASE SetAlone(p, k)
  <2>1. ram' = [ram EXCEPT ![p][k] = None] /\ stores' = stores + 1
    BY <1>5, Zenon DEF SetAlone
  <2>2. ram[p] \in Tier(stores')
    BY <1>1, <1>2, <2>1, KeptGrows
  <2>3. [ram[p] EXCEPT ![k] = None] \in Tier(stores')
    BY <2>2, Zenon DEF Tier
  <2> QED
    BY <2>1, <2>3, Zenon
<1>6. CASE PersistFromMemory(p, k)
  <2>1. ram' = [ram EXCEPT ![p][k].kept = TRUE] /\ stores' = stores /\ ram[p][k] # None
    BY <1>6, Zenon DEF PersistFromMemory
  <2>2. ram[p][k] \in CopyOf(stores)
    BY <1>2, <2>1, Zenon DEF Tier
  <2>3. [ram[p][k] EXCEPT !.kept = TRUE] \in CopyOf(stores)
    BY <2>2, Zenon DEF CopyOf
  <2>4. [ram[p] EXCEPT ![k] = [ram[p][k] EXCEPT !.kept = TRUE]] \in Tier(stores)
    BY <1>2, <2>3, Zenon DEF Tier
  <2>5. ram' = [ram EXCEPT ![p] = [ram[p] EXCEPT ![k] = [ram[p][k] EXCEPT !.kept = TRUE]]]
    BY <2>1, Zenon
  <2> QED
    BY <2>1, <2>4, <2>5, Zenon
<1> QED
  BY <1>3, <1>4, <1>5, <1>6, Zenon

\* Copies.
LEMMA CopyStep ==
    ASSUME TierTypes, Next
    PROVE  CopyTypes'
<1>1. /\ ram \in [Procs -> Tier(stores)] /\ got \in [Procs -> CopyOf(stores)] /\ stores \in Nat
  BY DEF TierTypes, CopyTypes, ClearTypes
<1>2. stores' \in Nat /\ stores <= stores'
  BY ClearStep, Zenon
<1>3. ASSUME stores' = stores, ram' = [q \in Procs |-> ram'[q]], got' \in [Procs -> CopyOf(stores)],
             \A q \in Procs : Older(ram'[q], stores, ram[q])
      PROVE  CopyTypes'
  BY <1>3, Zenon DEF CopyTypes, Older
<1>4. CASE Cli
  BY <1>3, <1>4, CliCopies, CliLeaves, Zenon
<1>5. ASSUME NEW p \in Procs, Clearing(p)
      PROVE  CopyTypes'
  BY <1>3, <1>5, ClearingCopies, ClearingLeaves, Zenon
<1>6. ASSUME NEW p \in Procs, Reading(p), ~Promote(p)
      PROVE  CopyTypes'
  BY <1>3, <1>6, ReadingCopies, ReadingLeaves, Zenon
<1>7. ASSUME NEW p \in Procs, Promote(p)
      PROVE  CopyTypes'
  <2>1. /\ ram' = ram \/ \E tier \in RamSet(p, key[p], got[p]) : ram' = [ram EXCEPT ![p] = tier]
        /\ got' = [got EXCEPT ![p] = NoCopy] /\ stores' = stores
    BY <1>7, Zenon DEF Promote
  <2>2. key[p] \in Keys
    BY <1>7, Zenon DEF TierTypes, ThreadTypes, Promote, At
  <2>3. ram[p] \in Tier(stores) /\ got[p] \in CopyOf(stores)
    BY <1>1, Zenon
  <2>4. \A tier \in RamSet(p, key[p], got[p]) : tier \in Tier(stores)
    BY <1>1, <2>2, <2>3, RamSetTypes, Zenon
  <2>5. NoCopy \in CopyOf(stores)
    BY <1>1 DEF NoCopy, CopyOf, Marks
  <2>6. ram' \in [Procs -> Tier(stores)]
    BY <1>1, <2>1, <2>4, Zenon
  <2>7. got' \in [Procs -> CopyOf(stores)]
    BY <1>1, <2>1, <2>5, Zenon
  <2> QED
    BY <2>1, <2>6, <2>7, Zenon DEF CopyTypes
<1>8. ASSUME NEW p \in Procs, Storing(p)
      PROVE  CopyTypes'
  <2>1. ram \in [Procs -> Tier(stores')] /\ got \in [Procs -> CopyOf(stores')]
    BY <1>1, <1>2, KeptGrows, Zenon
  <2>2. UNCHANGED got /\ \E tier \in Tier(stores') : ram' = [ram EXCEPT ![p] = tier]
    BY <1>8, StoringCopies, StoringLeaves, Zenon
  <2> QED
    BY <2>1, <2>2, Zenon DEF CopyTypes
<1>9. ASSUME NEW p \in Procs, Writer(p)
      PROVE  CopyTypes'
  BY <1>3, <1>9, WriterCopies, WriterLeaves, Zenon
<1> QED
  BY <1>4, <1>5, <1>6, <1>7, <1>8, <1>9, Kinds, Zenon

\* The types hold from the start.
LEMMA TierInit == Init => TierTypes
<1> SUFFICES ASSUME Init PROVE TierTypes
  OBVIOUS
<1>1. DiskTypes
  <2>1. \A k \in Keys : entry[k] # None => dir
    BY Zenon DEF Init
  <2>2. entry \in [Keys -> [v : 0 .. stores, alone : BOOLEAN] \cup {None}]
    <3>1. [v |-> 0, alone |-> FALSE] \in [v : 0 .. stores, alone : BOOLEAN]
      <4>1. 0 \in 0 .. stores
        BY DEF Init
      <4> QED
        BY <4>1, Zenon
    <3>2. entry \in [Keys -> {None, [v |-> 0, alone |-> FALSE]}]
      BY Zenon DEF Init
    <3> QED
      BY <3>1, <3>2, Zenon
  <2>3. dir \in BOOLEAN /\ stamps \in Nat /\ stamp \in 0 .. stamps /\ (stamp # NoStamp => dir)
    BY DEF Init, NoStamp
  <2> QED
    BY <2>1, <2>2, <2>3, Zenon DEF DiskTypes
<1>2. CopyTypes
  <2>1. ram \in [Procs -> Tier(stores)]
    BY Zenon DEF Init, Tier
  <2>2. 0 \in 0 .. stores
    BY DEF Init
  <2>3. NoCopy \in CopyOf(stores)
    BY <2>2, Zenon DEF NoCopy, CopyOf, Marks
  <2>4. got \in [Procs -> CopyOf(stores)]
    BY <2>3, Zenon DEF Init
  <2> QED
    BY <2>1, <2>4, Zenon DEF CopyTypes
<1>3. QueueTypes
  BY Zenon DEF Init, QueueTypes
<1>4. StampTypes
  BY DEF Init, StampTypes, NoStamp
<1>5. ThreadTypes
  BY Zenon DEF Init, ThreadTypes, Places
<1>6. ClearTypes
  <2>1. cli \in [at : {"idle", "bump", "unlink", "rmdir"}, names : SUBSET Keys, stamped : BOOLEAN]
    BY Zenon DEF Init, CliIdle
  <2>2. stores \in 0 .. MaxStores /\ clears \in [ClearKinds -> Nat]
    BY TieredAssumption DEF Init
  <2> QED
    BY <2>1, <2>2, Zenon DEF ClearTypes
<1> QED
  BY <1>1, <1>2, <1>3, <1>4, <1>5, <1>6, Zenon DEF TierTypes

\* Every step keeps the types.
LEMMA TierNext == TierTypes /\ [Next]_vars => TierTypes'
<1>1. CASE UNCHANGED vars
  <2>1. UNCHANGED <<dir, stamp, stamps, entry, ram, queue, own, stores, cli, clears, watch, pc, key, got, tok, num>>
    BY <1>1, Zenon DEF vars, diskVars, threadVars
  <2> QED
    BY <2>1, Zenon DEF TierTypes, DiskTypes, CopyTypes, QueueTypes, StampTypes, ThreadTypes, ClearTypes
<1> QED
  BY <1>1, ClearStep, ThreadStep, DiskStep, QueueStep, StampStep, CopyStep, Zenon DEF TierTypes

\* The types; and no stamp and no entry outlives its directory.
THEOREM TieredTyped == Spec => []TypeOK
<1>1. TierTypes => TypeOK
  <2> SUFFICES ASSUME TierTypes PROVE TypeOK
    OBVIOUS
  <2>1. stores \in Nat /\ stores <= MaxStores /\ MaxStores \in Nat
    BY TieredAssumption DEF TierTypes, ClearTypes
  <2>2. 0 .. stores \subseteq Versions
    BY <2>1 DEF Versions
  <2>3. /\ dir \in BOOLEAN /\ stamps \in Nat /\ stamp \in Tokens
        /\ stamp # NoStamp \/ (\E k \in Keys : entry[k] # None) => dir
    BY Zenon DEF TierTypes, DiskTypes, Tokens, NoStamp
  <2>4. entry \in [Keys -> [v : Versions, alone : BOOLEAN] \cup {None}]
    BY <2>2, Zenon DEF TierTypes, DiskTypes
  <2>5. CopyOf(stores) \subseteq Copies
    BY <2>2, Zenon DEF CopyOf, Copies, Marks
  <2>6. ram \in [Procs -> [Keys -> Copies \cup {None}]] /\ got \in [Procs -> Copies]
    BY <2>5, Zenon DEF TierTypes, CopyTypes, Tier
  <2>7. JobOf(stores) \subseteq [v : Versions, alone : BOOLEAN, try : Tried]
    BY <2>2, Zenon DEF JobOf
  <2>8. queue \in [Procs -> [Keys -> [v : Versions, alone : BOOLEAN, try : Tried] \cup {None}]]
    BY <2>7 DEF TierTypes, QueueTypes
  <2>9. /\ watch \in [Procs -> [generation : Tokens \cup {Unseen}, seen : Nat]]
        /\ own \in [Procs -> [initialized : BOOLEAN, writes : Nat, written : Tokens]]
        /\ tok \in [Procs -> Tokens] /\ num \in [Procs -> Nat \cup {Unseen}]
    BY Zenon DEF TierTypes, StampTypes, Tokens, NoStamp
  <2>10. /\ pc \in [Procs -> {"idle", "writes", "compare", "disk", "stamp", "written", "promote", "bump", "moved"}]
         /\ key \in [Procs -> Keys \cup {None}]
    BY Zenon DEF TierTypes, ThreadTypes, Places
  <2>11. /\ cli \in [at : {"idle", "bump", "unlink", "rmdir"}, names : SUBSET Keys, stamped : BOOLEAN]
         /\ stores \in Versions /\ clears \in [ClearKinds -> Nat]
    BY Zenon DEF TierTypes, ClearTypes, Versions
  <2> QED
    BY <2>3, <2>4, <2>6, <2>8, <2>9, <2>10, <2>11, Zenon DEF TypeOK
<1> QED
  BY <1>1, TierInit, TierNext, PTL DEF Spec

\* A step that stores and promotes nothing.
LEMMA OwnStays ==
    ASSUME TierTypes, OwnStore,
           \A q \in Procs, k \in Keys : ram'[q][k] # None => ram[q][k] # None /\ ram'[q][k].v = ram[q][k].v,
           \A q \in Procs, k \in Keys : queue'[q][k] # None => queue[q][k] # None /\ queue'[q][k].v = queue[q][k].v,
           \A q \in Procs : pc'[q] = "promote" => \/ pc[q] = "promote" /\ key'[q] = key[q]
                                                  \/ queue[q][key'[q]] = None
    PROVE  OwnStore'
<1> SUFFICES ASSUME NEW p \in Procs, NEW k \in Keys, queue'[p][k] # None
             PROVE  /\ ram'[p][k] # None => ram'[p][k].v >= queue'[p][k].v
                    /\ ~(pc'[p] = "promote" /\ key'[p] = k)
  BY Zenon DEF OwnStore
<1>1. queue[p][k] # None /\ queue'[p][k].v = queue[p][k].v
  OBVIOUS
<1>2. ram[p][k] # None => ram[p][k].v >= queue[p][k].v
  BY <1>1, Zenon DEF OwnStore
<1>3. ~(pc[p] = "promote" /\ key[p] = k)
  BY <1>1, Zenon DEF OwnStore
<1>4. ram'[p][k] # None => ram[p][k] # None /\ ram'[p][k].v = ram[p][k].v
  OBVIOUS
<1>5. pc'[p] = "promote" => (pc[p] = "promote" /\ key'[p] = key[p]) \/ queue[p][key'[p]] = None
  OBVIOUS
<1>6. ram'[p][k] # None => ram'[p][k].v >= queue'[p][k].v
  <2> HIDE DEF OwnStore, TierTypes
  <2> QED
    BY <1>1, <1>2, <1>4, Zenon
<1> QED
  BY <1>1, <1>3, <1>5, <1>6, Zenon

\* Every step keeps a process's stores in sight of its reads, while the RAM tier
\* raises no error.
LEMMA OwnNext == ~RamMayFail /\ TierTypes /\ OwnStore /\ [Next]_vars => OwnStore'
<1> SUFFICES ASSUME ~RamMayFail, TierTypes, OwnStore, [Next]_vars PROVE OwnStore'
  OBVIOUS
<1>1. /\ ram \in [Procs -> Tier(stores)] /\ got \in [Procs -> CopyOf(stores)] /\ stores \in Nat
      /\ pc \in [Procs -> Places] /\ key \in [Procs -> Keys \cup {None}]
      /\ queue \in [Procs -> [Keys -> JobOf(stores) \cup {None}]]
      /\ \A p \in Procs : pc[p] # "idle" => key[p] \in Keys
  BY DEF TierTypes, CopyTypes, ClearTypes, ThreadTypes, QueueTypes
<1>2. CASE Cli
  <2>1. UNCHANGED <<queue, pc, key>>
    BY <1>2, CliLeaves, Zenon
  <2>2. \A q \in Procs : Older(ram'[q], stores, ram[q])
    BY <1>2, CliCopies, Zenon
  <2> QED
    BY <2>1, <2>2, OwnStays, Zenon DEF Older
<1>3. ASSUME NEW p \in Procs, Clearing(p) \/ (Reading(p) /\ ~Promote(p))
      PROVE  OwnStore'
  <2>1. UNCHANGED queue
    BY <1>3, ReadingLeaves, ClearingLeaves, Zenon
  <2>2. \A q \in Procs : Older(ram'[q], stores, ram[q])
    BY <1>3, ReadingCopies, ClearingCopies, Zenon
  <2>3. \A q \in Procs : pc'[q] = "promote" => \/ pc[q] = "promote" /\ key'[q] = key[q]
                                               \/ queue[q][key'[q]] = None
    <3>1. PICK k, where : /\ pc' = [pc EXCEPT ![p] = where] /\ key' = [key EXCEPT ![p] = k]
                          /\ where # "promote" \/ (queue[p][key[p]] = None /\ k = key[p])
      <4>1. CASE (\E k \in Keys : GetLately(p, k) \/ Get(p, k) \/ ClearFunction(p, k))
        <5>1. PICK j \in Keys : GetLately(p, j) \/ Get(p, j) \/ ClearFunction(p, j)
          BY <4>1, Zenon
        <5>2. Call(p, j, "disk") \/ Call(p, j, "writes") \/ Call(p, j, "bump")
          BY <5>1, Zenon DEF GetLately, Get, ClearFunction
        <5> QED
          BY <5>2 DEF Call
      <4>2. CASE \/ StampWrites(p) \/ Compare(p) \/ EnsureInitialized(p) \/ StampCheck(p) \/ StampCheckRead(p)
                 \/ Bump(p) \/ MovedByUs(p)
        <5>1. \E to \in {"idle", "compare", "disk", "stamp", "written", "moved"} : Goto(p, to)
          <6>1. CASE Compare(p)
            BY <6>1, Zenon DEF Compare
          <6>2. CASE EnsureInitialized(p)
            BY <6>2, Zenon DEF EnsureInitialized
          <6>3. CASE StampWrites(p) \/ StampCheck(p) \/ StampCheckRead(p) \/ Bump(p) \/ MovedByUs(p)
            BY <6>3, Zenon DEF StampWrites, StampCheck, StampCheckRead, Bump, MovedByUs
          <6> QED
            BY <4>2, <6>1, <6>2, <6>3, Zenon
        <5> QED
          BY <5>1, Zenon DEF Goto, Call
      <4>3. CASE DiskGet(p)
        BY <4>3 DEF DiskGet, Goto, Call
      <4> QED
        BY <1>3, <4>1, <4>2, <4>3, Zenon DEF Reading, Clearing
    <3>2. pc'[p] = where /\ key'[p] = k /\ \A q \in Procs \ {p} : pc'[q] = pc[q] /\ key'[q] = key[q]
      BY <1>1, <3>1, Zenon
    <3> QED
      BY <3>1, <3>2, Zenon
  <2> QED
    BY <2>1, <2>2, <2>3, OwnStays, Zenon DEF Older
<1>4. ASSUME NEW p \in Procs, Promote(p)
      PROVE  OwnStore'
  <2>1. /\ UNCHANGED queue /\ pc[p] = "promote"
        /\ ram' = ram \/ \E tier \in RamSet(p, key[p], got[p]) : ram' = [ram EXCEPT ![p] = tier]
        /\ pc' = [pc EXCEPT ![p] = "idle"] /\ key' = [key EXCEPT ![p] = None]
    BY <1>4, Zenon DEF Promote, At, Goto, Call
  <2>2. key[p] \in Keys /\ ram[p] \in Tier(stores) /\ got[p] \in CopyOf(stores)
    BY <1>1, <2>1, Zenon
  <2>3. queue[p][key[p]] = None
    BY <2>1, <2>2, Zenon DEF OwnStore
  <2>4. \A tier \in RamSet(p, key[p], got[p]) : \A j \in Keys \ {key[p]} : tier[j] \in {None, ram[p][j]}
    BY <1>1, <2>2, RamSetTypes, Zenon
  <2>5. \A q \in Procs, j \in Keys : q # p \/ j # key[p] => ram'[q][j] \in {None, ram[q][j]}
    BY <1>1, <2>1, <2>4, Zenon
  <2>6. pc'[p] = "idle" /\ \A q \in Procs \ {p} : pc'[q] = pc[q] /\ key'[q] = key[q]
    BY <1>1, <2>1, Zenon
  <2> SUFFICES ASSUME NEW q \in Procs, NEW j \in Keys, queue[q][j] # None
               PROVE  /\ ram'[q][j] # None => ram'[q][j].v >= queue[q][j].v
                      /\ ~(pc'[q] = "promote" /\ key'[q] = j)
    BY <2>1, Zenon DEF OwnStore
  <2>7. ram'[q][j] \in {None, ram[q][j]}
    BY <2>3, <2>5, Zenon
  <2>8. ram'[q][j] # None => ram'[q][j].v >= queue[q][j].v
    BY <2>7, Zenon DEF OwnStore
  <2>9. ~(pc'[q] = "promote" /\ key'[q] = j)
    BY <2>6, Zenon DEF OwnStore
  <2> QED
    BY <2>8, <2>9, Zenon
<1>5. ASSUME NEW p \in Procs, Storing(p)
      PROVE  OwnStore'
  <2>1. PICK k \in Keys : Set(p, k) \/ SetAlone(p, k) \/ PersistFromMemory(p, k)
    BY <1>5, Zenon DEF Storing
  <2>2. UNCHANGED <<pc, key>> /\ pc[p] = "idle"
    BY <1>5, <2>1, StoringLeaves, Zenon DEF Set, SetAlone, PersistFromMemory, CanStore, At
  <2>3. SUFFICES /\ \A q \in Procs, j \in Keys : q # p \/ j # k =>
                        ram'[q][j] \in {None, ram[q][j]} /\ queue'[q][j] = queue[q][j]
                 /\ queue'[p][k] # None /\ ram'[p][k] # None => ram'[p][k].v >= queue'[p][k].v
    BY <2>2, <2>3 DEF OwnStore
  <2>4. ram[p] \in Tier(stores) /\ queue[p][k] \in JobOf(stores) \cup {None}
    BY <1>1, Zenon
  <2>5. CASE Set(p, k)
    <3>1. PICK b \in BOOLEAN :
             /\ \E tier \in RamSet(p, k, NewCopy(b)) : ram' = [ram EXCEPT ![p] = tier]
             /\ queue' = queue \/ queue' = [queue EXCEPT ![p][k] = Work(stores + 1, FALSE)]
      BY <2>5, Zenon DEF Set
    <3>2. PICK tier \in RamSet(p, k, NewCopy(b)) : ram' = [ram EXCEPT ![p] = tier]
      BY <3>1, Zenon
    <3>3. NewCopy(b) \in CopyOf(stores + 1) /\ stores + 1 \in Nat /\ NewCopy(b).v = stores + 1
      BY <1>1 DEF NewCopy, CopyOf, Marks
    <3>4. ram[p] \in Tier(stores + 1)
      BY <1>1, <2>4, <3>3, KeptGrows
    <3>5. tier[k] \in {None, NewCopy(b)} /\ \A j \in Keys \ {k} : tier[j] \in {None, ram[p][j]}
      BY <3>3, <3>4, RamSetTypes, Zenon
    <3>6. ram'[p] = tier /\ \A q \in Procs \ {p} : ram'[q] = ram[q]
      BY <1>1, <3>2, Zenon
    <3>7. queue'[p][k] # None => queue'[p][k].v <= stores + 1 /\ queue'[p][k].v \in Nat
      <4>1. queue'[p][k] \in {queue[p][k], Work(stores + 1, FALSE)}
        <5>1. queue \in [Procs -> [Keys -> JobOf(stores) \cup {None}]]
          BY <1>1, Zenon
        <5>2. CASE queue' = [queue EXCEPT ![p][k] = Work(stores + 1, FALSE)]
          BY <5>1, <5>2, Zenon
        <5> QED
          BY <3>1, <5>2, Zenon
      <4>2. Work(stores + 1, FALSE).v = stores + 1
        BY Zenon DEF Work
      <4>3. queue[p][k] # None => queue[p][k].v \in 0 .. stores
        BY <2>4, Zenon DEF JobOf
      <4>4. CASE queue'[p][k] = queue[p][k]
        BY <1>1, <4>3, <4>4
      <4>5. CASE queue'[p][k] = Work(stores + 1, FALSE)
        <5>1. queue'[p][k].v = stores + 1
          BY <4>2, <4>5, Zenon
        <5> QED
          BY <1>1, <5>1
      <4> QED
        BY <4>1, <4>4, <4>5, Zenon
    <3>8. \A q \in Procs, j \in Keys : q # p \/ j # k => queue'[q][j] = queue[q][j]
      <4>1. queue \in [Procs -> [Keys -> JobOf(stores) \cup {None}]]
        BY <1>1, Zenon
      <4>2. CASE queue' = [queue EXCEPT ![p][k] = Work(stores + 1, FALSE)]
        BY <4>1, <4>2, Zenon
      <4> QED
        BY <3>1, <4>2, Zenon
    <3>9. ram'[p][k] # None => ram'[p][k].v = stores + 1
      BY <3>3, <3>5, <3>6, Zenon
    <3>10. \A q \in Procs, j \in Keys : q # p \/ j # k => ram'[q][j] \in {None, ram[q][j]}
      BY <3>5, <3>6, Zenon
    <3>11. queue'[p][k] # None /\ ram'[p][k] # None => ram'[p][k].v >= queue'[p][k].v
      BY <1>1, <3>7, <3>9, Zenon
    <3> QED
      BY <3>8, <3>10, <3>11, Zenon
  <2>6. CASE SetAlone(p, k)
    <3>1. ram' = [ram EXCEPT ![p][k] = None] /\ \E w : queue' = [queue EXCEPT ![p][k] = w]
      BY <2>6, Zenon DEF SetAlone
    <3>2. ram'[p][k] = None
      BY <1>1, <2>4, <3>1, Zenon DEF Tier
    <3>3. \A q \in Procs, j \in Keys : q # p \/ j # k => ram'[q][j] = ram[q][j] /\ queue'[q][j] = queue[q][j]
      BY <1>1, <3>1 DEF Tier
    <3> QED
      BY <3>2, <3>3, Zenon
  <2>7. CASE PersistFromMemory(p, k)
    <3>1. /\ ram' = [ram EXCEPT ![p][k].kept = TRUE] /\ ram[p][k] # None
          /\ queue' = [queue EXCEPT ![p][k] = Work(ram[p][k].v, FALSE)]
      BY <2>7, Zenon DEF PersistFromMemory
    <3>2. ram[p][k] \in CopyOf(stores)
      BY <2>4, <3>1, Zenon DEF Tier
    <3>3. ram'[p][k] = [ram[p][k] EXCEPT !.kept = TRUE] /\ queue'[p][k] = Work(ram[p][k].v, FALSE)
      BY <1>1, <2>4, <3>1, Zenon DEF Tier
    <3>4. ram'[p][k].v = ram[p][k].v /\ ram[p][k].v \in Nat /\ Work(ram[p][k].v, FALSE).v = ram[p][k].v
      BY <3>2, <3>3 DEF CopyOf, Work
    <3>5. \A q \in Procs, j \in Keys : q # p \/ j # k => ram'[q][j] = ram[q][j] /\ queue'[q][j] = queue[q][j]
      BY <1>1, <3>1, Zenon DEF Tier
    <3>6. ram'[p][k].v >= queue'[p][k].v
      <4>1. queue'[p][k].v = ram[p][k].v
        BY <3>3, <3>4, Zenon
      <4> QED
        BY <3>4, <4>1
    <3> QED
      BY <3>5, <3>6, Zenon
  <2> QED
    BY <2>1, <2>5, <2>6, <2>7, Zenon
<1>6. ASSUME NEW p \in Procs, Writer(p)
      PROVE  OwnStore'
  <2>1. UNCHANGED <<pc, key>> /\ \A q \in Procs : Older(ram'[q], stores, ram[q])
    BY <1>6, WriterLeaves, WriterCopies, Zenon
  <2>2. PICK k \in Keys : /\ queue[p][k] # None
                          /\ \/ queue' = [queue EXCEPT ![p][k] = None]
                             \/ \E where : queue' = [queue EXCEPT ![p][k].try = where]
    BY <1>6, Zenon DEF Writer, Land, LandFails, Recreate, RecreateStamp, RecreateRead, RecreateCount,
                       Writing, Tries
  <2>3. queue[p][k] \in JobOf(stores)
    BY <1>1, <2>2
  <2>4. \A q \in Procs, j \in Keys : q # p \/ j # k => queue'[q][j] = queue[q][j]
    BY <1>1, <2>2
  <2>5. queue'[p][k] = None \/ \E where : queue'[p][k] = [queue[p][k] EXCEPT !.try = where]
    <3>1. CASE queue' = [queue EXCEPT ![p][k] = None]
      BY <1>1, <3>1, Zenon
    <3>2. ASSUME NEW where, queue' = [queue EXCEPT ![p][k].try = where]
          PROVE  queue'[p][k] = [queue[p][k] EXCEPT !.try = where]
      BY <1>1, <3>2, Zenon
    <3> QED
      BY <2>2, <3>1, <3>2, Zenon
  <2>6. queue'[p][k] # None => queue'[p][k].v = queue[p][k].v
    BY <2>3, <2>5, Zenon DEF JobOf
  <2> QED
    BY <2>1, <2>2, <2>4, <2>6, OwnStays, Zenon DEF Older
<1>7. CASE UNCHANGED vars
  <2>1. UNCHANGED <<ram, queue, pc, key>>
    BY <1>7, Zenon DEF vars, threadVars
  <2> QED
    BY <2>1, Zenon DEF OwnStore
<1> QED
  BY <1>2, <1>3, <1>4, <1>5, <1>6, <1>7, Kinds, Zenon

\* A process reads back what it stored: while its write is on its way to disk,
\* its RAM tier holds no older version and no read is about to put one there.
THEOREM ProcessesReadTheirStores == Spec => []ReadsOwnStore
<1>1. CASE RamMayFail
  <2>1. ReadsOwnStore
    BY <1>1, Zenon DEF ReadsOwnStore
  <2>2. []ReadsOwnStore
    BY <1>1, <2>1, PTL
  <2> QED
    BY <2>2, Zenon
<1>2. CASE ~RamMayFail
  <2>1. Init => OwnStore
    BY DEF Init, OwnStore
  <2>2. OwnStore => ReadsOwnStore
    BY Zenon DEF OwnStore, ReadsOwnStore, At
  <2>3. TierTypes /\ OwnStore /\ [Next]_vars => OwnStore'
    BY <1>2, OwnNext, Zenon
  <2> QED
    BY <2>1, <2>2, <2>3, TierInit, TierNext, PTL DEF Spec
<1> QED
  BY <1>1, <1>2, Zenon
=============================================================================
