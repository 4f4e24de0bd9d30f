------------------------------- MODULE TieredProofs -------------------------
(***************************************************************************)
(* Proofs about Tiered, for any processes, keys and number of stores and   *)
(* clears: a clear reaches every process that looks at the stamp after it. *)
(***************************************************************************)
EXTENDS TieredTypeProofs

IsCopy(c) == c = [v |-> c.v, kept |-> c.kept, mark |-> c.mark]
IsJob(j) == j = [v |-> j.v, alone |-> j.alone, try |-> j.try]

Forms ==
    /\ ram = [p \in Procs |-> [k \in Keys |-> ram[p][k]]]
    /\ queue = [p \in Procs |-> [k \in Keys |-> queue[p][k]]]
    /\ got = [p \in Procs |-> got[p]] /\ pc = [p \in Procs |-> pc[p]]
    /\ tok = [p \in Procs |-> tok[p]] /\ num = [p \in Procs |-> num[p]]
    /\ watch \in [Procs -> [generation : Int, seen : Nat]]
    /\ own \in [Procs -> [initialized : BOOLEAN, writes : Nat, written : Nat]]

Shape(p) ==
    /\ \A k \in Keys : ram[p][k] # None => IsCopy(ram[p][k])
    /\ \A k \in Keys : queue[p][k] # None => IsJob(queue[p][k])
    /\ IsCopy(got[p]) /\ got[p].mark # "due"

\* What a process knows of the stamp.
Gen(p) == watch[p].generation
Seen(p) == watch[p].seen
Writes(p) == own[p].writes
Written(p) == own[p].written

\* The process holds, or is about to, a copy it must drop at its next look ...
Told(p) ==
    \/ \E k \in Keys : ram[p][k] # None /\ ram[p][k].mark = "told"
    \/ At(p, "promote") /\ got[p].mark = "told"

\* ... or one it must drop at the look it is taking.
Due(p) == \E k \in Keys : ram[p][k] # None /\ ram[p][k].mark = "due"

\* Its writer has read back the stamp it wrote, and not counted it.
Counting(p) == \E k \in Keys : queue[p][k] # None /\ queue[p][k].try = "count"

\* ClearWatcher.cleared, of a process that knows g, s and w.
Finds(g, s, w, token, n) ==
    \/ n > s /\ (s >= 1 \/ n - s >= 2)
    \/ g > NoStamp /\ token # g
    \/ g <= NoStamp /\ n # s /\ w > NoStamp /\ token # w

\* The order of the numbers, and what a look or a clear holds on to.
Numbers(p) ==
    /\ stamp \in Nat /\ stamps \in Nat /\ stamp <= stamps
    /\ Gen(p) \in Int /\ Seen(p) \in Nat /\ Writes(p) \in Nat /\ Written(p) \in Nat
    /\ tok[p] \in Nat /\ num[p] \in Int
    /\ Gen(p) >= Unseen /\ Gen(p) <= stamps /\ Written(p) <= stamps /\ tok[p] <= stamps
    /\ Seen(p) <= Writes(p)
    /\ At(p, "compare") => Seen(p) <= num[p] /\ num[p] <= Writes(p)
    /\ At(p, "moved") => num[p] <= stamps /\ (num[p] = NoStamp => tok[p] = NoStamp)

\* A process that was told finds the directory cleared at its next look, or,
\* while its own writer is stamping the directory, once that is counted.  The
\* look under way finds it, or leaves a stamp behind that has moved by now, or
\* too low a count; and its own clear does not hide it.  A process for which a
\* copy is due finds the directory cleared at the look under way.
Noticed(p) ==
    /\ (Told(p) \/ Due(p)) /\ Stamping(p) => Writes(p) >= 1 \/ (Gen(p) > NoStamp /\ stamp # Gen(p))
    /\ Told(p) /\ ~Stamping(p) => Finds(Gen(p), Seen(p), Written(p), stamp, Writes(p))
    /\ Told(p) /\ ~Stamping(p) /\ At(p, "compare") /\ tok[p] = stamp =>
         \/ Finds(Gen(p), Seen(p), Written(p), tok[p], num[p])
         \/ Writes(p) > num[p] /\ (Writes(p) >= 2 \/ stamp = NoStamp)
    /\ Told(p) /\ At(p, "moved") /\ Gen(p) = tok[p] /\ stamp = num[p] /\ stamp # NoStamp =>
         /\ Writes(p) >= 1
         /\ Stamping(p) \/ (Writes(p) > Seen(p) /\ (Seen(p) >= 1 \/ Writes(p) - Seen(p) >= 2))
    /\ Due(p) => /\ (At(p, "writes") \/ At(p, "compare")) /\ ~Counting(p)
                 /\ At(p, "writes") => Finds(Gen(p), Seen(p), Written(p), tok[p], Writes(p))
                 /\ At(p, "compare") => Finds(Gen(p), Seen(p), Written(p), tok[p], num[p])

Good(p) == Shape(p) /\ Numbers(p) /\ Noticed(p)
ClearInv == Forms /\ \A p \in Procs : Good(p)

\* Cleared is what the numbers say.
LEMMA ClearedFinds ==
    ASSUME NEW p, Numbers(p), NEW token, NEW n \in Int
    PROVE  /\ Cleared(p, token, n) <=> Finds(Gen(p), Seen(p), Written(p), token, n)
           /\ Remembers(p) <=> Gen(p) > NoStamp \/ (Writes(p) # Seen(p) /\ Written(p) > NoStamp)
BY DEF Numbers, Cleared, Finds, Remembers, NoStamp, Unseen, Gen, Seen, Writes, Written

-----------------------------------------------------------------------------
(* How Noticed survives what happens to the stamp.                         *)

\* The stamp moves to an identity it never had, goes, or stays.
Moves ==
    /\ stamp' \in {stamp, stamps + 1, NoStamp} /\ stamps' \in {stamps, stamps + 1}
    /\ stamp' = stamps + 1 => stamps' = stamps + 1
KnowsTheSame(p) ==
    Gen(p)' = Gen(p) /\ Seen(p)' = Seen(p) /\ Writes(p)' = Writes(p) /\ Written(p)' = Written(p)
WritesTheSame(p) == (Stamping(p)' <=> Stamping(p)) /\ (Counting(p)' <=> Counting(p))
Elsewhere(p) == ~At(p, "writes") /\ ~At(p, "compare") /\ ~At(p, "moved")

\* A process whose thread stays where it is, or away from looks and clears,
\* whose watcher and stamps stay, and whose copies are marked at most.
LEMMA Stays ==
    ASSUME NEW p, Numbers(p), Noticed(p), Moves, KnowsTheSame(p), WritesTheSame(p),
           \/ pc'[p] = pc[p] /\ tok'[p] = tok[p] /\ num'[p] = num[p]
           \/ Elsewhere(p) /\ Elsewhere(p)' /\ tok'[p] \in {tok[p], stamp, NoStamp} /\ num'[p] \in Int,
           Told(p)' => Told(p) \/ (Remembers(p) /\ stamp' \in {NoStamp, stamps + 1}),
           Due(p)' => Due(p)
    PROVE  Numbers(p)' /\ Noticed(p)'
<1> USE DEF Numbers, Moves, KnowsTheSame, WritesTheSame, Elsewhere, At, NoStamp, Unseen
<1>1. Numbers(p)'
  OBVIOUS
<1>2. Told(p)' => \/ Told(p)
                  \/ /\ Gen(p) > NoStamp \/ (Writes(p) # Seen(p) /\ Written(p) > NoStamp)
                     /\ stamp' \in {NoStamp, stamps + 1}
  BY ClearedFinds
<1>3. (Told(p)' \/ Due(p)') /\ Stamping(p) => Writes(p) >= 1 \/ (Gen(p) > NoStamp /\ stamp' # Gen(p))
  BY <1>2 DEF Noticed
<1>4. Told(p)' /\ ~Stamping(p) => Finds(Gen(p), Seen(p), Written(p), stamp', Writes(p))
  BY <1>2 DEF Noticed, Finds
<1>5. Told(p)' /\ ~Stamping(p) /\ At(p, "compare")' /\ tok'[p] = stamp' =>
         \/ Finds(Gen(p), Seen(p), Written(p), tok'[p], num'[p])
         \/ Writes(p) > num'[p] /\ (Writes(p) >= 2 \/ stamp' = NoStamp)
  BY <1>2, <1>4 DEF Noticed, Finds
<1>6. Told(p)' /\ At(p, "moved")' /\ Gen(p) = tok'[p] /\ stamp' = num'[p] /\ stamp' # NoStamp =>
         /\ Writes(p) >= 1
         /\ Stamping(p) \/ (Writes(p) > Seen(p) /\ (Seen(p) >= 1 \/ Writes(p) - Seen(p) >= 2))
  BY <1>2 DEF Noticed
<1>7. Due(p)' => /\ (At(p, "writes") \/ At(p, "compare"))' /\ ~Counting(p)
                 /\ At(p, "writes")' => Finds(Gen(p), Seen(p), Written(p), tok'[p], Writes(p))
                 /\ At(p, "compare")' => Finds(Gen(p), Seen(p), Written(p), tok'[p], num'[p])
  BY DEF Noticed
<1>8. Noticed(p)'
  BY <1>3, <1>4, <1>5, <1>6, <1>7 DEF Noticed
<1> QED
  BY <1>1, <1>8

\* A look begins: it is the look meant, unless the process's writer is
\* stamping the directory.
LEMMA LookBegins ==
    ASSUME NEW p, Numbers(p), Noticed(p), ~Due(p), UNCHANGED <<stamp, stamps>>, KnowsTheSame(p), WritesTheSame(p),
           Counting(p) => Stamping(p),
           At(p, "writes")', tok'[p] = stamp, num'[p] = num[p],
           Told(p)' => Told(p), Due(p)' => Told(p) /\ ~Stamping(p)
    PROVE  Numbers(p)' /\ Noticed(p)'
BY DEF Numbers, Noticed, KnowsTheSame, WritesTheSame, At

\* It reads how often the process has stamped the directory.
LEMMA LookReads ==
    ASSUME NEW p, Numbers(p), Noticed(p), UNCHANGED <<stamp, stamps>>, KnowsTheSame(p), WritesTheSame(p),
           At(p, "writes"), At(p, "compare")', tok'[p] = tok[p], num'[p] = Writes(p),
           Told(p)' => Told(p), Due(p)' => Due(p)
    PROVE  Numbers(p)' /\ Noticed(p)'
<1> USE DEF Numbers, KnowsTheSame, WritesTheSame, At
<1>1. Numbers(p)'
  OBVIOUS
<1>2. Told(p) /\ ~Stamping(p) /\ tok[p] = stamp => Finds(Gen(p), Seen(p), Written(p), tok[p], Writes(p))
  BY DEF Noticed
<1>3. Noticed(p)'
  BY <1>2 DEF Noticed
<1> QED
  BY <1>1, <1>3

\* It ends and finds nothing: the stamp has moved since, or will be found to.
LEMMA LookEnds ==
    ASSUME NEW p, Numbers(p), Noticed(p), UNCHANGED <<stamp, stamps>>, WritesTheSame(p),
           At(p, "compare"), Elsewhere(p)', tok'[p] = NoStamp, num'[p] = 0,
           Gen(p)' = tok[p], Seen(p)' = num[p], Writes(p)' = Writes(p), Written(p)' = Written(p),
           Finds(Gen(p), Seen(p), Written(p), tok[p], num[p]) => ~Told(p)' /\ ~Due(p)',
           Told(p)' => Told(p), Due(p)' => Due(p)
    PROVE  Numbers(p)' /\ Noticed(p)'
<1> USE DEF Numbers, WritesTheSame, Elsewhere, At, NoStamp, Unseen
<1>1. Numbers(p)'
  OBVIOUS
<1>2. ~Due(p)'
  BY DEF Noticed
<1>3. Told(p)' /\ Stamping(p) => Writes(p) >= 1 \/ (tok[p] > NoStamp /\ stamp # tok[p])
  BY DEF Noticed, Finds
<1>4. Told(p)' /\ ~Stamping(p) => Finds(tok[p], num[p], Written(p), stamp, Writes(p))
  BY DEF Noticed, Finds
<1>5. Noticed(p)'
  BY <1>2, <1>3, <1>4 DEF Noticed
<1> QED
  BY <1>1, <1>5

\* The process's writer stamps the directory, ...
LEMMA WriterStamps ==
    ASSUME NEW p, Numbers(p), Noticed(p), KnowsTheSame(p),
           stamp' = stamps + 1, stamps' = stamps + 1,
           ~Stamping(p), Stamping(p)', ~Counting(p)',
           pc'[p] = pc[p], tok'[p] = tok[p], num'[p] = num[p],
           Told(p)' => Told(p), Due(p)' => Due(p)
    PROVE  Numbers(p)' /\ Noticed(p)'
<1> USE DEF Numbers, KnowsTheSame, At, NoStamp, Unseen
<1>1. Numbers(p)'
  OBVIOUS
<1>2. Told(p) \/ Due(p) => Writes(p) >= 1 \/ (Gen(p) > NoStamp /\ stamp' # Gen(p))
  BY DEF Noticed, Finds
<1>3. Noticed(p)'
  BY <1>2 DEF Noticed
<1> QED
  BY <1>1, <1>3

\* ... reads it back, after which a look under way is not the one meant, ...
LEMMA WriterReads ==
    ASSUME NEW p, Numbers(p), Noticed(p), UNCHANGED <<stamp, stamps>>,
           Gen(p)' = Gen(p), Seen(p)' = Seen(p), Writes(p)' = Writes(p), Written(p)' = stamp,
           Stamping(p), Stamping(p)',
           pc'[p] = pc[p], tok'[p] = tok[p], num'[p] = num[p],
           Told(p)' => Told(p) \/ Due(p), ~Due(p)'
    PROVE  Numbers(p)' /\ Noticed(p)'
BY DEF Numbers, Noticed, At

\* ... and counts it.
LEMMA WriterCounts ==
    ASSUME NEW p, Numbers(p), Noticed(p), UNCHANGED <<stamp, stamps>>,
           Gen(p)' = Gen(p), Seen(p)' = Seen(p), Writes(p)' = Writes(p) + 1, Written(p)' = Written(p),
           Stamping(p), ~Stamping(p)', Counting(p),
           pc'[p] = pc[p], tok'[p] = tok[p], num'[p] = num[p],
           Told(p)' => Told(p), Due(p)' => Due(p)
    PROVE  Numbers(p)' /\ Noticed(p)'
<1> USE DEF Numbers, At, NoStamp, Unseen
<1>1. Numbers(p)'
  OBVIOUS
<1>2. ~Due(p)'
  BY DEF Noticed
<1>3. Told(p) => Finds(Gen(p), Seen(p), Written(p), stamp, Writes(p) + 1)
  BY DEF Noticed, Finds
<1>4. Told(p) /\ At(p, "compare") /\ tok[p] = stamp =>
        Finds(Gen(p), Seen(p), Written(p), tok[p], num[p]) \/ Writes(p) + 1 >= 2
  BY DEF Noticed, Finds
<1>5. Noticed(p)'
  BY <1>2, <1>3, <1>4 DEF Noticed
<1> QED
  BY <1>1, <1>5

\* The process moves the stamp that it read before, ...
LEMMA ClearBumps ==
    ASSUME NEW p, Numbers(p), Noticed(p), Moves, stamp' # stamp \/ stamp = NoStamp,
           KnowsTheSame(p), WritesTheSame(p), stamp = NoStamp <=> stamp' = NoStamp,
           At(p, "bump"), At(p, "moved")', tok'[p] = tok[p],
           num'[p] = IF stamp = tok[p] THEN stamp' ELSE Unseen,
           Told(p)' => Told(p), Due(p)' => Due(p)
    PROVE  Numbers(p)' /\ Noticed(p)'
<1> USE DEF Numbers, Moves, KnowsTheSame, WritesTheSame, At, NoStamp, Unseen
<1>1. Numbers(p)'
  OBVIOUS
<1>2. ~Due(p)'
  BY DEF Noticed
<1>3. Told(p) /\ Stamping(p) => Writes(p) >= 1 \/ (Gen(p) > NoStamp /\ stamp' # Gen(p))
  BY DEF Noticed
<1>4. Told(p) /\ ~Stamping(p) => Finds(Gen(p), Seen(p), Written(p), stamp', Writes(p))
  BY DEF Noticed, Finds
<1>5. Told(p) /\ Gen(p) = tok[p] /\ stamp = tok[p] /\ stamp # NoStamp =>
         /\ Writes(p) >= 1
         /\ Stamping(p) \/ (Writes(p) > Seen(p) /\ (Seen(p) >= 1 \/ Writes(p) - Seen(p) >= 2))
  BY DEF Noticed, Finds
<1>6. Noticed(p)'
  BY <1>2, <1>3, <1>4, <1>5 DEF Noticed
<1> QED
  BY <1>1, <1>6

\* ... and takes it for its own, if nothing else moved it meanwhile.
LEMMA ClearTakes ==
    ASSUME NEW p, Numbers(p), Noticed(p), UNCHANGED <<stamp, stamps>>, WritesTheSame(p),
           Gen(p)' = stamp, Seen(p)' = Seen(p), Writes(p)' = Writes(p), Written(p)' = Written(p),
           At(p, "moved"), At(p, "idle")', tok'[p] = NoStamp, num'[p] = 0,
           Gen(p) = tok[p], Told(p)' => Told(p) /\ stamp = num[p], Due(p)' => Due(p)
    PROVE  Numbers(p)' /\ Noticed(p)'
<1> USE DEF Numbers, WritesTheSame, At, NoStamp, Unseen
<1>1. Numbers(p)'
  OBVIOUS
<1>2. ~Due(p)'
  BY DEF Noticed
<1>3. Told(p)' /\ Stamping(p) => Writes(p) >= 1
  BY DEF Noticed
<1>4. Told(p)' /\ ~Stamping(p) => Finds(stamp, Seen(p), Written(p), stamp, Writes(p))
  BY DEF Noticed, Finds
<1>5. Noticed(p)'
  BY <1>2, <1>3, <1>4 DEF Noticed
<1> QED
  BY <1>1, <1>5

\* It leaves the stamp as it was, for another moved it meanwhile.
LEMMA ClearLeaves ==
    ASSUME NEW p, Numbers(p), Noticed(p), UNCHANGED <<stamp, stamps>>, KnowsTheSame(p), WritesTheSame(p),
           At(p, "moved"), At(p, "idle")', tok'[p] = NoStamp, num'[p] = 0,
           Told(p)' => Told(p), Due(p)' => Due(p)
    PROVE  Numbers(p)' /\ Noticed(p)'
BY DEF Numbers, Noticed, KnowsTheSame, WritesTheSame, At, NoStamp

-----------------------------------------------------------------------------
(* What a step does to the copies and the jobs.                            *)

\* A marked copy is the copy, or the copy with the mark exchanged.
LEMMA MarkedCopy ==
    ASSUME NEW c, c # None => IsCopy(c), NEW from, NEW to
    PROVE  \/ Marked(c, from, to) = c /\ (c = None \/ c.mark # from)
           \/ /\ c # None /\ c.mark = from
              /\ IsCopy(Marked(c, from, to)) /\ Marked(c, from, to).mark = to
BY Zenon DEF Marked, IsCopy

\* A copy of another version keeps its mark ...
LEMMA OtherVersion ==
    ASSUME NEW c, IsCopy(c), NEW x
    PROVE  IsCopy([c EXCEPT !.v = x]) /\ [c EXCEPT !.v = x].mark = c.mark
BY DEF IsCopy

\* ... and so does one whose entry is on disk now (persist_from_memory).
LEMMA OtherKept ==
    ASSUME NEW c, IsCopy(c), NEW x
    PROVE  IsCopy([c EXCEPT !.kept = x]) /\ [c EXCEPT !.kept = x].mark = c.mark
BY DEF IsCopy

\* The marks of one tier.
LEMMA TierMarks ==
    ASSUME NEW p, Shape(p), NEW ks, NEW from, NEW to, ram'[p] = Mark(p, ks, from, to), NEW k \in Keys
    PROVE  \/ ram'[p][k] = ram[p][k] /\ (k \in ks => ram[p][k] = None \/ ram[p][k].mark # from)
           \/ /\ ram[p][k] # None /\ ram[p][k].mark = from
              /\ IsCopy(ram'[p][k]) /\ ram'[p][k].mark = to
<1>1. ram'[p][k] = IF k \in ks THEN Marked(ram[p][k], from, to) ELSE ram[p][k]
  BY Zenon DEF Mark
<1>2. ram[p][k] # None => IsCopy(ram[p][k])
  BY Zenon DEF Shape
<1>3. \/ Marked(ram[p][k], from, to) = ram[p][k] /\ (ram[p][k] = None \/ ram[p][k].mark # from)
      \/ /\ ram[p][k] # None /\ ram[p][k].mark = from
         /\ IsCopy(Marked(ram[p][k], from, to)) /\ Marked(ram[p][k], from, to).mark = to
  BY <1>2, MarkedCopy
<1> QED
  BY <1>1, <1>3, Zenon

\* The marks of one tier, all of whose keys are marked.
LEMMA TierRemarks ==
    ASSUME NEW p, Shape(p), NEW from, NEW to, ram'[p] = Mark(p, Keys, from, to)
    PROVE  \A k \in Keys :
             \/ ram'[p][k] = ram[p][k] /\ (ram[p][k] = None \/ ram[p][k].mark # from)
             \/ /\ ram[p][k] # None /\ ram[p][k].mark = from
                /\ IsCopy(ram'[p][k]) /\ ram'[p][k].mark = to
<1> DEFINE ks == Keys
<1>1. ram'[p] = Mark(p, ks, from, to)
  OBVIOUS
<1> HIDE DEF ks
<1>2. ASSUME NEW k \in Keys
      PROVE  \/ ram'[p][k] = ram[p][k] /\ (k \in ks => ram[p][k] = None \/ ram[p][k].mark # from)
             \/ /\ ram[p][k] # None /\ ram[p][k].mark = from
                /\ IsCopy(ram'[p][k]) /\ ram'[p][k].mark = to
  BY <1>1, TierMarks
<1> QED
  BY <1>2, Zenon DEF ks

\* A removal or a move of the stamp marks copies of a process that stays
\* where it is: it only tells one that remembers a stamp.
LEMMA MarksChange ==
    ASSUME NEW p, Shape(p), NEW ks, NEW from \in {"none", "removed"},
           NEW to \in {"none", "removed", "told"}, to = "told" => Remembers(p),
           ram'[p] = Mark(p, ks, from, to),
           got'[p] = MarkGot(p, ks, from, to),
           pc'[p] = pc[p], queue'[p] = queue[p]
    PROVE  /\ Shape(p)' /\ (Due(p)' => Due(p))
           /\ Told(p)' => Told(p) \/ (to = "told" /\ Remembers(p))
<1>1. \A k \in Keys : \/ ram'[p][k] = ram[p][k]
                      \/ /\ ram[p][k] # None
                         /\ IsCopy(ram'[p][k]) /\ ram'[p][k].mark = to
  BY TierMarks
<1>2. \/ got'[p] = got[p]
      \/ IsCopy(got'[p]) /\ got'[p].mark = to
  <2>1. got'[p] \in {got[p], Marked(got[p], from, to)}
    BY Zenon DEF MarkGot
  <2>2. IsCopy(got[p])
    BY Zenon DEF Shape
  <2>3. \/ Marked(got[p], from, to) = got[p]
        \/ IsCopy(Marked(got[p], from, to)) /\ Marked(got[p], from, to).mark = to
    BY <2>2, MarkedCopy
  <2> QED
    BY <2>1, <2>3, Zenon
<1>3. Shape(p)'
  BY <1>1, <1>2, Zenon DEF Shape
<1>4. Due(p)' => Due(p)
  BY <1>1, Zenon DEF Due
<1>5. Told(p)' => Told(p) \/ (to = "told" /\ Remembers(p))
  BY <1>1, <1>2, Zenon DEF Told, At
<1> QED
  BY <1>3, <1>4, <1>5, Zenon

\* The jobs of a process stay, or one that is not stamping changes.
Stamper(job) == job # None /\ job.try \in {"written", "count"}

\* A process whose jobs stay stamps and counts as before ...
LEMMA SameJobs ==
    ASSUME NEW p, queue'[p] = queue[p]
    PROVE  WritesTheSame(p)
BY Zenon DEF WritesTheSame, Stamping, Counting

\* ... and so does one whose job changes away from stamping.
LEMMA OtherJob ==
    ASSUME Forms, NEW p \in Procs, NEW k \in Keys, NEW job,
           queue' = [queue EXCEPT ![p] = [queue[p] EXCEPT ![k] = job]],
           ~Stamper(queue[p][k]), ~Stamper(job)
    PROVE  WritesTheSame(p) /\ queue'[p][k] = job /\ \A j \in Keys \ {k} : queue'[p][j] = queue[p][j]
<1>1. queue'[p][k] = job /\ \A j \in Keys \ {k} : queue'[p][j] = queue[p][j]
  <2>1. queue[p] = [j \in Keys |-> queue[p][j]] /\ queue'[p] = [queue[p] EXCEPT ![k] = job]
    BY Zenon DEF Forms
  <2> QED
    BY <2>1, Zenon
<1>2. Stamping(p)' <=> Stamping(p)
  BY <1>1, Zenon DEF Stamping, Stamper
<1>3. Counting(p)' <=> Counting(p)
  BY <1>1, Zenon DEF Counting, Stamper
<1> QED
  BY <1>1, <1>2, <1>3, Zenon DEF WritesTheSame

-----------------------------------------------------------------------------
(* One process's step, and the others.                                     *)

\* A step of one process changes its own part of the state.
StepOf(p) ==
    /\ ram' = [ram EXCEPT ![p] = ram'[p]] /\ queue' = [queue EXCEPT ![p] = queue'[p]]
    /\ got' = [got EXCEPT ![p] = got'[p]] /\ pc' = [pc EXCEPT ![p] = pc'[p]]
    /\ tok' = [tok EXCEPT ![p] = tok'[p]] /\ num' = [num EXCEPT ![p] = num'[p]]
    /\ watch' = [watch EXCEPT ![p] = watch'[p]] /\ own' = [own EXCEPT ![p] = own'[p]]

\* A process whose part of the state a step leaves alone.
LEMMA Bystander ==
    ASSUME NEW q, Good(q), Moves,
           ram'[q] = ram[q], queue'[q] = queue[q], got'[q] = got[q], pc'[q] = pc[q],
           tok'[q] = tok[q], num'[q] = num[q], watch'[q] = watch[q], own'[q] = own[q]
    PROVE  Good(q)'
<1>1. KnowsTheSame(q)
  BY Zenon DEF KnowsTheSame, Gen, Seen, Writes, Written
<1>2. (Told(q)' => Told(q)) /\ (Due(q)' => Due(q))
  BY Zenon DEF Told, Due, At
<1>3. Shape(q)'
  BY Zenon DEF Good, Shape
<1>4. Numbers(q)' /\ Noticed(q)'
  BY <1>1, <1>2, SameJobs, Stays, Zenon DEF Good
<1> QED
  BY <1>3, <1>4, Zenon DEF Good

\* A step of one process keeps the invariant of all of them when it keeps
\* that of the process: the others do not see it.
LEMMA OneProcess ==
    ASSUME ClearInv, NEW p \in Procs, Moves, StepOf(p), Good(p)',
           ram'[p] = [k \in Keys |-> ram'[p][k]], queue'[p] = [k \in Keys |-> queue'[p][k]],
           watch'[p] \in [generation : Int, seen : Nat],
           own'[p] \in [initialized : BOOLEAN, writes : Nat, written : Nat]
    PROVE  ClearInv'
<1>1. ASSUME NEW q \in Procs \ {p}
      PROVE  /\ ram'[q] = ram[q] /\ queue'[q] = queue[q] /\ got'[q] = got[q] /\ pc'[q] = pc[q]
             /\ tok'[q] = tok[q] /\ num'[q] = num[q] /\ watch'[q] = watch[q] /\ own'[q] = own[q]
  BY Zenon DEF ClearInv, Forms, StepOf
<1>2. \A q \in Procs \ {p} : Good(q)'
  BY <1>1, Bystander, Zenon DEF ClearInv
<1>3. /\ ram' = [q \in Procs |-> ram'[q]] /\ queue' = [q \in Procs |-> queue'[q]]
      /\ got' = [q \in Procs |-> got'[q]] /\ pc' = [q \in Procs |-> pc'[q]]
      /\ tok' = [q \in Procs |-> tok'[q]] /\ num' = [q \in Procs |-> num'[q]]
  BY Zenon DEF ClearInv, Forms, StepOf
<1>4. /\ \A q \in Procs : ram'[q] = [k \in Keys |-> ram'[q][k]]
      /\ \A q \in Procs : queue'[q] = [k \in Keys |-> queue'[q][k]]
  <2>1. \A q \in Procs : ram[q] = [k \in Keys |-> ram[q][k]] /\ queue[q] = [k \in Keys |-> queue[q][k]]
    BY Zenon DEF ClearInv, Forms
  <2>2. ASSUME NEW q \in Procs \ {p}
        PROVE  ram'[q] = [k \in Keys |-> ram'[q][k]] /\ queue'[q] = [k \in Keys |-> queue'[q][k]]
    <3>1. ram'[q] = ram[q] /\ queue'[q] = queue[q] /\ q \in Procs
      BY <1>1
    <3> QED
      BY <2>1, <3>1
  <2> QED
    BY <2>2, Zenon
<1>5. /\ watch' \in [Procs -> [generation : Int, seen : Nat]]
      /\ own' \in [Procs -> [initialized : BOOLEAN, writes : Nat, written : Nat]]
  BY Zenon DEF ClearInv, Forms, StepOf
<1>6. Forms'
  BY <1>3, <1>4, <1>5, Zenon DEF Forms
<1> QED
  BY <1>2, <1>6, Zenon DEF ClearInv

\* A step of one process on its own copies and jobs, away from a look.
LEMMA LocalStep ==
    ASSUME ClearInv, NEW p \in Procs, StepOf(p), UNCHANGED <<stamp, stamps, watch, tok, num>>,
           ram'[p] = [k \in Keys |-> ram'[p][k]], queue'[p] = [k \in Keys |-> queue'[p][k]],
           own'[p] \in [initialized : BOOLEAN, writes : Nat, written : Nat],
           Writes(p)' = Writes(p), Written(p)' = Written(p),
           pc'[p] = pc[p] \/ (Elsewhere(p) /\ Elsewhere(p)'),
           Shape(p)', WritesTheSame(p), Told(p)' => Told(p), Due(p)' => Due(p)
    PROVE  ClearInv'
<1>1. Good(p) /\ watch[p] \in [generation : Int, seen : Nat]
  BY Zenon DEF ClearInv, Forms
<1>2. Moves
  BY <1>1 DEF Moves, Good, Numbers
<1>3. KnowsTheSame(p)
  BY Zenon DEF KnowsTheSame, Gen, Seen
<1>4. tok'[p] = tok[p] /\ num'[p] = num[p] /\ num[p] \in Int
  BY <1>1, Zenon DEF Good, Numbers
<1>5. Numbers(p)' /\ Noticed(p)'
  BY <1>1, <1>2, <1>3, <1>4, Stays, Zenon DEF Good
<1> QED
  BY <1>1, <1>2, <1>5, OneProcess, Zenon DEF Good

\* After a set the RAM tier holds the new copy and older ones.
LEMMA RamSetCopies ==
    ASSUME Forms, NEW p \in Procs, NEW k, NEW copy, NEW tier \in RamSet(p, k, copy)
    PROVE  /\ tier = [j \in Keys |-> tier[j]]
           /\ \A j \in Keys : tier[j] \in {None, copy, ram[p][j]}
<1>1. ram[p] = [j \in Keys |-> ram[p][j]]
  BY Zenon DEF Forms
<1>2. CASE tier = ram[p]
  BY <1>1, <1>2, Zenon
<1>3. CASE \E gone \in SUBSET Keys :
             tier = [j \in Keys |-> IF j \in gone THEN None ELSE IF j = k THEN copy ELSE ram[p][j]]
  BY <1>3, Zenon
<1> QED
  BY <1>2, <1>3, Zenon DEF RamSet

\* The steps of a get that leave the copies in RAM alone.
LEMMA ReadSteps ==
    ASSUME ClearInv, NEW p \in Procs,
           (\E k \in Keys : GetLately(p, k)) \/ EnsureInitialized(p) \/ DiskGet(p)
    PROVE  ClearInv'
<1>1. UNCHANGED <<stamp, stamps, watch, tok, num, ram, queue>>
  BY Zenon DEF GetLately, EnsureInitialized, DiskGet, diskVars
<1>2. PICK where \in {"disk", "stamp", "idle", "promote"} :
          /\ pc' = [pc EXCEPT ![p] = where]
          /\ \/ got' = got /\ where # "promote"
             \/ \E v : got' = [got EXCEPT ![p] = [NoCopy EXCEPT !.v = v]]
  <2>1. CASE \E k \in Keys : GetLately(p, k)
    BY <2>1, Zenon DEF GetLately, Call
  <2>2. CASE EnsureInitialized(p)
    BY <2>2, Zenon DEF EnsureInitialized, Goto, Call
  <2>3. CASE DiskGet(p)
    <3>1. CASE got' = got /\ Goto(p, "idle")
      BY <3>1, Zenon DEF Goto, Call
    <3>2. CASE Goto(p, "promote") /\ got' = [got EXCEPT ![p] = [NoCopy EXCEPT !.v = entry[key[p]].v]]
      BY <3>2, Zenon DEF Goto, Call
    <3> QED
      BY <2>3, <3>1, <3>2, Zenon DEF DiskGet
  <2> QED
    BY <2>1, <2>2, <2>3, Zenon
<1>3. pc'[p] = where /\ Elsewhere(p) /\ Elsewhere(p)'
  BY <1>2, Zenon DEF ClearInv, Forms, GetLately, EnsureInitialized, DiskGet, At, Elsewhere
<1>4. PICK c : /\ got' = [got EXCEPT ![p] = c] /\ IsCopy(c) /\ c.mark # "due"
               /\ where = "promote" => c.mark = "none"
  <2>1. CASE got' = got /\ where # "promote"
    <3>1. got' = [got EXCEPT ![p] = got[p]] /\ IsCopy(got[p]) /\ got[p].mark # "due"
      BY <2>1, Zenon DEF ClearInv, Forms, Good, Shape
    <3> QED
      BY <2>1, <3>1, Zenon
  <2>2. CASE \E v : got' = [got EXCEPT ![p] = [NoCopy EXCEPT !.v = v]]
    <3>1. IsCopy(NoCopy) /\ NoCopy.mark = "none"
      BY Zenon DEF NoCopy, IsCopy
    <3>2. PICK v : got' = [got EXCEPT ![p] = [NoCopy EXCEPT !.v = v]]
      BY <2>2, Zenon
    <3>3. IsCopy([NoCopy EXCEPT !.v = v]) /\ [NoCopy EXCEPT !.v = v].mark = NoCopy.mark
      BY <3>1, OtherVersion, Zenon
    <3>4. [NoCopy EXCEPT !.v = v].mark # "due" /\ [NoCopy EXCEPT !.v = v].mark = "none"
      BY <3>1, <3>3, Zenon
    <3> QED
      BY <3>2, <3>3, <3>4, Zenon
  <2> QED
    BY <1>2, <2>1, <2>2, Zenon
<1>5. got'[p] = c
  BY <1>4, Zenon DEF ClearInv, Forms
<1>6. /\ own' = [own EXCEPT ![p] = own'[p]]
      /\ own'[p] \in [initialized : BOOLEAN, writes : Nat, written : Nat]
      /\ Writes(p)' = Writes(p) /\ Written(p)' = Written(p)
  <2>1. own \in [Procs -> [initialized : BOOLEAN, writes : Nat, written : Nat]]
    BY Zenon DEF ClearInv, Forms
  <2>2. CASE own' = own
    BY <2>1, <2>2, Zenon DEF Writes, Written
  <2>3. CASE own' = [own EXCEPT ![p].initialized = TRUE]
    <3>1. own' = [own EXCEPT ![p] = [own[p] EXCEPT !.initialized = TRUE]]
      BY <2>1, <2>3, Zenon
    <3>2. own'[p] = [own[p] EXCEPT !.initialized = TRUE]
      BY <2>1, <3>1, Zenon
    <3>3. own'[p] \in [initialized : BOOLEAN, writes : Nat, written : Nat]
      BY <2>1, <3>2, Zenon
    <3>4. own'[p].writes = own[p].writes /\ own'[p].written = own[p].written
      BY <2>1, <3>2
    <3> QED
      BY <3>1, <3>2, <3>3, <3>4, Zenon DEF Writes, Written
  <2> QED
    BY <2>2, <2>3, Zenon DEF GetLately, EnsureInitialized, DiskGet
<1>7. StepOf(p)
  BY <1>1, <1>2, <1>3, <1>4, <1>5, <1>6, Zenon DEF ClearInv, Forms, StepOf
<1>8. Shape(p)'
  BY <1>1, <1>4, <1>5, Zenon DEF ClearInv, Good, Shape
<1>9. (Told(p)' => Told(p)) /\ (Due(p)' => Due(p))
  BY <1>1, <1>3, <1>4, <1>5, Zenon DEF Told, Due, At
<1>10. ram'[p] = [k \in Keys |-> ram'[p][k]] /\ queue'[p] = [k \in Keys |-> queue'[p][k]] /\ queue'[p] = queue[p]
  BY <1>1, Zenon DEF ClearInv, Forms
<1> QED
  BY <1>1, <1>3, <1>6, <1>7, <1>8, <1>9, <1>10, SameJobs, LocalStep, Zenon

\* A read's promotion and the process's own stores.
LEMMA StoreSteps ==
    ASSUME ClearInv, NEW p \in Procs,
           Promote(p) \/ \E k \in Keys : Set(p, k) \/ SetAlone(p, k) \/ PersistFromMemory(p, k)
    PROVE  ClearInv'
<1>1. UNCHANGED <<stamp, stamps, watch, tok, num, own>>
  BY Zenon DEF Promote, Set, SetAlone, PersistFromMemory, diskVars, threadVars
<1>2. PICK where \in {"idle", pc[p]} : pc' = [pc EXCEPT ![p] = where] /\ where # "promote" /\ Elsewhere(p)
  <2>1. CASE Promote(p)
    BY <2>1, Zenon DEF Promote, At, Goto, Call, Elsewhere
  <2>2. CASE \E k \in Keys : Set(p, k) \/ SetAlone(p, k) \/ PersistFromMemory(p, k)
    BY <2>2, Zenon DEF ClearInv, Forms, Set, SetAlone, PersistFromMemory, CanStore, At, threadVars, Elsewhere
  <2> QED
    BY <2>1, <2>2, Zenon
<1>3. pc'[p] = where /\ pc'[p] # "promote" /\ Elsewhere(p)'
  BY <1>2, Zenon DEF ClearInv, Forms, Elsewhere, At
<1>4. /\ got' = [got EXCEPT ![p] = got'[p]]
      /\ IsCopy(got'[p]) /\ got'[p].mark # "due"
  <2>1. IsCopy(NoCopy) /\ NoCopy.mark # "due"
    BY Zenon DEF NoCopy, IsCopy
  <2>2. got' = got \/ got' = [got EXCEPT ![p] = NoCopy]
    BY Zenon DEF Promote, Set, SetAlone, PersistFromMemory, threadVars
  <2> QED
    BY <2>1, <2>2, Zenon DEF ClearInv, Forms, Good, Shape
<1> DEFINE Stored ==
      /\ ram' = [ram EXCEPT ![p] = ram'[p]] /\ ram'[p] = [k \in Keys |-> ram'[p][k]]
      /\ \A j \in Keys : \/ ram'[p][j] = None \/ ram'[p][j] = ram[p][j]
                         \/ ram'[p][j] = got[p] /\ pc[p] = "promote"
                         \/ IsCopy(ram'[p][j]) /\ ram'[p][j].mark = "none"
                         \/ /\ ram[p][j] # None
                            /\ IsCopy(ram'[p][j]) /\ ram'[p][j].mark = ram[p][j].mark
<1>5. Stored
  <2>1. ram = [q \in Procs |-> [k \in Keys |-> ram[q][k]]]
    BY Zenon DEF ClearInv, Forms
  <2>2. ASSUME NEW k, NEW copy, NEW tier \in RamSet(p, k, copy), ram' = [ram EXCEPT ![p] = tier]
        PROVE  /\ ram' = [ram EXCEPT ![p] = ram'[p]] /\ ram'[p] = [j \in Keys |-> ram'[p][j]]
               /\ \A j \in Keys : ram'[p][j] \in {None, copy, ram[p][j]}
    <3>1. tier = [j \in Keys |-> tier[j]] /\ \A j \in Keys : tier[j] \in {None, copy, ram[p][j]}
      BY <2>2, RamSetCopies, Zenon DEF ClearInv
    <3>2. ram'[p] = tier
      BY <2>1, <2>2, Zenon
    <3> QED
      BY <2>1, <2>2, <3>1, <3>2
  <2>3. CASE Promote(p)
    <3>1. CASE ram' = ram
      BY <2>1, <3>1, Zenon
    <3>2. CASE \E tier \in RamSet(p, key[p], got[p]) : ram' = [ram EXCEPT ![p] = tier]
      <4>1. PICK tier \in RamSet(p, key[p], got[p]) : ram' = [ram EXCEPT ![p] = tier]
        BY <3>2, Zenon
      <4>2. pc[p] = "promote"
        BY <2>3, Zenon DEF Promote, At
      <4>3. /\ ram' = [ram EXCEPT ![p] = ram'[p]] /\ ram'[p] = [j \in Keys |-> ram'[p][j]]
            /\ \A j \in Keys : ram'[p][j] \in {None, got[p], ram[p][j]}
        BY <2>2, <4>1, Zenon
      <4> QED
        BY <4>2, <4>3, Zenon
    <3> QED
      BY <2>3, <3>1, <3>2, Zenon DEF Promote
  <2>4. ASSUME NEW k \in Keys, Set(p, k)
        PROVE  Stored
    <3>1. PICK kept \in BOOLEAN : \E tier \in RamSet(p, k, NewCopy(kept)) : ram' = [ram EXCEPT ![p] = tier]
      BY <2>4, Zenon DEF Set
    <3>2. IsCopy(NewCopy(kept)) /\ NewCopy(kept).mark = "none"
      BY Zenon DEF NewCopy, IsCopy
    <3>3. PICK tier \in RamSet(p, k, NewCopy(kept)) : ram' = [ram EXCEPT ![p] = tier]
      BY <3>1, Zenon
    <3>4. /\ ram' = [ram EXCEPT ![p] = ram'[p]] /\ ram'[p] = [j \in Keys |-> ram'[p][j]]
          /\ \A j \in Keys : ram'[p][j] \in {None, NewCopy(kept), ram[p][j]}
      BY <2>2, <3>3, Zenon
    <3> QED
      BY <3>2, <3>4, Zenon
  <2>5. ASSUME NEW k \in Keys, SetAlone(p, k) \/ PersistFromMemory(p, k)
        PROVE  Stored
    <3>1. \/ ram' = [ram EXCEPT ![p][k] = None]
          \/ ram[p][k] # None /\ ram' = [ram EXCEPT ![p][k].kept = TRUE]
      BY <2>5, Zenon DEF SetAlone, PersistFromMemory
    <3>2. PICK c : /\ ram' = [ram EXCEPT ![p] = [ram[p] EXCEPT ![k] = c]]
                   /\ \/ c = None
                      \/ ram[p][k] # None /\ IsCopy(c) /\ c.mark = ram[p][k].mark
      <4>1. CASE ram' = [ram EXCEPT ![p][k] = None]
        BY <4>1, Zenon
      <4>2. CASE ram[p][k] # None /\ ram' = [ram EXCEPT ![p][k].kept = TRUE]
        <5>1. IsCopy(ram[p][k])
          BY <4>2, Zenon DEF ClearInv, Good, Shape
        <5>2. ram' = [ram EXCEPT ![p] = [ram[p] EXCEPT ![k] = [ram[p][k] EXCEPT !.kept = TRUE]]]
          BY <4>2, Zenon
        <5>3. IsCopy([ram[p][k] EXCEPT !.kept = TRUE]) /\ [ram[p][k] EXCEPT !.kept = TRUE].mark = ram[p][k].mark
          BY <5>1, OtherKept, Zenon
        <5> QED
          BY <4>2, <5>2, <5>3, Zenon
      <4> QED
        BY <3>1, <4>1, <4>2, Zenon
    <3>3. ram[p] = [j \in Keys |-> ram[p][j]] /\ ram'[p] = [ram[p] EXCEPT ![k] = c]
      BY <2>1, <3>2, Zenon
    <3>4. ram'[p] = [j \in Keys |-> ram'[p][j]] /\ \A j \in Keys : ram'[p][j] = IF j = k THEN c ELSE ram[p][j]
      BY <3>3, Zenon
    <3> QED
      BY <3>2, <3>3, <3>4, Zenon
  <2> QED
    BY <2>3, <2>4, <2>5, Zenon
<1> DEFINE Queued(k, v, alone) ==
      queue[p][k] = None /\ queue' = [queue EXCEPT ![p] = [queue[p] EXCEPT ![k] = Work(v, alone)]]
<1>6. queue' = queue \/ \E k \in Keys : \E v, alone : Queued(k, v, alone)
  <2>1. ASSUME NEW k \in Keys, Set(p, k) \/ SetAlone(p, k) \/ PersistFromMemory(p, k), queue' # queue
        PROVE  \E v, alone : Queued(k, v, alone)
    <3>1. Queued(k, stores + 1, FALSE) \/ Queued(k, stores + 1, TRUE) \/ Queued(k, ram[p][k].v, FALSE)
      BY <2>1, Zenon DEF Set, SetAlone, PersistFromMemory
    <3> QED
      BY <3>1, Zenon
  <2>2. Promote(p) => queue' = queue
    BY Zenon DEF Promote
  <2> QED
    BY <2>1, <2>2, Zenon
<1>7. /\ queue' = [queue EXCEPT ![p] = queue'[p]] /\ queue'[p] = [j \in Keys |-> queue'[p][j]]
      /\ \A j \in Keys : queue'[p][j] # None => IsJob(queue'[p][j])
      /\ WritesTheSame(p)
  <2>1. CASE queue' = queue
    BY <2>1, SameJobs, Zenon DEF ClearInv, Forms, Good, Shape
  <2>2. ASSUME NEW k \in Keys, NEW v, NEW alone, Queued(k, v, alone)
        PROVE  /\ queue' = [queue EXCEPT ![p] = queue'[p]] /\ queue'[p] = [j \in Keys |-> queue'[p][j]]
               /\ \A j \in Keys : queue'[p][j] # None => IsJob(queue'[p][j])
               /\ WritesTheSame(p)
    <3>1. IsJob(Work(v, alone)) /\ Work(v, alone).try = "first"
      BY Zenon DEF Work, IsJob
    <3>2. /\ WritesTheSame(p) /\ queue'[p][k] = Work(v, alone)
          /\ \A j \in Keys \ {k} : queue'[p][j] = queue[p][j]
      BY <2>2, <3>1, OtherJob, Zenon DEF ClearInv, Stamper
    <3>3. queue[p] = [j \in Keys |-> queue[p][j]] /\ queue'[p] = [queue[p] EXCEPT ![k] = Work(v, alone)]
      BY <2>2, Zenon DEF ClearInv, Forms
    <3>4. queue'[p] = [j \in Keys |-> queue'[p][j]]
      BY <3>3, Zenon
    <3> QED
      BY <2>2, <3>1, <3>2, <3>3, <3>4, Zenon DEF ClearInv, Good, Shape
  <2> QED
    BY <1>6, <2>1, <2>2, Zenon
<1>8. StepOf(p)
  BY <1>1, <1>2, <1>3, <1>4, <1>5, <1>7, Zenon DEF ClearInv, Forms, StepOf
<1>9. Shape(p)'
  BY <1>4, <1>5, <1>7, Zenon DEF ClearInv, Good, Shape
<1>10. Told(p)' => Told(p)
  BY <1>3, <1>5, Zenon DEF Told, At
<1>11. Due(p)' => Due(p)
  BY <1>5, Zenon DEF Due, ClearInv, Good, Shape
<1>12. own'[p] \in [initialized : BOOLEAN, writes : Nat, written : Nat] /\ Writes(p)' = Writes(p) /\ Written(p)' = Written(p)
  BY <1>1, Zenon DEF ClearInv, Forms, Writes, Written
<1> HIDE DEF Stored
<1>13. ram'[p] = [k \in Keys |-> ram'[p][k]]
  BY <1>5, Zenon DEF Stored
<1> QED
  BY <1>1, <1>2, <1>3, <1>7, <1>8, <1>9, <1>10, <1>11, <1>12, <1>13, LocalStep, Zenon

\* A background write that ends, or finds the directory gone.
LEMMA WriteSteps ==
    ASSUME ClearInv, NEW p \in Procs, NEW k \in Keys, NEW job,
           queue' = [queue EXCEPT ![p] = [queue[p] EXCEPT ![k] = job]],
           ~Stamper(queue[p][k]), ~Stamper(job), job # None => IsJob(job),
           UNCHANGED <<stamp, stamps, ram, own, watch, threadVars>>
    PROVE  ClearInv'
<1>1. WritesTheSame(p) /\ queue'[p][k] = job /\ \A j \in Keys \ {k} : queue'[p][j] = queue[p][j]
  BY OtherJob, Zenon DEF ClearInv
<1>2. queue[p] = [j \in Keys |-> queue[p][j]] /\ queue'[p] = [queue[p] EXCEPT ![k] = job]
  BY Zenon DEF ClearInv, Forms
<1>3. queue'[p] = [j \in Keys |-> queue'[p][j]]
  BY <1>2, Zenon
<1>4. Shape(p)'
  BY <1>1, Zenon DEF ClearInv, Good, Shape, threadVars
<1>5. StepOf(p)
  BY <1>2, Zenon DEF ClearInv, Forms, StepOf, threadVars
<1>6. (Told(p)' => Told(p)) /\ (Due(p)' => Due(p))
  BY Zenon DEF Told, Due, At, threadVars
<1>7. /\ own'[p] \in [initialized : BOOLEAN, writes : Nat, written : Nat]
      /\ Writes(p)' = Writes(p) /\ Written(p)' = Written(p) /\ pc'[p] = pc[p]
      /\ ram'[p] = [j \in Keys |-> ram'[p][j]]
  BY Zenon DEF ClearInv, Forms, Writes, Written, threadVars
<1>8. UNCHANGED <<tok, num>>
  BY Zenon DEF threadVars
<1> QED
  BY <1>1, <1>3, <1>4, <1>5, <1>6, <1>7, <1>8, LocalStep, Zenon

\* A write that goes on: the process's other jobs stay, untried.
LEMMA GoesOn ==
    ASSUME ClearInv, TypeOK, NEW p \in Procs, NEW k \in Keys, NEW from, NEW to \in Tried,
           Writing(p, k, from), Tries(p, k, to)
    PROVE  \E job :
             /\ job # None /\ IsJob(job) /\ job.try = to
             /\ queue' = [queue EXCEPT ![p] = [queue[p] EXCEPT ![k] = job]]
             /\ queue'[p] = [j \in Keys |-> queue'[p][j]] /\ queue'[p][k] = job
             /\ \A j \in Keys \ {k} : /\ queue'[p][j] = queue[p][j]
                                      /\ queue[p][j] = None \/ queue[p][j].try = "first"
<1> DEFINE Jobs == [v : Versions, alone : BOOLEAN, try : Tried]
           job == [queue[p][k] EXCEPT !.try = to]
<1>1. queue[p] = [j \in Keys |-> queue[p][j]] /\ queue = [q \in Procs |-> queue[q]]
  BY Zenon DEF ClearInv, Forms
<1>2. queue[p][k] \in Jobs
  <2>1. queue \in [Procs -> [Keys -> Jobs \cup {None}]] /\ queue[p][k] # None
    BY Zenon DEF TypeOK, Writing
  <2> HIDE DEF Jobs
  <2> QED
    BY <2>1, Zenon
<1>3. job \in Jobs /\ IsJob(job) /\ job.try = to
  BY <1>2 DEF IsJob
<1>4. None \notin Jobs
  <2>1. Versions \subseteq Nat
    BY TieredAssumption DEF Versions
  <2>3. ASSUME NEW j \in Jobs
        PROVE  j \in [v : Nat, alone : BOOLEAN, try : Tried]
    BY <2>1
  <2> QED
    BY <2>3, TieredAssumption, Zenon
<1>5. queue' = [queue EXCEPT ![p] = [queue[p] EXCEPT ![k] = job]]
  BY <1>1, Zenon DEF Tries
<1>6. queue'[p] = [queue[p] EXCEPT ![k] = job]
  BY <1>1, <1>5, Zenon
<1>7. /\ queue'[p] = [j \in Keys |-> queue'[p][j]] /\ queue'[p][k] = job
      /\ \A j \in Keys \ {k} : queue'[p][j] = queue[p][j]
  BY <1>1, <1>6, Zenon
<1>8. \A j \in Keys \ {k} : queue[p][j] = None \/ queue[p][j].try = "first"
  BY Zenon DEF Writing
<1>9. job # None
  BY <1>3, <1>4, Zenon
<1> HIDE DEF job, Jobs
<1> QED
  BY <1>3, <1>5, <1>7, <1>8, <1>9, Zenon

\* A background write that stamps nothing.
LEMMA PlainWrites ==
    ASSUME ClearInv, TypeOK, NEW p \in Procs, NEW k \in Keys,
           Land(p, k) \/ LandFails(p, k) \/ Recreate(p, k) \/ (RecreateStamp(p, k) /\ ~dir)
    PROVE  ClearInv'
<1>1. UNCHANGED <<stamp, stamps, ram, own, watch, threadVars>>
  BY Zenon DEF Land, LandFails, Recreate, RecreateStamp, diskVars
<1>2. ~Stamper(queue[p][k])
  BY Zenon DEF Land, LandFails, Recreate, RecreateStamp, Writing, Stamper
<1>3. CASE Land(p, k) \/ LandFails(p, k)
  <2>1. queue' = [queue EXCEPT ![p] = [queue[p] EXCEPT ![k] = None]]
    BY <1>3, Zenon DEF Land, LandFails
  <2>2. ~Stamper(None) /\ (None # None => IsJob(None))
    BY Zenon DEF Stamper
  <2> QED
    BY <1>1, <1>2, <2>1, <2>2, WriteSteps, Zenon
<1>4. CASE Recreate(p, k) \/ (RecreateStamp(p, k) /\ ~dir)
  <2>1. PICK to \in {"stamp", "again"}, from \in {"first", "stamp"} : Tries(p, k, to) /\ Writing(p, k, from)
    BY <1>4, Zenon DEF Recreate, RecreateStamp
  <2>2. to \in Tried
    BY Zenon DEF Tried
  <2>3. PICK job : /\ job # None /\ IsJob(job) /\ job.try = to
                   /\ queue' = [queue EXCEPT ![p] = [queue[p] EXCEPT ![k] = job]]
                   /\ queue'[p] = [j \in Keys |-> queue'[p][j]] /\ queue'[p][k] = job
                   /\ \A j \in Keys \ {k} : /\ queue'[p][j] = queue[p][j]
                                            /\ queue[p][j] = None \/ queue[p][j].try = "first"
    BY <2>1, <2>2, GoesOn, Zenon
  <2>4. ~Stamper(job)
    BY <2>3, Zenon DEF Stamper
  <2> QED
    BY <1>1, <1>2, <2>3, <2>4, WriteSteps, Zenon
<1> QED
  BY <1>3, <1>4, Zenon

\* The writer stamps the directory, reads the stamp back and counts it.
LEMMA StampingWrites ==
    ASSUME ClearInv, TypeOK, NEW p \in Procs, NEW k \in Keys,
           (RecreateStamp(p, k) /\ dir) \/ RecreateRead(p, k) \/ RecreateCount(p, k)
    PROVE  ClearInv'
<1> DEFINE Knows == [generation : Int, seen : Nat]
           Owns == [initialized : BOOLEAN, writes : Nat, written : Nat]
<1>1. /\ Good(p) /\ Shape(p) /\ Numbers(p) /\ Noticed(p) /\ ram[p] = [j \in Keys |-> ram[p][j]]
      /\ ram = [q \in Procs |-> ram[q]] /\ watch[p] \in Knows /\ own \in [Procs -> Owns] /\ own[p] \in Owns
  BY Zenon DEF ClearInv, Forms, Good
<1>2. UNCHANGED <<watch, pc, got, tok, num>>
  BY Zenon DEF RecreateStamp, RecreateRead, RecreateCount, threadVars
<1>3. Gen(p)' = Gen(p) /\ Seen(p)' = Seen(p) /\ pc'[p] = pc[p] /\ tok'[p] = tok[p] /\ num'[p] = num[p]
  BY <1>2, Zenon DEF Gen, Seen
<1>4. CASE RecreateStamp(p, k) /\ dir
  <2>1. Writing(p, k, "stamp") /\ Tries(p, k, "written") /\ UNCHANGED <<ram, own>> /\ NewStamp
    BY <1>4, Zenon DEF RecreateStamp
  <2>2. "written" \in Tried
    BY Zenon DEF Tried
  <2>3. PICK job : /\ job # None /\ IsJob(job) /\ job.try = "written"
                   /\ queue' = [queue EXCEPT ![p] = [queue[p] EXCEPT ![k] = job]]
                   /\ queue'[p] = [j \in Keys |-> queue'[p][j]] /\ queue'[p][k] = job
                   /\ \A j \in Keys \ {k} : /\ queue'[p][j] = queue[p][j]
                                            /\ queue[p][j] = None \/ queue[p][j].try = "first"
    BY <2>1, <2>2, GoesOn, Zenon
  <2>4. ~Stamping(p) /\ Stamping(p)' /\ ~Counting(p)'
    BY <2>1, <2>3, Zenon DEF Stamping, Counting, Writing
  <2>5. Shape(p)' /\ (Told(p)' => Told(p)) /\ (Due(p)' => Due(p)) /\ KnowsTheSame(p)
    BY <1>1, <1>2, <1>3, <2>1, <2>3, Zenon DEF Shape, Told, Due, At, KnowsTheSame, Writes, Written
  <2>6. Numbers(p)' /\ Noticed(p)'
    BY <1>1, <1>3, <2>1, <2>4, <2>5, WriterStamps, Zenon DEF NewStamp
  <2>7. StepOf(p)
    BY <1>2, <2>1, <2>3, Zenon DEF ClearInv, Forms, StepOf
  <2>8. Moves
    BY <2>1, Zenon DEF Moves, NewStamp
  <2> QED
    BY <1>1, <1>2, <2>1, <2>3, <2>5, <2>6, <2>7, <2>8, OneProcess, Zenon DEF Good
<1>5. CASE RecreateRead(p, k)
  <2>1. /\ Writing(p, k, "written") /\ Tries(p, k, "count") /\ UNCHANGED <<stamp, stamps>>
        /\ own' = [own EXCEPT ![p] = ReadBack(own[p])]
        /\ ram' = [ram EXCEPT ![p] = Mark(p, Keys, "due", "told")]
    BY <1>5, Zenon DEF RecreateRead, diskVars
  <2>2. "count" \in Tried
    BY Zenon DEF Tried
  <2>3. PICK job : /\ job # None /\ IsJob(job) /\ job.try = "count"
                   /\ queue' = [queue EXCEPT ![p] = [queue[p] EXCEPT ![k] = job]]
                   /\ queue'[p] = [j \in Keys |-> queue'[p][j]] /\ queue'[p][k] = job
                   /\ \A j \in Keys \ {k} : /\ queue'[p][j] = queue[p][j]
                                            /\ queue[p][j] = None \/ queue[p][j].try = "first"
    BY <2>1, <2>2, GoesOn, Zenon
  <2>4. Stamping(p) /\ Stamping(p)'
    BY <2>1, <2>3, Zenon DEF Stamping, Writing
  <2>5. ram'[p] = Mark(p, Keys, "due", "told") /\ ram'[p] = [j \in Keys |-> ram'[p][j]]
    <3>1. ram'[p] = Mark(p, Keys, "due", "told")
      BY <1>1, <2>1, Zenon
    <3> QED
      BY <3>1, Zenon DEF Mark
  <2>6. \A j \in Keys : \/ ram'[p][j] = ram[p][j] /\ (ram[p][j] = None \/ ram[p][j].mark # "due")
                        \/ /\ ram[p][j] # None /\ ram[p][j].mark = "due"
                           /\ IsCopy(ram'[p][j]) /\ ram'[p][j].mark = "told"
    <3> DEFINE from == "due"
               to == "told"
    <3>1. Shape(p) /\ ram'[p] = Mark(p, Keys, from, to)
      BY <1>1, <2>5, Zenon
    <3> HIDE DEF from, to
    <3>2. \A j \in Keys : \/ ram'[p][j] = ram[p][j] /\ (ram[p][j] = None \/ ram[p][j].mark # from)
                          \/ /\ ram[p][j] # None /\ ram[p][j].mark = from
                             /\ IsCopy(ram'[p][j]) /\ ram'[p][j].mark = to
      BY <3>1, TierRemarks
    <3> QED
      BY <3>2, Zenon DEF from, to
  <2>7. Shape(p)'
    <3>1. \A j \in Keys : queue'[p][j] # None => IsJob(queue'[p][j])
      BY <1>1, <2>3, Zenon DEF Shape
    <3>2. \A j \in Keys : ram'[p][j] # None => IsCopy(ram'[p][j])
      BY <1>1, <2>6, Zenon DEF Shape
    <3> QED
      BY <1>1, <1>2, <3>1, <3>2, Zenon DEF Shape
  <2>8. ~Due(p)'
    BY <2>6, Zenon DEF Due
  <2>9. Told(p)' => Told(p) \/ Due(p)
    BY <1>2, <2>6, Zenon DEF Told, Due, At
  <2>10. own'[p] = ReadBack(own[p]) /\ stamp \in Nat
    BY <1>1, <2>1, Zenon DEF Numbers
  <2>11. own'[p] \in Owns /\ own'[p].writes = own[p].writes /\ own'[p].written = stamp
    BY <1>1, <2>10 DEF ReadBack
  <2>12. Numbers(p)' /\ Noticed(p)'
    BY <1>1, <1>3, <2>1, <2>4, <2>8, <2>9, <2>11, WriterReads, Zenon DEF Writes, Written
  <2>13. StepOf(p)
    BY <1>1, <1>2, <2>1, <2>3, <2>5, <2>10, Zenon DEF ClearInv, Forms, StepOf
  <2>14. Moves
    BY <1>1, <2>1 DEF Moves, Numbers
  <2> QED
    BY <1>1, <1>2, <2>3, <2>5, <2>7, <2>11, <2>12, <2>13, <2>14, OneProcess, Zenon DEF Good
<1>6. CASE RecreateCount(p, k)
  <2>1. /\ Writing(p, k, "count") /\ Tries(p, k, "again") /\ UNCHANGED <<stamp, stamps, ram>>
        /\ own' = [own EXCEPT ![p] = CountWrite(own[p])]
    BY <1>6, Zenon DEF RecreateCount, diskVars
  <2>2. "again" \in Tried
    BY Zenon DEF Tried
  <2>3. PICK job : /\ job # None /\ IsJob(job) /\ job.try = "again"
                   /\ queue' = [queue EXCEPT ![p] = [queue[p] EXCEPT ![k] = job]]
                   /\ queue'[p] = [j \in Keys |-> queue'[p][j]] /\ queue'[p][k] = job
                   /\ \A j \in Keys \ {k} : /\ queue'[p][j] = queue[p][j]
                                            /\ queue[p][j] = None \/ queue[p][j].try = "first"
    BY <2>1, <2>2, GoesOn, Zenon
  <2>4. Stamping(p) /\ ~Stamping(p)' /\ Counting(p)
    BY <2>1, <2>3, Zenon DEF Stamping, Counting, Writing
  <2>5. Shape(p)' /\ (Told(p)' => Told(p)) /\ (Due(p)' => Due(p))
    BY <1>1, <1>2, <2>1, <2>3, Zenon DEF Shape, Told, Due, At
  <2>6. own'[p] = CountWrite(own[p])
    BY <1>1, <2>1, Zenon
  <2>7. own'[p] \in Owns /\ own'[p].writes = own[p].writes + 1 /\ own'[p].written = own[p].written
    BY <1>1, <2>6 DEF CountWrite
  <2>8. Numbers(p)' /\ Noticed(p)'
    BY <1>1, <1>3, <2>1, <2>4, <2>5, <2>7, WriterCounts, Zenon DEF Writes, Written
  <2>9. StepOf(p)
    BY <1>1, <1>2, <2>1, <2>3, <2>6, Zenon DEF ClearInv, Forms, StepOf
  <2>10. Moves
    BY <1>1, <2>1 DEF Moves, Numbers
  <2>11. ram'[p] = [j \in Keys |-> ram'[p][j]]
    BY <1>1, <2>1, Zenon
  <2> QED
    BY <1>1, <1>2, <2>3, <2>5, <2>7, <2>8, <2>9, <2>10, <2>11, OneProcess, Zenon DEF Good
<1> QED
  BY <1>4, <1>5, <1>6, Zenon

\* A look begins.
LEMMA GetStep ==
    ASSUME ClearInv, NEW p \in Procs, NEW k \in Keys, Get(p, k)
    PROVE  ClearInv'
<1>1. /\ Shape(p) /\ Numbers(p) /\ Noticed(p) /\ watch[p] \in [generation : Int, seen : Nat]
      /\ own[p] \in [initialized : BOOLEAN, writes : Nat, written : Nat]
  BY Zenon DEF ClearInv, Forms, Good
<1>2. UNCHANGED <<stamp, stamps, got, num, queue, own, watch>> /\ At(p, "idle")
  BY Zenon DEF Get, diskVars
<1>3. At(p, "writes")' /\ tok'[p] = stamp
  BY Zenon DEF ClearInv, Forms, Get, At, Call
<1>4. ram'[p] = IF Stamping(p) THEN ram[p] ELSE Mark(p, Keys, "told", "due")
  BY Zenon DEF ClearInv, Forms, Get
<1>5. KnowsTheSame(p) /\ WritesTheSame(p) /\ num'[p] = num[p] /\ queue'[p] = queue[p]
  BY <1>2, SameJobs, Zenon DEF KnowsTheSame, Gen, Seen, Writes, Written
<1>6. ~Due(p) /\ (Counting(p) => Stamping(p))
  BY <1>1, <1>2, Zenon DEF Noticed, At, Counting, Stamping
<1>7. /\ Shape(p)' /\ ram'[p] = [j \in Keys |-> ram'[p][j]]
      /\ (Told(p)' => Told(p)) /\ (Due(p)' => Told(p) /\ ~Stamping(p))
  <2>1. CASE Stamping(p)
    BY <1>1, <1>2, <1>3, <1>4, <1>6, <2>1, Zenon DEF ClearInv, Forms, Shape, Told, Due, At
  <2>2. CASE ~Stamping(p)
    <3> DEFINE from == "told"
               to == "due"
    <3>1. Shape(p) /\ ram'[p] = Mark(p, Keys, from, to)
      BY <1>1, <1>4, <2>2, Zenon
    <3> HIDE DEF from, to
    <3>2. \A j \in Keys : \/ ram'[p][j] = ram[p][j] /\ (ram[p][j] = None \/ ram[p][j].mark # from)
                          \/ /\ ram[p][j] # None /\ ram[p][j].mark = from
                             /\ IsCopy(ram'[p][j]) /\ ram'[p][j].mark = to
      BY <3>1, TierRemarks
    <3>3. Shape(p)'
      BY <1>1, <1>2, <3>2, Zenon DEF Shape
    <3>4. ram'[p] = [j \in Keys |-> ram'[p][j]]
      BY <3>1, Zenon DEF Mark
    <3>5. Due(p)' => Told(p)
      BY <1>6, <3>2, Zenon DEF from, Due, Told
    <3>6. Told(p)' => Told(p)
      BY <1>3, <3>2, Zenon DEF to, Told, At
    <3> QED
      BY <2>2, <3>3, <3>4, <3>5, <3>6, Zenon
  <2> QED
    BY <2>1, <2>2, Zenon
<1>8. Numbers(p)' /\ Noticed(p)'
  BY <1>1, <1>2, <1>3, <1>5, <1>6, <1>7, LookBegins, Zenon
<1>9. StepOf(p)
  BY <1>2, <1>3, <1>4, Zenon DEF ClearInv, Forms, StepOf, Get, Call, At
<1>10. Moves
  BY <1>1, <1>2 DEF Moves, Numbers
<1>11. queue'[p] = [j \in Keys |-> queue'[p][j]] /\ watch'[p] = watch[p] /\ own'[p] = own[p]
  BY <1>2, Zenon DEF ClearInv, Forms
<1> QED
  BY <1>1, <1>7, <1>8, <1>9, <1>10, <1>11, OneProcess, Zenon DEF Good

\* It goes on, ...
LEMMA StampWritesStep ==
    ASSUME ClearInv, NEW p \in Procs, StampWrites(p)
    PROVE  ClearInv'
<1>1. /\ Shape(p) /\ Numbers(p) /\ Noticed(p) /\ watch[p] \in [generation : Int, seen : Nat]
      /\ own[p] \in [initialized : BOOLEAN, writes : Nat, written : Nat]
  BY Zenon DEF ClearInv, Forms, Good
<1>2. UNCHANGED <<stamp, stamps, ram, got, tok, queue, own, watch>> /\ At(p, "writes")
  BY Zenon DEF StampWrites, diskVars
<1>3. At(p, "compare")' /\ num'[p] = Writes(p) /\ tok'[p] = tok[p]
  BY <1>2, Zenon DEF ClearInv, Forms, StampWrites, At, Goto, Call, Writes
<1>4. KnowsTheSame(p) /\ WritesTheSame(p) /\ queue'[p] = queue[p]
  BY <1>2, SameJobs, Zenon DEF KnowsTheSame, Gen, Seen, Writes, Written
<1>5. Shape(p)' /\ (Told(p)' => Told(p)) /\ (Due(p)' => Due(p))
  BY <1>1, <1>2, <1>3, Zenon DEF Shape, Told, Due, At
<1>6. Numbers(p)' /\ Noticed(p)'
  BY <1>1, <1>2, <1>3, <1>4, <1>5, LookReads, Zenon
<1>7. StepOf(p)
  BY <1>2, <1>3, Zenon DEF ClearInv, Forms, StepOf, StampWrites, Goto, Call, At
<1>8. Moves
  BY <1>1, <1>2 DEF Moves, Numbers
<1>9. /\ ram'[p] = [j \in Keys |-> ram'[p][j]] /\ queue'[p] = [j \in Keys |-> queue'[p][j]]
      /\ watch'[p] = watch[p] /\ own'[p] = own[p]
  BY <1>2, Zenon DEF ClearInv, Forms
<1> QED
  BY <1>1, <1>5, <1>6, <1>7, <1>8, <1>9, OneProcess, Zenon DEF Good

\* ... and ends.
LEMMA CompareStep ==
    ASSUME ClearInv, NEW p \in Procs, Compare(p)
    PROVE  ClearInv'
<1>1. /\ Shape(p) /\ Numbers(p) /\ Noticed(p)
      /\ own[p] \in [initialized : BOOLEAN, writes : Nat, written : Nat]
  BY Zenon DEF ClearInv, Forms, Good
<1>2. UNCHANGED <<stamp, stamps, got, queue, own>> /\ At(p, "compare")
  BY Zenon DEF Compare, diskVars
<1>3. PICK where \in {"idle", "disk"} : pc' = [pc EXCEPT ![p] = where]
  BY Zenon DEF Compare, Goto, Call
<1>4. pc'[p] = where /\ Elsewhere(p)' /\ tok'[p] = NoStamp /\ num'[p] = 0
  BY <1>3, Zenon DEF ClearInv, Forms, Compare, Elsewhere, At
<1>5. watch'[p] = [generation |-> tok[p], seen |-> num[p]]
  BY Zenon DEF ClearInv, Forms, Compare
<1>6. Gen(p)' = tok[p] /\ Seen(p)' = num[p] /\ Writes(p)' = Writes(p) /\ Written(p)' = Written(p)
  BY <1>2, <1>5 DEF Gen, Seen, Writes, Written
<1>7. tok[p] \in Int /\ num[p] \in Nat
  BY <1>1, <1>2 DEF Numbers
<1>8. ram'[p] = IF Cleared(p, tok[p], num[p]) THEN [j \in Keys |-> None] ELSE ram[p]
  BY Zenon DEF ClearInv, Forms, Compare
<1>9. Shape(p)' /\ (Told(p)' => Told(p)) /\ (Due(p)' => Due(p)) /\ ram'[p] = [j \in Keys |-> ram'[p][j]]
  <2>1. CASE Cleared(p, tok[p], num[p])
    BY <1>1, <1>2, <1>4, <1>8, <2>1, Zenon DEF Shape, Told, Due, At
  <2>2. CASE ~Cleared(p, tok[p], num[p])
    BY <1>1, <1>2, <1>4, <1>8, <2>2, Zenon DEF ClearInv, Forms, Shape, Told, Due, At
  <2> QED
    BY <2>1, <2>2, Zenon
<1>10. Cleared(p, tok[p], num[p]) <=> Finds(Gen(p), Seen(p), Written(p), tok[p], num[p])
  BY <1>1, <1>7, ClearedFinds
<1>11. Finds(Gen(p), Seen(p), Written(p), tok[p], num[p]) => ~Told(p)' /\ ~Due(p)'
  BY <1>4, <1>8, <1>10, Zenon DEF Told, Due, At
<1>12. WritesTheSame(p) /\ queue'[p] = queue[p]
  BY <1>2, SameJobs, Zenon
<1>13. Numbers(p)' /\ Noticed(p)'
  BY <1>1, <1>2, <1>4, <1>6, <1>9, <1>11, <1>12, LookEnds, Zenon
<1>14. StepOf(p)
  BY <1>2, <1>3, <1>4, <1>5, <1>8, Zenon DEF ClearInv, Forms, StepOf, Compare
<1>15. Moves
  BY <1>1, <1>2 DEF Moves, Numbers
<1>16. queue'[p] = [j \in Keys |-> queue'[p][j]] /\ own'[p] = own[p]
  BY <1>2, Zenon DEF ClearInv, Forms
<1>17. watch'[p] \in [generation : Int, seen : Nat]
  BY <1>5, <1>7
<1> QED
  BY <1>1, <1>9, <1>13, <1>14, <1>15, <1>16, <1>17, OneProcess, Zenon DEF Good

\* Nothing is in RAM before the disk tier's first use, nor while that stamps
\* the directory.
Cold(p) ==
    /\ At(p, "promote") => own[p].initialized
    /\ ~own[p].initialized \/ At(p, "stamp") \/ At(p, "written") => \A k \in Keys : ram[p][k] = None
ColdInv == \A p \in Procs : Cold(p)

\* The disk tier's first use stamps the directory.
LEMMA StampCheckSteps ==
    ASSUME ClearInv, ColdInv, NEW p \in Procs, StampCheck(p) \/ StampCheckRead(p)
    PROVE  ClearInv'
<1> DEFINE Owns == [initialized : BOOLEAN, writes : Nat, written : Nat]
<1>1. /\ Shape(p) /\ Numbers(p) /\ Noticed(p) /\ watch[p] \in [generation : Int, seen : Nat]
      /\ own[p] \in Owns /\ own \in [Procs -> Owns]
  BY Zenon DEF ClearInv, Forms, Good
<1>2. UNCHANGED <<ram, got, tok, num, queue, watch>>
  BY Zenon DEF StampCheck, StampCheckRead
<1>3. PICK where \in {"written", "disk"} : pc' = [pc EXCEPT ![p] = where]
  BY Zenon DEF StampCheck, StampCheckRead, Goto, Call
<1>4. pc'[p] = where /\ Elsewhere(p) /\ Elsewhere(p)' /\ (At(p, "stamp") \/ At(p, "written"))
  BY <1>3, Zenon DEF ClearInv, Forms, StampCheck, StampCheckRead, Elsewhere, At
<1>5. Shape(p)' /\ ~Told(p)' /\ ~Due(p)' /\ WritesTheSame(p)
  <2>1. \A k \in Keys : ram[p][k] = None
    BY <1>4, Zenon DEF ColdInv, Cold
  <2> QED
    BY <1>1, <1>2, <1>4, <2>1, SameJobs, Zenon DEF Shape, Told, Due, At
<1>6. /\ ram'[p] = [j \in Keys |-> ram'[p][j]] /\ queue'[p] = [j \in Keys |-> queue'[p][j]]
      /\ watch'[p] = watch[p] /\ tok'[p] = tok[p] /\ num'[p] = num[p]
  BY <1>2, Zenon DEF ClearInv, Forms
<1>7. Moves /\ own'[p] \in Owns /\ own' = [own EXCEPT ![p] = own'[p]] /\ Numbers(p)' /\ Noticed(p)'
  <2>1. CASE StampCheck(p)
    <3>1. own' = own /\ (NewStamp \/ UNCHANGED <<stamp, stamps>>)
      BY <2>1, Zenon DEF StampCheck
    <3>2. Moves
      BY <1>1, <3>1 DEF Moves, NewStamp, Numbers
    <3>3. KnowsTheSame(p) /\ own'[p] = own[p] /\ own' = [own EXCEPT ![p] = own'[p]]
      BY <1>1, <1>2, <3>1, Zenon DEF KnowsTheSame, Gen, Seen, Writes, Written
    <3>4. num[p] \in Int
      BY <1>1, Zenon DEF Numbers
    <3>5. Numbers(p)' /\ Noticed(p)'
      BY <1>1, <1>4, <1>5, <1>6, <3>2, <3>3, <3>4, Stays, Zenon
    <3> QED
      BY <1>1, <3>2, <3>3, <3>5, Zenon
  <2>2. CASE StampCheckRead(p)
    <3>1. UNCHANGED <<stamp, stamps>> /\ own' = [own EXCEPT ![p] = CountWrite(ReadBack(own[p]))]
      BY <2>2, Zenon DEF StampCheckRead, diskVars
    <3>2. own'[p] = CountWrite(ReadBack(own[p])) /\ stamp \in Nat
      BY <1>1, <3>1, Zenon DEF Numbers
    <3>3. own'[p] \in Owns /\ own'[p].writes = own[p].writes + 1 /\ own'[p].written = stamp
      <4> DEFINE o == ReadBack(own[p])
      <4>1. o \in Owns /\ o.writes = own[p].writes /\ o.written = stamp
        BY <1>1, <3>2 DEF ReadBack
      <4>2. own'[p] = CountWrite(o)
        BY <3>2, Zenon
      <4> HIDE DEF o
      <4> QED
        BY <4>1, <4>2 DEF CountWrite
    <3>4. Gen(p)' = Gen(p) /\ Seen(p)' = Seen(p) /\ Writes(p)' = Writes(p) + 1 /\ Written(p)' = stamp
      BY <1>2, <3>3, Zenon DEF Gen, Seen, Writes, Written
    <3>5. Numbers(p)'
      BY <1>1, <1>4, <1>6, <3>1, <3>4 DEF Numbers, Elsewhere, At
    <3>6. Noticed(p)'
      BY <1>5, Zenon DEF Noticed
    <3>7. Moves
      BY <1>1, <3>1 DEF Moves, Numbers
    <3> QED
      BY <3>1, <3>2, <3>3, <3>5, <3>6, <3>7, Zenon
  <2> QED
    BY <2>1, <2>2, Zenon
<1>8. StepOf(p)
  BY <1>2, <1>3, <1>4, <1>7, Zenon DEF ClearInv, Forms, StepOf
<1> QED
  BY <1>1, <1>5, <1>6, <1>7, <1>8, OneProcess, Zenon DEF Good

-----------------------------------------------------------------------------
(* Clears.                                                                 *)

\* What a clear leaves alone in a process.
Untouched(q) ==
    /\ queue'[q] = queue[q] /\ pc'[q] = pc[q] /\ tok'[q] = tok[q] /\ num'[q] = num[q]
    /\ watch'[q] = watch[q] /\ own'[q] = own[q]

\* A process from whose copies a clear removes the entries, ...
LEMMA RemovedProcess ==
    ASSUME NEW q, Good(q), Moves, Untouched(q), NEW ks,
           ram'[q] = Mark(q, ks, "none", "removed"), got'[q] = MarkGot(q, ks, "none", "removed")
    PROVE  Good(q)'
<1>1. KnowsTheSame(q)
  BY Zenon DEF KnowsTheSame, Gen, Seen, Writes, Written, Untouched
<1>2. Shape(q) /\ Numbers(q) /\ Noticed(q)
  BY Zenon DEF Good
<1> DEFINE from == "none"
           to == "removed"
<1>3. ram'[q] = Mark(q, ks, from, to) /\ got'[q] = MarkGot(q, ks, from, to)
  OBVIOUS
<1>4. from \in {"none", "removed"} /\ to \in {"none", "removed", "told"} /\ to # "told"
  OBVIOUS
<1> HIDE DEF from, to
<1>5. Shape(q)' /\ (Due(q)' => Due(q)) /\ (Told(q)' => Told(q))
  BY <1>2, <1>3, <1>4, MarksChange DEF Untouched
<1>6. Numbers(q)' /\ Noticed(q)'
  BY <1>1, <1>2, <1>5, SameJobs, Stays, Zenon DEF Untouched
<1> QED
  BY <1>5, <1>6, Zenon DEF Good

\* ... and one for which the stamp moves after that.
LEMMA MovedProcess ==
    ASSUME NEW q, Good(q), Moves, Untouched(q), NEW ks, stamp' \in {NoStamp, stamps + 1},
           ram'[q] = Mark(q, ks, "removed", MovedFor(q)), got'[q] = MarkGot(q, ks, "removed", MovedFor(q))
    PROVE  Good(q)'
<1>1. KnowsTheSame(q)
  BY Zenon DEF KnowsTheSame, Gen, Seen, Writes, Written, Untouched
<1>2. Shape(q) /\ Numbers(q) /\ Noticed(q)
  BY Zenon DEF Good
<1> DEFINE from == "removed"
           to == MovedFor(q)
<1>3. ram'[q] = Mark(q, ks, from, to) /\ got'[q] = MarkGot(q, ks, from, to)
  OBVIOUS
<1>4. from \in {"none", "removed"} /\ to \in {"none", "removed", "told"} /\ (to = "told" => Remembers(q))
  BY Zenon DEF MovedFor
<1> HIDE DEF from, to
<1>5. Shape(q)' /\ (Due(q)' => Due(q)) /\ (Told(q)' => Told(q) \/ Remembers(q))
  BY <1>2, <1>3, <1>4, MarksChange DEF Untouched
<1>6. Numbers(q)' /\ Noticed(q)'
  BY <1>1, <1>2, <1>5, SameJobs, Stays, Zenon DEF Untouched
<1> QED
  BY <1>5, <1>6, Zenon DEF Good

\* `cash clear' in a process of its own: it removes, or moves the stamp.
LEMMA CliMarks ==
    ASSUME ClearInv, NEW ks, UNCHANGED <<queue, own, watch, pc, tok, num>>, Moves,
           Remove(ks) \/ (Tell(ks) /\ stamp' \in {NoStamp, stamps + 1})
    PROVE  ClearInv'
<1>1. ram' = [q \in Procs |-> [k \in Keys |-> ram'[q][k]]] /\ got' = [q \in Procs |-> got'[q]]
  BY Zenon DEF Remove, Tell, Mark
<1>2. Forms'
  BY <1>1, Zenon DEF ClearInv, Forms
<1>3. ASSUME NEW q \in Procs
      PROVE  Good(q)'
  <2>1. Good(q) /\ Untouched(q)
    BY Zenon DEF ClearInv, Untouched
  <2>2. CASE Remove(ks)
    <3>1. ram'[q] = Mark(q, ks, "none", "removed") /\ got'[q] = MarkGot(q, ks, "none", "removed")
      BY <2>2, Zenon DEF Remove
    <3> QED
      BY <2>1, <3>1, RemovedProcess, Zenon
  <2>3. CASE Tell(ks) /\ stamp' \in {NoStamp, stamps + 1}
    <3>1. ram'[q] = Mark(q, ks, "removed", MovedFor(q)) /\ got'[q] = MarkGot(q, ks, "removed", MovedFor(q))
      BY <2>3, Zenon DEF Tell
    <3>2. stamp' \in {NoStamp, stamps + 1}
      BY <2>3, Zenon
    <3> QED
      BY <2>1, <3>1, <3>2, MovedProcess
  <2> QED
    BY <2>2, <2>3, Zenon
<1> QED
  BY <1>2, <1>3, Zenon DEF ClearInv

\* The steps of `cash clear`: it marks the copies it removes for each process
\* that remembers a stamp, and moves or unlinks the stamp.
LEMMA CliSteps ==
    ASSUME ClearInv,
           \/ \E k \in Keys : CliDelete(k) \/ CliUnlink(k)
           \/ CliBump \/ CliList \/ CliUnlinkStamp \/ CliRmdir
    PROVE  ClearInv'
<1>1. UNCHANGED <<queue, own, watch, pc, tok, num>>
  BY Zenon DEF CliDelete, CliUnlink, CliBump, CliList, CliUnlinkStamp, CliRmdir, cliUnchanged
<1>2. CASE Procs = {}
  BY <1>1, <1>2 DEF ClearInv, Forms, CliDelete, CliUnlink, CliBump, CliList, CliUnlinkStamp, CliRmdir, Remove, Tell
<1>3. CASE Procs # {}
  <2>1. stamp \in Nat /\ stamps \in Nat /\ stamp <= stamps
    BY <1>3, Zenon DEF ClearInv, Good, Numbers
  <2>2. Moves
    <3>1. \/ UNCHANGED <<stamp, stamps>> \/ NewStamp
          \/ stamp' = NoStamp /\ UNCHANGED stamps
      BY Zenon DEF CliDelete, CliUnlink, CliBump, CliList, CliUnlinkStamp, CliRmdir, diskVars, BumpStamp
    <3> QED
      BY <2>1, <3>1 DEF Moves, NewStamp, NoStamp
  <2>3. CASE UNCHANGED <<ram, got>>
    <3>1. \A q \in Procs : Good(q)'
      BY <1>1, <2>2, <2>3, Bystander, Zenon DEF ClearInv
    <3> QED
      BY <1>1, <2>3, <3>1, Zenon DEF ClearInv, Forms
  <2>4. CASE \E ks : Remove(ks) \/ (Tell(ks) /\ stamp' \in {NoStamp, stamps + 1})
    BY <1>1, <2>2, <2>4, CliMarks, Zenon
  <2>5. UNCHANGED <<ram, got>> \/ \E ks : Remove(ks) \/ (Tell(ks) /\ stamp' \in {NoStamp, stamps + 1})
    BY Zenon DEF CliDelete, CliUnlink, CliBump, CliList, CliUnlinkStamp, CliRmdir, BumpStamp, NewStamp
  <2> QED
    BY <2>3, <2>4, <2>5, Zenon
<1> QED
  BY <1>2, <1>3, Zenon

\* cache_clear deletes: the process's own copy goes, others' are marked.
LEMMA ClearFunctionStep ==
    ASSUME ClearInv, NEW p \in Procs, NEW k \in Keys, ClearFunction(p, k)
    PROVE  ClearInv'
<1>1. /\ UNCHANGED <<stamp, stamps, queue, own, watch, num>> /\ pc[p] = "idle"
      /\ tok' = [tok EXCEPT ![p] = stamp] /\ pc' = [pc EXCEPT ![p] = "bump"]
      /\ ram' = [q \in Procs |-> IF q = p THEN [ram[p] EXCEPT ![k] = None] ELSE Mark(q, {k}, "none", "removed")]
      /\ got' = [q \in Procs |-> MarkGot(q, {k}, "none", "removed")]
  BY Zenon DEF ClearFunction, At, Call
<1>2. /\ tok'[p] = stamp /\ pc'[p] = "bump" /\ got'[p] = got[p]
      /\ ram'[p] = [ram[p] EXCEPT ![k] = None]
  BY <1>1, Zenon DEF ClearInv, Forms, MarkGot, At
<1>3. ram[p] = [j \in Keys |-> ram[p][j]] /\ Shape(p) /\ Numbers(p) /\ Noticed(p)
  BY Zenon DEF ClearInv, Forms, Good
<1>4. \A j \in Keys : ram'[p][j] \in {None, ram[p][j]}
  BY <1>2, <1>3, Zenon
<1>5. Forms'
  <2>1. /\ ram' = [q \in Procs |-> ram'[q]] /\ got' = [q \in Procs |-> got'[q]]
        /\ pc' = [q \in Procs |-> pc'[q]] /\ tok' = [q \in Procs |-> tok'[q]]
    BY <1>1, Zenon DEF ClearInv, Forms
  <2>2. ram'[p] = [j \in Keys |-> ram'[p][j]]
    BY <1>2, <1>3, Zenon
  <2>3. \A q \in Procs \ {p} : ram'[q] = [j \in Keys |-> ram'[q][j]]
    BY <1>1, Zenon DEF Mark
  <2>4. ram' = [q \in Procs |-> [j \in Keys |-> ram'[q][j]]]
    BY <2>1, <2>2, <2>3, Zenon
  <2>5. UNCHANGED <<queue, own, watch, num>>
    BY <1>1, Zenon
  <2> QED
    BY <2>1, <2>4, <2>5, Zenon DEF ClearInv, Forms
<1>6. Moves
  BY <1>1, <1>3 DEF Moves, Numbers
<1>7. Good(p)'
  <2>1. Shape(p)' /\ (Told(p)' => Told(p)) /\ (Due(p)' => Due(p))
    BY <1>1, <1>2, <1>3, <1>4, Zenon DEF Shape, Told, Due, At
  <2>2. KnowsTheSame(p) /\ WritesTheSame(p) /\ Elsewhere(p) /\ Elsewhere(p)'
    BY <1>1, <1>2, SameJobs, Zenon DEF KnowsTheSame, Gen, Seen, Writes, Written, Elsewhere, At
  <2>3. tok'[p] \in {tok[p], stamp, NoStamp} /\ num'[p] \in Int
    BY <1>1, <1>2, <1>3, Zenon DEF Numbers
  <2>4. Numbers(p)' /\ Noticed(p)'
    BY <1>3, <1>6, <2>1, <2>2, <2>3, Stays, Zenon
  <2> QED
    BY <2>1, <2>4, Zenon DEF Good
<1>8. ASSUME NEW q \in Procs \ {p}
      PROVE  Good(q)'
  <2>1. ram'[q] = Mark(q, {k}, "none", "removed") /\ got'[q] = MarkGot(q, {k}, "none", "removed")
    BY <1>1, Zenon
  <2>2. Good(q) /\ Untouched(q)
    BY <1>1, Zenon DEF ClearInv, Forms, Untouched
  <2> QED
    BY <1>6, <2>1, <2>2, RemovedProcess
<1> QED
  BY <1>5, <1>7, <1>8, Zenon DEF ClearInv

\* It moves the stamp, which tells the others.
LEMMA BumpStep ==
    ASSUME ClearInv, NEW p \in Procs, Bump(p)
    PROVE  ClearInv'
<1>1. /\ UNCHANGED <<queue, own, watch, tok>> /\ At(p, "bump") /\ BumpStamp
      /\ num' = [num EXCEPT ![p] = IF stamp = tok[p] THEN stamp' ELSE Unseen]
      /\ pc' = [pc EXCEPT ![p] = "moved"]
      /\ ram' = [q \in Procs |-> IF q = p THEN ram[p] ELSE Mark(q, {key[p]}, "removed", MovedFor(q))]
      /\ got' = [q \in Procs |-> MarkGot(q, {key[p]}, "removed", MovedFor(q))]
  BY Zenon DEF Bump, Goto, Call
<1>2. /\ tok'[p] = tok[p] /\ pc'[p] = "moved" /\ got'[p] = got[p] /\ ram'[p] = ram[p]
      /\ num'[p] = IF stamp = tok[p] THEN stamp' ELSE Unseen
  BY <1>1, Zenon DEF ClearInv, Forms, MarkGot, At
<1>3. ram[p] = [j \in Keys |-> ram[p][j]] /\ Shape(p) /\ Numbers(p) /\ Noticed(p)
  BY Zenon DEF ClearInv, Forms, Good
<1>4. Forms'
  <2>1. /\ ram' = [q \in Procs |-> ram'[q]] /\ got' = [q \in Procs |-> got'[q]]
        /\ pc' = [q \in Procs |-> pc'[q]] /\ num' = [q \in Procs |-> num'[q]]
    BY <1>1, Zenon DEF ClearInv, Forms
  <2>2. ram'[p] = [j \in Keys |-> ram'[p][j]]
    BY <1>2, <1>3, Zenon
  <2>3. \A q \in Procs \ {p} : ram'[q] = [j \in Keys |-> ram'[q][j]]
    BY <1>1, Zenon DEF Mark
  <2>4. ram' = [q \in Procs |-> [j \in Keys |-> ram'[q][j]]]
    BY <2>1, <2>2, <2>3, Zenon
  <2>5. UNCHANGED <<queue, own, watch, tok>>
    BY <1>1, Zenon
  <2> QED
    BY <2>1, <2>4, <2>5, Zenon DEF ClearInv, Forms
<1>5. /\ Moves /\ stamp' \in {NoStamp, stamps + 1} /\ (stamp = NoStamp <=> stamp' = NoStamp)
  BY <1>1, <1>3 DEF Moves, Numbers, BumpStamp, NewStamp, NoStamp
<1>6. Good(p)'
  <2>1. Shape(p)' /\ (Told(p)' => Told(p)) /\ (Due(p)' => Due(p))
    BY <1>1, <1>2, <1>3, Zenon DEF Shape, Told, Due, At
  <2>2. KnowsTheSame(p) /\ WritesTheSame(p) /\ At(p, "moved")'
    BY <1>1, <1>2, SameJobs, Zenon DEF KnowsTheSame, Gen, Seen, Writes, Written, At
  <2>3. Moves /\ (stamp' # stamp \/ stamp = NoStamp)
    BY <1>1, <1>3 DEF Moves, Numbers, BumpStamp, NewStamp, NoStamp
  <2>4. Numbers(p)' /\ Noticed(p)'
    BY <1>1, <1>2, <1>3, <1>5, <2>1, <2>2, <2>3, ClearBumps, Zenon
  <2> QED
    BY <2>1, <2>4, Zenon DEF Good
<1>7. ASSUME NEW q \in Procs \ {p}
      PROVE  Good(q)'
  <2>1. ram'[q] = Mark(q, {key[p]}, "removed", MovedFor(q)) /\ got'[q] = MarkGot(q, {key[p]}, "removed", MovedFor(q))
    BY <1>1, Zenon
  <2>2. Good(q) /\ Untouched(q)
    BY <1>1, Zenon DEF ClearInv, Forms, Untouched
  <2>3. Moves /\ stamp' \in {NoStamp, stamps + 1}
    BY <1>5, Zenon
  <2> QED
    BY <2>1, <2>2, <2>3, MovedProcess
<1> QED
  BY <1>4, <1>6, <1>7, Zenon DEF ClearInv

\* It reads the stamp once more, and takes it for its own or not.
LEMMA MovedByUsStep ==
    ASSUME ClearInv, NEW p \in Procs, MovedByUs(p)
    PROVE  ClearInv'
<1> DEFINE Knows == [generation : Int, seen : Nat]
<1>1. /\ Shape(p) /\ Numbers(p) /\ Noticed(p) /\ watch \in [Procs -> Knows] /\ watch[p] \in Knows
      /\ own[p] \in [initialized : BOOLEAN, writes : Nat, written : Nat]
      /\ ram[p] = [j \in Keys |-> ram[p][j]]
  BY Zenon DEF ClearInv, Forms, Good
<1>2. UNCHANGED <<stamp, stamps, got, queue, own>> /\ At(p, "moved")
  BY Zenon DEF MovedByUs, diskVars
<1>3. At(p, "idle")' /\ tok'[p] = NoStamp /\ num'[p] = 0
  BY Zenon DEF ClearInv, Forms, MovedByUs, Goto, Call, At
<1>4. Writes(p)' = Writes(p) /\ Written(p)' = Written(p) /\ WritesTheSame(p) /\ own'[p] = own[p]
  BY <1>2, SameJobs, Zenon DEF Writes, Written
<1>5. Moves
  BY <1>1, <1>2 DEF Moves, Numbers
<1>6. ram'[p] = (IF OwnMove(p, tok[p]) /\ stamp # num[p] THEN Mark(p, Keys, "told", "none") ELSE ram[p])
  BY Zenon DEF ClearInv, Forms, MovedByUs
<1>7. /\ Shape(p)' /\ ram'[p] = [j \in Keys |-> ram'[p][j]] /\ (Due(p)' => Due(p)) /\ (Told(p)' => Told(p))
      /\ OwnMove(p, tok[p]) /\ stamp # num[p] => ~Told(p)'
  <2>1. CASE OwnMove(p, tok[p]) /\ stamp # num[p]
    <3> DEFINE from == "told"
               to == "none"
    <3>1. Shape(p) /\ ram'[p] = Mark(p, Keys, from, to)
      BY <1>1, <1>6, <2>1, Zenon
    <3> HIDE DEF from, to
    <3>2. \A j \in Keys : \/ ram'[p][j] = ram[p][j] /\ (ram[p][j] = None \/ ram[p][j].mark # from)
                          \/ /\ ram[p][j] # None /\ ram[p][j].mark = from
                             /\ IsCopy(ram'[p][j]) /\ ram'[p][j].mark = to
      BY <3>1, TierRemarks
    <3>3. Shape(p)'
      BY <1>1, <1>2, <3>2, Zenon DEF Shape
    <3>4. ram'[p] = [j \in Keys |-> ram'[p][j]]
      BY <3>1, Zenon DEF Mark
    <3>5. Due(p)' => Due(p)
      BY <3>2, Zenon DEF to, Due
    <3>6. ~Told(p)'
      BY <1>3, <3>2, Zenon DEF from, to, Told, At
    <3> QED
      BY <3>3, <3>4, <3>5, <3>6, Zenon
  <2>2. CASE ~(OwnMove(p, tok[p]) /\ stamp # num[p])
    <3>1. ram'[p] = ram[p]
      BY <1>6, <2>2, Zenon
    <3>2. Shape(p)' /\ (Due(p)' => Due(p)) /\ (Told(p)' => Told(p))
      BY <1>1, <1>2, <1>3, <3>1, Zenon DEF Shape, Told, Due, At
    <3> QED
      BY <1>1, <2>2, <3>1, <3>2, Zenon
  <2> QED
    BY <2>1, <2>2, Zenon
<1>8. /\ watch' = [watch EXCEPT ![p] = watch'[p]] /\ watch'[p] \in Knows
      /\ Numbers(p)' /\ Noticed(p)'
  <2>1. CASE OwnMove(p, tok[p])
    <3>1. watch' = [watch EXCEPT ![p] = [watch[p] EXCEPT !.generation = stamp]] /\ stamp \in Int
      BY <1>1, <2>1 DEF MovedByUs, Numbers
    <3>2. watch'[p] = [watch[p] EXCEPT !.generation = stamp]
      BY <1>1, <3>1, Zenon
    <3>3. watch'[p] \in Knows /\ watch'[p].generation = stamp /\ watch'[p].seen = watch[p].seen
      BY <1>1, <3>1, <3>2
    <3>4. Gen(p)' = stamp /\ Seen(p)' = Seen(p) /\ Gen(p) = tok[p]
      BY <2>1, <3>3, Zenon DEF Gen, Seen, OwnMove
    <3>5. Told(p)' => Told(p) /\ stamp = num[p]
      BY <1>7, <2>1, Zenon
    <3>6. Numbers(p)' /\ Noticed(p)'
      BY <1>1, <1>2, <1>3, <1>4, <1>7, <3>4, <3>5, ClearTakes, Zenon
    <3> QED
      BY <3>1, <3>2, <3>3, <3>6, Zenon
  <2>2. CASE ~OwnMove(p, tok[p])
    <3>1. watch' = watch
      BY <2>2, Zenon DEF MovedByUs
    <3>2. KnowsTheSame(p) /\ watch' = [watch EXCEPT ![p] = watch'[p]] /\ watch'[p] \in Knows
      BY <1>1, <1>4, <3>1, Zenon DEF KnowsTheSame, Gen, Seen
    <3>3. Numbers(p)' /\ Noticed(p)'
      BY <1>1, <1>2, <1>3, <1>4, <1>7, <3>2, ClearLeaves, Zenon
    <3> QED
      BY <3>2, <3>3, Zenon
  <2> QED
    BY <2>1, <2>2, Zenon
<1>9. StepOf(p)
  <2>1. /\ ram' = [ram EXCEPT ![p] = ram'[p]] /\ pc' = [pc EXCEPT ![p] = pc'[p]]
        /\ tok' = [tok EXCEPT ![p] = tok'[p]] /\ num' = [num EXCEPT ![p] = num'[p]]
    BY <1>3, <1>6, Zenon DEF ClearInv, Forms, MovedByUs, Goto, Call, At
  <2> QED
    BY <1>2, <1>8, <2>1, Zenon DEF ClearInv, Forms, StepOf
<1>10. queue'[p] = [j \in Keys |-> queue'[p][j]]
  BY <1>2, Zenon DEF ClearInv, Forms
<1> QED
  BY <1>1, <1>4, <1>5, <1>7, <1>8, <1>9, <1>10, OneProcess, Zenon DEF Good

-----------------------------------------------------------------------------
(* The invariant.                                                          *)

\* No process holds a copy, or has looked at a stamp, at first.
LEMMA ClearInit == Init => ClearInv /\ ColdInv
<1> SUFFICES ASSUME Init PROVE ClearInv /\ ColdInv
  OBVIOUS
<1>1. /\ ram = [p \in Procs |-> [k \in Keys |-> None]] /\ queue = [p \in Procs |-> [k \in Keys |-> None]]
      /\ watch = [p \in Procs |-> [generation |-> Unseen, seen |-> 0]]
      /\ own = [p \in Procs |-> [initialized |-> FALSE, writes |-> 0, written |-> NoStamp]]
      /\ pc = [p \in Procs |-> "idle"] /\ got = [p \in Procs |-> NoCopy]
      /\ tok = [p \in Procs |-> NoStamp] /\ num = [p \in Procs |-> 0]
  BY Zenon DEF Init
<1>2. stamp \in Nat /\ stamp <= stamps /\ stamps = 1
  BY DEF Init, NoStamp
<1>3. Forms
  <2>1. /\ watch \in [Procs -> [generation : Int, seen : Nat]]
        /\ own \in [Procs -> [initialized : BOOLEAN, writes : Nat, written : Nat]]
    BY <1>1 DEF Unseen, NoStamp
  <2> QED
    BY <1>1, <2>1, Zenon DEF Forms
<1>4. ASSUME NEW p \in Procs
      PROVE  Good(p) /\ Cold(p)
  <2>1. /\ \A k \in Keys : ram[p][k] = None /\ queue[p][k] = None
        /\ got[p] = NoCopy /\ pc[p] = "idle" /\ tok[p] = NoStamp /\ num[p] = 0
    BY <1>1, Zenon
  <2>2. Gen(p) = Unseen /\ Seen(p) = 0 /\ Writes(p) = 0 /\ Written(p) = NoStamp
    BY <1>1 DEF Gen, Seen, Writes, Written
  <2>3. IsCopy(NoCopy) /\ NoCopy.mark # "due"
    BY Zenon DEF NoCopy, IsCopy
  <2>4. Shape(p)
    BY <2>1, <2>3, Zenon DEF Shape
  <2>5. Numbers(p)
    BY <1>2, <2>1, <2>2 DEF Numbers, At, NoStamp, Unseen
  <2>6. ~Told(p) /\ ~Due(p)
    BY <2>1, Zenon DEF Told, Due, At
  <2>7. Noticed(p)
    BY <2>6, Zenon DEF Noticed
  <2>8. Cold(p)
    BY <2>1, Zenon DEF Cold, At
  <2> QED
    BY <2>4, <2>5, <2>7, <2>8, Zenon DEF Good
<1> QED
  BY <1>3, <1>4, Zenon DEF ClearInv, ColdInv

\* Every step keeps the invariant.
LEMMA ClearNext ==
    ASSUME ClearInv, ColdInv, TypeOK, [Next]_vars
    PROVE  ClearInv'
<1>1. CASE UNCHANGED vars
  <2>1. UNCHANGED <<stamp, stamps, ram, queue, got, pc, tok, num, watch, own>>
    BY <1>1, Zenon DEF vars, diskVars, threadVars
  <2>2. Forms'
    BY <2>1, Zenon DEF ClearInv, Forms
  <2>3. ASSUME NEW q \in Procs
        PROVE  Good(q)'
    <3>1. Good(q) /\ Numbers(q)
      BY Zenon DEF ClearInv, Good
    <3>2. Moves
      BY <2>1, <3>1 DEF Moves, Numbers
    <3> QED
      BY <2>1, <3>1, <3>2, Bystander, Zenon
  <2> QED
    BY <2>2, <2>3, Zenon DEF ClearInv
<1>2. ASSUME NEW p \in Procs, NEW k \in Keys,
             \/ GetLately(p, k) \/ Get(p, k) \/ PersistFromMemory(p, k) \/ ClearFunction(p, k)
             \/ Set(p, k) \/ SetAlone(p, k)
      PROVE  ClearInv'
  BY <1>2, ReadSteps, GetStep, StoreSteps, ClearFunctionStep, Zenon
<1>3. ASSUME NEW p \in Procs, NEW k \in Keys,
             \/ Land(p, k) \/ LandFails(p, k)
             \/ Recreate(p, k) \/ RecreateStamp(p, k) \/ RecreateRead(p, k) \/ RecreateCount(p, k)
      PROVE  ClearInv'
  BY <1>3, PlainWrites, StampingWrites, Zenon
<1>4. ASSUME NEW p \in Procs,
             \/ StampWrites(p) \/ Compare(p) \/ DiskGet(p) \/ Promote(p)
             \/ EnsureInitialized(p) \/ StampCheck(p) \/ StampCheckRead(p)
             \/ Bump(p) \/ MovedByUs(p)
      PROVE  ClearInv'
  BY <1>4, StampWritesStep, CompareStep, ReadSteps, StoreSteps, StampCheckSteps, BumpStep, MovedByUsStep, Zenon
<1>5. CASE \/ \E k \in Keys : CliDelete(k) \/ CliUnlink(k)
           \/ CliBump \/ CliList \/ CliUnlinkStamp \/ CliRmdir
  BY <1>5, CliSteps, Zenon
<1> QED
  BY <1>1, <1>2, <1>3, <1>4, <1>5, Zenon DEF Next

\* Marks make no copies.
LEMMA MarkKeepsNone ==
    ASSUME NEW p, NEW ks, NEW from, NEW to, NEW k \in Keys, ram[p][k] = None
    PROVE  Mark(p, ks, from, to)[k] = None
BY Zenon DEF Mark, Marked


\* The disk tier stays in use.
LEMMA StaysInitialized ==
    ASSUME ClearInv, Next, NEW q \in Procs, own[q].initialized
    PROVE  own'[q].initialized
<1>1. own \in [Procs -> [initialized : BOOLEAN, writes : Nat, written : Nat]]
  BY Zenon DEF ClearInv, Forms
<1>2. ASSUME NEW o, o \in [initialized : BOOLEAN, writes : Nat, written : Nat]
      PROVE  /\ ReadBack(o).initialized = o.initialized
             /\ CountWrite(o).initialized = o.initialized
             /\ CountWrite(ReadBack(o)).initialized = o.initialized
  BY <1>2 DEF ReadBack, CountWrite
<1>3. \/ own' = own
      \/ \E p \in Procs : \/ own' = [own EXCEPT ![p] = [own[p] EXCEPT !.initialized = TRUE]]
                          \/ own' = [own EXCEPT ![p] = CountWrite(ReadBack(own[p]))]
                          \/ own' = [own EXCEPT ![p] = ReadBack(own[p])]
                          \/ own' = [own EXCEPT ![p] = CountWrite(own[p])]
  <2>1. ASSUME NEW p \in Procs, NEW k \in Keys,
               \/ GetLately(p, k) \/ Get(p, k) \/ PersistFromMemory(p, k) \/ ClearFunction(p, k)
               \/ Set(p, k) \/ SetAlone(p, k) \/ Land(p, k) \/ LandFails(p, k)
               \/ Recreate(p, k) \/ RecreateStamp(p, k)
        PROVE  own' = own
    BY <2>1, Zenon DEF GetLately, Get, PersistFromMemory, ClearFunction, Set, SetAlone, Land, LandFails,
                       Recreate, RecreateStamp, diskVars
  <2>2. ASSUME NEW p \in Procs,
               \/ StampWrites(p) \/ Compare(p) \/ DiskGet(p) \/ Promote(p) \/ StampCheck(p)
               \/ Bump(p) \/ MovedByUs(p)
        PROVE  own' = own
    BY <2>2, Zenon DEF StampWrites, Compare, DiskGet, Promote, StampCheck, Bump, MovedByUs, diskVars
  <2>3. ASSUME \/ \E k \in Keys : CliDelete(k) \/ CliUnlink(k)
               \/ CliBump \/ CliList \/ CliUnlinkStamp \/ CliRmdir
        PROVE  own' = own
    BY <2>3, Zenon DEF CliDelete, CliUnlink, CliBump, CliList, CliUnlinkStamp, CliRmdir, cliUnchanged
  <2>4. ASSUME NEW p \in Procs, EnsureInitialized(p)
        PROVE  own' = [own EXCEPT ![p] = [own[p] EXCEPT !.initialized = TRUE]]
    BY <2>4, Zenon DEF EnsureInitialized
  <2>5. ASSUME NEW p \in Procs, StampCheckRead(p)
        PROVE  own' = [own EXCEPT ![p] = CountWrite(ReadBack(own[p]))]
    BY <2>5, Zenon DEF StampCheckRead
  <2>6. ASSUME NEW p \in Procs, NEW k \in Keys, RecreateRead(p, k)
        PROVE  own' = [own EXCEPT ![p] = ReadBack(own[p])]
    BY <2>6, Zenon DEF RecreateRead
  <2>7. ASSUME NEW p \in Procs, NEW k \in Keys, RecreateCount(p, k)
        PROVE  own' = [own EXCEPT ![p] = CountWrite(own[p])]
    BY <2>7, Zenon DEF RecreateCount
  <2> QED
    BY <2>1, <2>2, <2>3, <2>4, <2>5, <2>6, <2>7, Zenon DEF Next
<1>4. ASSUME NEW p \in Procs, NEW o, own' = [own EXCEPT ![p] = o], o.initialized \/ o.initialized = own[p].initialized
      PROVE  own'[q].initialized
  BY <1>1, <1>4, Zenon
<1>5. \A p \in Procs : own[p] \in [initialized : BOOLEAN, writes : Nat, written : Nat]
  BY <1>1, Zenon
<1>6. \A p \in Procs : [own[p] EXCEPT !.initialized = TRUE].initialized
  BY <1>5
<1>7. ASSUME NEW p \in Procs,
             \/ own' = [own EXCEPT ![p] = [own[p] EXCEPT !.initialized = TRUE]]
             \/ own' = [own EXCEPT ![p] = CountWrite(ReadBack(own[p]))]
             \/ own' = [own EXCEPT ![p] = ReadBack(own[p])]
             \/ own' = [own EXCEPT ![p] = CountWrite(own[p])]
      PROVE  own'[q].initialized
  <2>1. PICK o : own' = [own EXCEPT ![p] = o] /\ (o.initialized \/ o.initialized = own[p].initialized)
    BY <1>2, <1>5, <1>6, <1>7, Zenon
  <2> QED
    BY <1>4, <2>1, Zenon
<1> QED
  BY <1>3, <1>7, Zenon

\* Where its thread goes: to a promotion once the disk tier is in use, and to
\* stamp the directory at its first use.
LEMMA ColdMoves ==
    ASSUME ClearInv, Next, NEW q \in Procs
    PROVE  /\ At(q, "promote")' => At(q, "promote") \/ own[q].initialized
           /\ At(q, "stamp")' \/ At(q, "written")' => ~own[q].initialized \/ At(q, "stamp") \/ At(q, "written")
<1>1. ASSUME NEW p \in Procs, NEW where, pc' = [pc EXCEPT ![p] = where],
             where = "promote" => own[p].initialized,
             where \in {"stamp", "written"} => ~own[p].initialized \/ At(p, "stamp") \/ At(p, "written")
      PROVE  /\ At(q, "promote")' => At(q, "promote") \/ own[q].initialized
             /\ At(q, "stamp")' \/ At(q, "written")' => ~own[q].initialized \/ At(q, "stamp") \/ At(q, "written")
  BY <1>1, Zenon DEF ClearInv, Forms, At
<1>2. CASE pc' = pc
  BY <1>2, Zenon DEF At
<1>3. \/ pc' = pc
      \/ \E p \in Procs : \E where :
           /\ pc' = [pc EXCEPT ![p] = where]
           /\ where = "promote" => own[p].initialized
           /\ where \in {"stamp", "written"} => ~own[p].initialized \/ At(p, "stamp") \/ At(p, "written")
  <2>1. ASSUME NEW p \in Procs, NEW k \in Keys, GetLately(p, k) \/ Get(p, k) \/ ClearFunction(p, k)
        PROVE  \E where \in {"disk", "writes", "bump"} : pc' = [pc EXCEPT ![p] = where]
    BY <2>1, Zenon DEF GetLately, Get, ClearFunction, Call
  <2>2. ASSUME NEW p \in Procs, StampWrites(p) \/ Compare(p) \/ Promote(p) \/ StampCheckRead(p) \/ Bump(p) \/ MovedByUs(p)
        PROVE  \E where \in {"idle", "disk", "compare", "moved"} : pc' = [pc EXCEPT ![p] = where]
    BY <2>2, Zenon DEF StampWrites, Compare, Promote, StampCheckRead, Bump, MovedByUs, Goto, Call
  <2>3. ASSUME NEW p \in Procs, DiskGet(p)
        PROVE  own[p].initialized /\ \E where \in {"idle", "promote"} : pc' = [pc EXCEPT ![p] = where]
    BY <2>3, Zenon DEF DiskGet, Goto, Call
  <2>4. ASSUME NEW p \in Procs, EnsureInitialized(p)
        PROVE  ~own[p].initialized /\ \E where \in {"stamp", "disk"} : pc' = [pc EXCEPT ![p] = where]
    BY <2>4, Zenon DEF EnsureInitialized, Goto, Call
  <2>5. ASSUME NEW p \in Procs, StampCheck(p)
        PROVE  At(p, "stamp") /\ \E where \in {"written", "disk"} : pc' = [pc EXCEPT ![p] = where]
    BY <2>5, Zenon DEF StampCheck, Goto, Call
  <2>6. ASSUME NEW p \in Procs, NEW k \in Keys,
               \/ PersistFromMemory(p, k) \/ Set(p, k) \/ SetAlone(p, k) \/ Land(p, k) \/ LandFails(p, k)
               \/ Recreate(p, k) \/ RecreateStamp(p, k) \/ RecreateRead(p, k) \/ RecreateCount(p, k)
        PROVE  pc' = pc
    BY <2>6, Zenon DEF PersistFromMemory, Set, SetAlone, Land, LandFails, Recreate, RecreateStamp,
                       RecreateRead, RecreateCount, threadVars
  <2>7. CASE \/ \E k \in Keys : CliDelete(k) \/ CliUnlink(k)
             \/ CliBump \/ CliList \/ CliUnlinkStamp \/ CliRmdir
    BY <2>7, Zenon DEF CliDelete, CliUnlink, CliBump, CliList, CliUnlinkStamp, CliRmdir, cliUnchanged
  <2> QED
    BY <2>1, <2>2, <2>3, <2>4, <2>5, <2>6, <2>7, Zenon DEF Next
<1> QED
  BY <1>1, <1>2, <1>3, Zenon

\* What a RAM tier gains is stored or promoted, with the disk tier in use.
LEMMA ColdTiers ==
    ASSUME ClearInv, ColdInv, Next, NEW q \in Procs
    PROVE  \/ \A k \in Keys : ram[q][k] = None => ram'[q][k] = None
           \/ own[q].initialized /\ ~At(q, "stamp")' /\ ~At(q, "written")'
<1>1. ram = [p \in Procs |-> ram[p]] /\ pc = [p \in Procs |-> pc[p]]
      /\ \A p \in Procs : ram[p] = [k \in Keys |-> ram[p][k]]
  BY Zenon DEF ClearInv, Forms
<1> DEFINE Kept == \A k \in Keys : ram[q][k] = None => ram'[q][k] = None
           Fine == Kept \/ (own[q].initialized /\ ~At(q, "stamp")' /\ ~At(q, "written")')
<1>2. CASE ram' = ram
  BY <1>2, Zenon
<1>3. ASSUME NEW p \in Procs, NEW tier, ram' = [ram EXCEPT ![p] = tier],
             \A k \in Keys : ram[p][k] = None => tier[k] = None
      PROVE  Kept
  BY <1>1, <1>3, Zenon
<1>4. ASSUME NEW p \in Procs, Promote(p) \/ \E k \in Keys : Set(p, k)
      PROVE  Fine
  <2>1. CASE q = p
    <3>1. own[p].initialized
      BY <1>4, Zenon DEF ColdInv, Cold, Promote, Set, CanStore
    <3>2. pc'[p] = "idle"
      BY <1>1, <1>4, Zenon DEF Promote, Set, CanStore, Goto, Call, At, threadVars
    <3> QED
      BY <2>1, <3>1, <3>2, Zenon DEF At
  <2>2. CASE q # p
    <3>1. ram' = ram \/ \E tier : ram' = [ram EXCEPT ![p] = tier]
      BY <1>4, Zenon DEF Promote, Set
    <3> QED
      BY <1>1, <2>2, <3>1, Zenon
  <2> QED
    BY <2>1, <2>2, Zenon
<1>5. ASSUME NEW p \in Procs, NEW k \in Keys,
             SetAlone(p, k) \/ PersistFromMemory(p, k) \/ Get(p, k) \/ RecreateRead(p, k)
      PROVE  Kept
  <2>1. CASE SetAlone(p, k)
    <3>1. ram' = [ram EXCEPT ![p] = [ram[p] EXCEPT ![k] = None]]
      BY <2>1, Zenon DEF SetAlone
    <3> QED
      BY <1>1, <1>3, <3>1, Zenon
  <2>2. CASE PersistFromMemory(p, k)
    <3>1. PICK c : ram' = [ram EXCEPT ![p] = [ram[p] EXCEPT ![k] = c]] /\ ram[p][k] # None
      BY <2>2, Zenon DEF PersistFromMemory
    <3> QED
      BY <1>1, <1>3, <3>1, Zenon
  <2>3. CASE Get(p, k)
    <3>1. \/ ram' = [ram EXCEPT ![p] = ram[p]]
          \/ ram' = [ram EXCEPT ![p] = Mark(p, Keys, "told", "due")]
      BY <2>3, Zenon DEF Get
    <3>2. \A j \in Keys : ram[p][j] = None => Mark(p, Keys, "told", "due")[j] = None
      BY Zenon DEF Mark, Marked
    <3>3. PICK tier : ram' = [ram EXCEPT ![p] = tier] /\ \A j \in Keys : ram[p][j] = None => tier[j] = None
      BY <3>1, <3>2, Zenon
    <3> QED
      BY <1>3, <3>3, Zenon
  <2>4. CASE RecreateRead(p, k)
    <3>1. ram' = [ram EXCEPT ![p] = Mark(p, Keys, "due", "told")]
      BY <2>4, Zenon DEF RecreateRead
    <3>2. \A j \in Keys : ram[p][j] = None => Mark(p, Keys, "due", "told")[j] = None
      BY Zenon DEF Mark, Marked
    <3>3. PICK tier : ram' = [ram EXCEPT ![p] = tier] /\ \A j \in Keys : ram[p][j] = None => tier[j] = None
      BY <3>1, <3>2, Zenon
    <3> QED
      BY <1>3, <3>3, Zenon
  <2> QED
    BY <1>5, <2>1, <2>2, <2>3, <2>4, Zenon
<1>6. ASSUME NEW p \in Procs, Compare(p) \/ MovedByUs(p)
      PROVE  Kept
  <2>1. CASE Compare(p)
    <3>1. ram' = ram \/ ram' = [ram EXCEPT ![p] = [k \in Keys |-> None]]
      BY <2>1, Zenon DEF Compare
    <3>2. \A j \in Keys : ram[p][j] = None => [k \in Keys |-> None][j] = None
      BY Zenon
    <3>3. CASE ram' = [ram EXCEPT ![p] = [k \in Keys |-> None]]
      <4>1. PICK tier : ram' = [ram EXCEPT ![p] = tier] /\ \A j \in Keys : ram[p][j] = None => tier[j] = None
        BY <3>2, <3>3, Zenon
      <4> QED
        BY <1>3, <4>1, Zenon
    <3> QED
      BY <1>2, <3>1, <3>3, Zenon
  <2>2. CASE MovedByUs(p)
    <3>1. ram' = ram \/ ram' = [ram EXCEPT ![p] = Mark(p, Keys, "told", "none")]
      BY <2>2, Zenon DEF MovedByUs
    <3>2. CASE ram' = [ram EXCEPT ![p] = Mark(p, Keys, "told", "none")]
      <4>1. \A j \in Keys : ram[p][j] = None => Mark(p, Keys, "told", "none")[j] = None
        BY Zenon DEF Mark, Marked
      <4>2. PICK tier : ram' = [ram EXCEPT ![p] = tier] /\ \A j \in Keys : ram[p][j] = None => tier[j] = None
        BY <3>2, <4>1, Zenon
      <4> QED
        BY <1>3, <4>2, Zenon
    <3> QED
      BY <1>2, <3>1, <3>2, Zenon
  <2> QED
    BY <1>6, <2>1, <2>2, Zenon
<1>7. ASSUME NEW p \in Procs, NEW k \in Keys, ClearFunction(p, k)
      PROVE  Kept
  <2>1. ram'[q] = [ram[q] EXCEPT ![k] = None] \/ ram'[q] = Mark(q, {k}, "none", "removed")
    BY <1>7, Zenon DEF ClearFunction
  <2>2. \A j \in Keys : [ram[q] EXCEPT ![k] = None][j] \in {None, ram[q][j]}
    BY <1>1, Zenon
  <2>3. CASE ram'[q] = [ram[q] EXCEPT ![k] = None]
    BY <2>2, <2>3, Zenon
  <2>4. CASE ram'[q] = Mark(q, {k}, "none", "removed")
    BY <2>4, Zenon DEF Mark, Marked
  <2> QED
    BY <2>1, <2>3, <2>4, Zenon
<1>8. ASSUME NEW p \in Procs, Bump(p)
      PROVE  Kept
  <2>1. ram'[q] = ram[q] \/ ram'[q] = Mark(q, {key[p]}, "removed", MovedFor(q))
    BY <1>8, Zenon DEF Bump
  <2> QED
    BY <2>1, MarkKeepsNone, Zenon
<1>9. ASSUME NEW ks, Remove(ks) \/ Tell(ks)
      PROVE  Kept
  <2>1. \E from, to : ram'[q] = Mark(q, ks, from, to)
    BY <1>9, Zenon DEF Remove, Tell
  <2> QED
    BY <2>1, MarkKeepsNone, Zenon
<1>10. ASSUME \/ \E k \in Keys : CliDelete(k) \/ CliUnlink(k)
              \/ CliBump \/ CliList \/ CliUnlinkStamp \/ CliRmdir
       PROVE  Fine
  <2>1. ram' = ram \/ \E ks : Remove(ks) \/ Tell(ks)
    BY <1>10, Zenon DEF CliDelete, CliUnlink, CliBump, CliList, CliUnlinkStamp, CliRmdir
  <2> QED
    BY <1>2, <1>9, <2>1, Zenon
<1>11. ASSUME NEW p \in Procs,
              \/ \E k \in Keys : \/ GetLately(p, k) \/ Land(p, k) \/ LandFails(p, k)
                                 \/ Recreate(p, k) \/ RecreateStamp(p, k) \/ RecreateCount(p, k)
              \/ StampWrites(p) \/ DiskGet(p) \/ EnsureInitialized(p) \/ StampCheck(p) \/ StampCheckRead(p)
       PROVE  ram' = ram
  BY <1>11, Zenon DEF GetLately, Land, LandFails, Recreate, RecreateStamp, RecreateCount, StampWrites, DiskGet,
                      EnsureInitialized, StampCheck, StampCheckRead
<1>12. ram' = ram \/ Kept => Fine
  BY Zenon
<1> HIDE DEF Kept, Fine
<1>13. ASSUME NEW p \in Procs, NEW k \in Keys,
              \/ GetLately(p, k) \/ Get(p, k) \/ PersistFromMemory(p, k) \/ ClearFunction(p, k)
              \/ Set(p, k) \/ SetAlone(p, k) \/ Land(p, k) \/ LandFails(p, k)
              \/ Recreate(p, k) \/ RecreateStamp(p, k) \/ RecreateRead(p, k) \/ RecreateCount(p, k)
       PROVE  Fine
  BY <1>4, <1>5, <1>7, <1>11, <1>12, <1>13, Zenon
<1>14. ASSUME NEW p \in Procs,
              \/ StampWrites(p) \/ Compare(p) \/ DiskGet(p) \/ Promote(p)
              \/ EnsureInitialized(p) \/ StampCheck(p) \/ StampCheckRead(p)
              \/ Bump(p) \/ MovedByUs(p)
       PROVE  Fine
  BY <1>4, <1>6, <1>8, <1>11, <1>12, <1>14, Zenon
<1>15. Fine
  BY <1>10, <1>13, <1>14, Zenon DEF Next
<1> QED
  BY <1>15, Zenon DEF Kept, Fine

\* Every step keeps what a process that has not set up its directory may hold.
LEMMA ColdNext ==
    ASSUME ClearInv, ColdInv, [Next]_vars
    PROVE  ColdInv'
<1>1. CASE UNCHANGED vars
  <2>1. UNCHANGED <<ram, pc, own>>
    BY <1>1, Zenon DEF vars, threadVars
  <2> QED
    BY <2>1, Zenon DEF ColdInv, Cold, At
<1>2. CASE Next
  <2>1. ASSUME NEW q \in Procs
        PROVE  Cold(q)'
    <3>1. Cold(q)
      BY Zenon DEF ColdInv
    <3>2. /\ own[q].initialized => own'[q].initialized
          /\ At(q, "promote")' => At(q, "promote") \/ own[q].initialized
          /\ At(q, "stamp")' \/ At(q, "written")' => ~own[q].initialized \/ At(q, "stamp") \/ At(q, "written")
      BY <1>2, StaysInitialized, ColdMoves, Zenon
    <3>3. \/ \A k \in Keys : ram[q][k] = None => ram'[q][k] = None
          \/ own[q].initialized /\ ~At(q, "stamp")' /\ ~At(q, "written")'
      BY <1>2, ColdTiers, Zenon
    <3> QED
      BY <3>1, <3>2, <3>3, Zenon DEF Cold
  <2> QED
    BY <2>1, Zenon DEF ColdInv
<1> QED
  BY <1>1, <1>2, Zenon

-----------------------------------------------------------------------------
\* A clear reaches the processes that are still running: for any processes,
\* keys and numbers of stores and clears, a process that has looked at the
\* stamp since it moved holds no copy from before the removal
\* (ClearWatcher.cleared, TieredBackend._drop_ram_if_cleared), also when its
\* own writer stamps a recreated directory in the middle of the look.
THEOREM ClearsReach == Spec => []ClearReaches
<1>1. ClearInv => ClearReaches
  BY Zenon DEF ClearInv, Good, Noticed, Due, ClearReaches, At
<1>2. ClearInv /\ ColdInv /\ TypeOK /\ [Next]_vars => ClearInv' /\ ColdInv'
  BY ClearNext, ColdNext, Zenon
<1> QED
  BY <1>1, <1>2, ClearInit, TieredTyped, PTL DEF Spec
=============================================================================
