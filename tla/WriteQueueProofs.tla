-------------------------- MODULE WriteQueueProofs --------------------------
(***************************************************************************)
(* Proofs about WriteQueue: type correctness, the order in which the       *)
(* writer takes the writes, and what the callers may rely on: a get, a     *)
(* delete, a clear and a fork come after the writes they waited for, a     *)
(* write's future stays pending until it is done, and a failed write stays *)
(* failed.                                                                 *)
(***************************************************************************)
EXTENDS WriteQueue, TLAPS, SequenceTheorems

-----------------------------------------------------------------------------
(* Type correctness.                                                       *)

\* Where a caller must hold a future.
HoldingAt == {"settle", "register", "size", "sizeAdd", "sizeCallback", "inline", "wait"}

Holding == \A c \in Callers : pc[c] \in HoldingAt => future[c] \in Writes

TypeInv == TypeOK /\ Holding

\* The type invariant in parts, one for each group of variables.
PoolType ==
    /\ queue \in Seq(Writes \cup {Stop})
    /\ worker \in {"none", "get", "empty", "run", "landed", "raised", "callbacks", "sizes"}
    /\ current \in Writes \cup {NoWrite}
    /\ poolDown \in BOOLEAN

ProcType == down \in BOOLEAN /\ inChild \in BOOLEAN

PendingType == pending \in [Keys -> Writes \cup {NoWrite}]

SizedType == sized \in Seq(Writes)

FutType ==
    /\ last \in 0 .. MaxWrites
    /\ state \in [Writes -> {"unborn", "queued", "running", "ok", "failed",
                             "parents", "parentDone"}]
    /\ keyOf \in [Writes -> Keys]
    /\ callbacks \in [Writes -> SUBSET {"forget", "size"}]

DiskType == disk \in [Keys -> Writes \cup {NoWrite}]

CallType ==
    /\ pc \in [Callers -> Where]
    /\ arg \in [Callers -> Keys]
    /\ future \in [Callers -> Writes \cup {NoWrite}]
    /\ snapshot \in [Callers -> SUBSET Writes]
    /\ mark \in [Callers -> 0 .. MaxWrites]
    /\ Holding

\* TypeInv, by groups of variables that steps leave alone together.
LEMMA TypeParts ==
    TypeInv <=> /\ PoolType /\ ProcType /\ PendingType /\ SizedType
                /\ FutType /\ DiskType /\ CallType
BY Zenon DEF TypeInv, TypeOK, PoolType, ProcType, PendingType, SizedType, FutType, DiskType, CallType

\* A part whose variables do not change keeps its type.
LEMMA SameParts ==
    /\ PoolType /\ UNCHANGED poolVars => PoolType'
    /\ ProcType /\ UNCHANGED procVars => ProcType'
    /\ PendingType /\ UNCHANGED pending => PendingType'
    /\ SizedType /\ UNCHANGED sized => SizedType'
    /\ FutType /\ UNCHANGED futVars => FutType'
    /\ DiskType /\ UNCHANGED disk => DiskType'
    /\ CallType /\ UNCHANGED callVars => CallType'
BY Zenon DEF PoolType, ProcType, PendingType, SizedType, FutType, DiskType, CallType, Holding,
       poolVars, procVars, futVars, callVars

\* Cutting an element out of a sequence leaves a sequence.
LEMMA CutType ==
    ASSUME NEW S, NEW s \in Seq(S), NEW i \in 1 .. Len(s)
    PROVE  SubSeq(s, 1, i - 1) \o SubSeq(s, i + 1, Len(s)) \in Seq(S)
<1>1. SubSeq(s, 1, i - 1) \in Seq(S)
  <2>1. \A j \in 1 .. (i - 1) : s[j] \in S
    BY ElementOfSeq, LenProperties
  <2> QED BY <2>1, SubSeqProperties, LenProperties
<1>2. SubSeq(s, i + 1, Len(s)) \in Seq(S)
  BY SubSeqProperties, LenProperties
<1> QED BY <1>1, <1>2, ConcatProperties, Zenon

\* There is a key.
LEMMA AnyKeyType == AnyKey \in Keys
BY ConstantsAssumption, Zenon DEF AnyKey

\* A new queue has its type.
LEMMA InitType == Init => TypeInv
<1> SUFFICES ASSUME Init PROVE TypeInv
  OBVIOUS
<1> USE AnyKeyType, ConstantsAssumption
<1>1. queue \in Seq(Writes \cup {Stop}) /\ sized \in Seq(Writes)
  BY DEF Init
<1>2. /\ poolDown \in BOOLEAN /\ down \in BOOLEAN /\ inChild \in BOOLEAN
      /\ worker \in {"none", "get", "empty", "run", "landed", "raised", "callbacks", "sizes"}
      /\ current \in Writes \cup {NoWrite}
  BY Zenon DEF Init
<1>3. /\ last \in 0 .. MaxWrites
      /\ mark \in [Callers -> 0 .. MaxWrites]
  BY DEF Init
<1>4. /\ pending \in [Keys -> Writes \cup {NoWrite}]
      /\ state \in [Writes -> {"unborn", "queued", "running", "ok", "failed",
                               "parents", "parentDone"}]
      /\ keyOf \in [Writes -> Keys]
      /\ callbacks \in [Writes -> SUBSET {"forget", "size"}]
      /\ disk \in [Keys -> Writes \cup {NoWrite}]
  BY Zenon DEF Init
<1>5. /\ pc \in [Callers -> Where]
      /\ arg \in [Callers -> Keys]
      /\ future \in [Callers -> Writes \cup {NoWrite}]
      /\ snapshot \in [Callers -> SUBSET Writes]
  BY Zenon DEF Init, Where
<1>6. Holding
  BY Zenon DEF Init, Holding, HoldingAt
<1> QED BY <1>1, <1>2, <1>3, <1>4, <1>5, <1>6, Zenon DEF TypeInv, TypeOK

\* The moves of a caller keep the types of its locals.
LEMMA GotoType ==
    ASSUME CallType, NEW c \in Callers, NEW where \in Where, Goto(c, where),
           where \in HoldingAt => future[c] \in Writes
    PROVE  CallType'
BY Zenon DEF CallType, Goto, Holding

\* A caller that goes on with a future in hand.
LEMMA HoldType ==
    ASSUME CallType, NEW c \in Callers, NEW where \in Where,
           NEW w \in Writes \cup {NoWrite}, Hold(c, where, w),
           where \in HoldingAt => w \in Writes
    PROVE  CallType'
BY Zenon DEF CallType, Hold, Holding

\* A caller whose operation ends.
LEMMA FinishType ==
    ASSUME CallType, NEW c \in Callers, Finish(c)
    PROVE  CallType'
<1>1. /\ pc' \in [Callers -> Where]
      /\ arg' \in [Callers -> Keys]
      /\ future' \in [Callers -> Writes \cup {NoWrite}]
      /\ snapshot' \in [Callers -> SUBSET Writes]
  BY AnyKeyType, Zenon DEF CallType, Finish, Where
<1>2. mark' \in [Callers -> 0 .. MaxWrites]
  BY ConstantsAssumption DEF CallType, Finish
<1>3. Holding'
  BY Zenon DEF CallType, Finish, Holding, HoldingAt
<1> QED BY <1>1, <1>2, <1>3, Zenon DEF CallType

\* A caller that begins an operation.
LEMMA BeginType ==
    ASSUME CallType, FutType, NEW c \in Callers, NEW where \in Where, NEW k \in Keys,
           NEW w \in Writes \cup {NoWrite}, Begin(c, where, k, w),
           where \in HoldingAt => w \in Writes
    PROVE  CallType'
BY Zenon DEF CallType, FutType, Begin, Holding

\* A finished copy's size is forgotten (submit_sized's callback).
LEMMA ForgetSizeType ==
    ASSUME SizedType, NEW w, ForgetSize(w)
    PROVE  SizedType'
BY CutType, Zenon DEF SizedType, ForgetSize

\* _pending after a key was forgotten.
LEMMA WithoutType ==
    ASSUME PendingType, NEW w
    PROVE  Without(w) \in [Keys -> Writes \cup {NoWrite}]
BY Zenon DEF PendingType, Without

\* A submission hands out the next future.
LEMMA NewFutureType ==
    ASSUME FutType, NEW k \in Keys, NEW st \in {"queued", "running"}, NewFuture(k, st)
    PROVE  FutType' /\ last + 1 \in Writes
<1> USE ConstantsAssumption
<1>1. last + 1 \in Writes /\ last' \in 0 .. MaxWrites
  BY DEF FutType, NewFuture, Writes
<1> QED BY <1>1, Zenon DEF FutType, NewFuture

\* Every step keeps the types.
LEMMA TypeStep == TypeInv /\ [Next]_vars => TypeInv'
<1> SUFFICES ASSUME TypeInv, [Next]_vars PROVE TypeInv'
  OBVIOUS
<1> /\ PoolType /\ ProcType /\ PendingType /\ SizedType
    /\ FutType /\ DiskType /\ CallType
  BY TypeParts, Zenon
<1> DEFINE Goal == /\ PoolType' /\ ProcType' /\ PendingType' /\ SizedType'
                   /\ FutType' /\ DiskType' /\ CallType'
<1> HIDE DEF Goal
<1> USE SameParts
<1>1. ASSUME NEW c \in Callers, NEW k \in Keys, SetBegin(c, k) PROVE Goal
  <2>1. CallType'
    BY <1>1, BeginType, Zenon DEF SetBegin, Where, HoldingAt, NoWrite
  <2> QED BY <1>1, <2>1, Zenon DEF Goal, SetBegin, poolVars, procVars, futVars, callVars
<1>2. ASSUME NEW c \in Callers, MakeRoom(c) PROVE Goal
  <2>1. CallType'
    BY <1>2, GotoType, HoldType DEF MakeRoom, SizedType, Where, HoldingAt
  <2> QED BY <1>2, <2>1, Zenon DEF Goal, MakeRoom, poolVars, procVars, futVars, callVars
<1>3. ASSUME NEW c \in Callers, RoomSettled(c) PROVE Goal
  <2>1. CallType'
    BY <1>3, GotoType, Zenon DEF RoomSettled, Where, HoldingAt
  <2>2. SizedType'
    BY <1>3, ForgetSizeType, Zenon DEF RoomSettled
  <2> QED BY <1>3, <2>1, <2>2, Zenon DEF Goal, RoomSettled, poolVars, procVars, futVars, callVars
<1>4. ASSUME NEW c \in Callers, SubmitPrevious(c) PROVE Goal
  <2>1. pending[arg[c]] \in Writes \cup {NoWrite}
    BY <1>4, Zenon DEF PendingType, CallType
  <2>2. CallType'
    BY <1>4, <2>1, HoldType, Zenon DEF SubmitPrevious, Where, HoldingAt
  <2> QED BY <1>4, <2>1, <2>2, Zenon DEF Goal, SubmitPrevious, poolVars, procVars, futVars, callVars
<1>5. ASSUME NEW c \in Callers, SubmitEnqueue(c) PROVE Goal
  <2>1. FutType' /\ last + 1 \in Writes
    BY <1>5, NewFutureType, Zenon DEF SubmitEnqueue, CallType
  <2>2. CallType'
    BY <1>5, <2>1, HoldType, Zenon DEF SubmitEnqueue, Where, HoldingAt
  <2>3. PoolType'
    BY <1>5, <2>1 DEF SubmitEnqueue, PoolType
  <2>4. PendingType'
    BY <1>5, <2>1, Zenon DEF SubmitEnqueue, PendingType
  <2> QED BY <1>5, <2>1, <2>2, <2>3, <2>4, Zenon DEF Goal, SubmitEnqueue, poolVars, procVars, futVars,
      callVars
<1>6. ASSUME NEW c \in Callers, SubmitStartFails(c) PROVE Goal
  <2>1. FutType' /\ last + 1 \in Writes
    BY <1>6, NewFutureType, Zenon DEF SubmitStartFails, CallType
  <2>2. CallType'
    BY <1>6, FinishType, Zenon DEF SubmitStartFails
  <2>3. PoolType'
    BY <1>6, <2>1 DEF SubmitStartFails, PoolType
  <2> QED BY <1>6, <2>1, <2>2, <2>3, Zenon DEF Goal, SubmitStartFails, poolVars, procVars, futVars,
      callVars
<1>7. ASSUME NEW c \in Callers, SubmitRefused(c) PROVE Goal
  <2>1. CallType'
    BY <1>7, FinishType, Zenon DEF SubmitRefused
  <2> QED BY <1>7, <2>1, Zenon DEF Goal, SubmitRefused, poolVars, procVars, futVars, callVars
<1>8. ASSUME NEW c \in Callers, RegisterForget(c) PROVE Goal
  <2>1. future[c] \in Writes
    BY <1>8, Zenon DEF RegisterForget, At, CallType, Holding, HoldingAt
  <2>2. CallType'
    BY <1>8, <2>1, GotoType, FinishType, Zenon DEF RegisterForget, Where
  <2>3. PendingType'
    BY <1>8, WithoutType, Zenon DEF RegisterForget, ForgetIfSucceeded, PendingType
  <2>4. FutType'
    BY <1>8 DEF RegisterForget, FutType
  <2> QED BY <1>8, <2>1, <2>2, <2>3, <2>4, Zenon DEF Goal, RegisterForget, poolVars, procVars, futVars,
      callVars
<1>9. ASSUME NEW c \in Callers, SizeCheck(c) PROVE Goal
  <2>1. future[c] \in Writes
    BY <1>9, Zenon DEF SizeCheck, At, CallType, Holding, HoldingAt
  <2>2. CallType'
    BY <1>9, <2>1, GotoType, FinishType, Zenon DEF SizeCheck, Where
  <2> QED BY <1>9, <2>1, <2>2, Zenon DEF Goal, SizeCheck, poolVars, procVars, futVars, callVars
<1>10. ASSUME NEW c \in Callers, SizeAdd(c) PROVE Goal
  <2>1. future[c] \in Writes
    BY <1>10, Zenon DEF SizeAdd, At, CallType, Holding, HoldingAt
  <2>2. CallType'
    BY <1>10, <2>1, GotoType, Zenon DEF SizeAdd, Where
  <2>3. SizedType'
    BY <1>10, <2>1, AppendProperties, Zenon DEF SizeAdd, SizedType
  <2> QED BY <1>10, <2>1, <2>2, <2>3, Zenon DEF Goal, SizeAdd, poolVars, procVars, futVars, callVars
<1>11. ASSUME NEW c \in Callers, SizeCallback(c) PROVE Goal
  <2>1. CallType'
    BY <1>11, FinishType, Zenon DEF SizeCallback
  <2>2. SizedType'
    BY <1>11, ForgetSizeType, Zenon DEF SizeCallback, SizedType
  <2>3. FutType'
    BY <1>11 DEF SizeCallback, FutType
  <2> QED BY <1>11, <2>1, <2>2, <2>3, Zenon DEF Goal, SizeCallback, poolVars, procVars, futVars, callVars
<1>12. ASSUME NEW c \in Callers, InlineBegin(c) PROVE Goal
  <2>1. FutType' /\ last + 1 \in Writes
    BY <1>12, NewFutureType, Zenon DEF InlineBegin, CallType
  <2>2. CallType'
    BY <1>12, <2>1, HoldType, Zenon DEF InlineBegin, Where
  <2> QED BY <1>12, <2>1, <2>2, Zenon DEF Goal, InlineBegin, poolVars, procVars, futVars, callVars
<1>13. ASSUME NEW c \in Callers, NEW ok \in BOOLEAN, InlineEnd(c, ok) PROVE Goal
  <2>1. CallType'
    BY <1>13, FinishType, Zenon DEF InlineEnd
  <2>2. future[c] \in Writes
    BY <1>13, Zenon DEF InlineEnd, At, CallType, Holding, HoldingAt
  <2>3. PendingType' /\ DiskType'
    <3>1. CASE ok
      BY <1>13, <2>2, <3>1, Zenon DEF InlineEnd, PendingType, DiskType
    <3>2. CASE ~ok
      BY <1>13, <2>2, <3>2, Zenon DEF InlineEnd, PendingType, DiskType
    <3> QED BY <3>1, <3>2, Zenon
  <2>4. FutType'
    BY <1>13, Zenon DEF InlineEnd, Result, FutType
  <2> QED BY <1>13, <2>1, <2>2, <2>3, <2>4, Zenon DEF Goal, InlineEnd, poolVars, procVars, futVars,
      callVars
<1>14. ASSUME NEW c \in Callers, NEW k \in Keys, WaitBegin(c, k) PROVE Goal
  <2>1. pending[k] \in Writes \cup {NoWrite}
    BY <1>14, Zenon DEF PendingType
  <2>2. CallType'
    BY <1>14, <2>1, BeginType, Zenon DEF WaitBegin, Where, HoldingAt
  <2> QED BY <1>14, <2>1, <2>2, Zenon DEF Goal, WaitBegin, poolVars, procVars, futVars, callVars
<1>15. ASSUME NEW c \in Callers, WaitEnd(c) PROVE Goal
  <2>1. CallType'
    BY <1>15, GotoType, Zenon DEF WaitEnd, Where, HoldingAt
  <2>2. PendingType'
    BY <1>15, WithoutType, Zenon DEF WaitEnd, PendingType
  <2> QED BY <1>15, <2>1, <2>2, Zenon DEF Goal, WaitEnd, poolVars, procVars, futVars, callVars
<1>16. ASSUME NEW c \in Callers, Read(c) PROVE Goal
  <2>1. CallType'
    BY <1>16, FinishType, Zenon DEF Read
  <2> QED BY <1>16, <2>1, Zenon DEF Goal, Read, poolVars, procVars, futVars, callVars
<1>17. ASSUME NEW c \in Callers, NEW k \in Keys, DrainBegin(c, k) PROVE Goal
  <2>1. pending[k] \in Writes \cup {NoWrite}
    BY <1>17, Zenon DEF PendingType
  <2>2. CallType'
    BY <1>17, <2>1, BeginType, Zenon DEF DrainBegin, Where, HoldingAt
  <2>3. PendingType'
    BY <1>17, Zenon DEF DrainBegin, PendingType
  <2> QED BY <1>17, <2>1, <2>2, <2>3, Zenon DEF Goal, DrainBegin, poolVars, procVars, futVars, callVars
<1>18. ASSUME NEW c \in Callers, DrainEnd(c) PROVE Goal
  <2>1. CallType'
    BY <1>18, GotoType, Zenon DEF DrainEnd, Where, HoldingAt
  <2> QED BY <1>18, <2>1, Zenon DEF Goal, DrainEnd, poolVars, procVars, futVars, callVars
<1>19. ASSUME NEW c \in Callers, Remove(c) PROVE Goal
  <2>1. CallType'
    BY <1>19, FinishType, Zenon DEF Remove
  <2>2. DiskType'
    BY <1>19, Zenon DEF Remove, DiskType
  <2> QED BY <1>19, <2>1, <2>2, Zenon DEF Goal, Remove, poolVars, procVars, futVars, callVars
<1>20. ASSUME NEW c \in Callers, ClearBegin(c) PROVE Goal
  <2>1. PendingFutures \in SUBSET Writes
    BY <1>20, Zenon DEF PendingFutures, PendingType
  <2>2. CallType'
    BY <1>20, <2>1, Zenon DEF ClearBegin, WaitAllBegin, CallType, FutType, Holding, HoldingAt, Where
  <2> QED BY <1>20, <2>1, <2>2, Zenon DEF Goal, ClearBegin, WaitAllBegin, poolVars, procVars, futVars,
      callVars
<1>21. ASSUME NEW c \in Callers, WaitAllEnd(c) PROVE Goal
  <2>1. CallType'
    BY <1>21, GotoType, Zenon DEF WaitAllEnd, Where, HoldingAt
  <2> QED BY <1>21, <2>1, Zenon DEF Goal, WaitAllEnd, poolVars, procVars, futVars, callVars
<1>22. ASSUME NEW c \in Callers, Clear(c) PROVE Goal
  <2>1. CallType'
    BY <1>22, FinishType, Zenon DEF Clear
  <2>2. DiskType'
    BY <1>22, Zenon DEF Clear, DiskType
  <2> QED BY <1>22, <2>1, <2>2, Zenon DEF Goal, Clear, poolVars, procVars, futVars, callVars
<1>23. ASSUME NEW c \in Callers, ShutdownBegin(c) PROVE Goal
  <2>1. CallType'
    BY <1>23, GotoType, Zenon DEF ShutdownBegin, Where, HoldingAt
  <2>2. ProcType'
    BY <1>23, Zenon DEF ShutdownBegin, ProcType
  <2> QED BY <1>23, <2>1, <2>2, Zenon DEF Goal, ShutdownBegin, poolVars, procVars, futVars, callVars
<1>24. ASSUME NEW c \in Callers, StopPool(c) PROVE Goal
  <2>1. CallType'
    BY <1>24, GotoType, FinishType, Zenon DEF StopPool, Where, HoldingAt
  <2>2. PoolType'
    BY <1>24, Zenon DEF StopPool, PoolType
  <2> QED BY <1>24, <2>1, <2>2, Zenon DEF Goal, StopPool, poolVars, procVars, futVars, callVars
<1>25. ASSUME NEW c \in Callers, PutSentinel(c) PROVE Goal
  <2>1. CallType'
    BY <1>25, GotoType, Zenon DEF PutSentinel, Where, HoldingAt
  <2>2. PoolType'
    BY <1>25, AppendProperties, Zenon DEF PutSentinel, PoolType
  <2> QED BY <1>25, <2>1, <2>2, Zenon DEF Goal, PutSentinel, poolVars, procVars, futVars, callVars
<1>26. ASSUME NEW c \in Callers, Join(c) PROVE Goal
  <2>1. CallType'
    BY <1>26, FinishType, Zenon DEF Join
  <2> QED BY <1>26, <2>1, Zenon DEF Goal, Join, poolVars, procVars, futVars, callVars
<1>27. ASSUME NEW c \in Callers, ForkBegin(c) PROVE Goal
  <2>1. PendingFutures \in SUBSET Writes
    BY <1>27, Zenon DEF PendingFutures, PendingType
  <2>2. CallType'
    BY <1>27, <2>1, Zenon DEF ForkBegin, WaitAllBegin, CallType, FutType, Holding, HoldingAt, Where
  <2> QED BY <1>27, <2>1, <2>2, Zenon DEF Goal, ForkBegin, WaitAllBegin, poolVars, procVars, futVars,
      callVars
<1>28. ASSUME NEW c \in Callers, NEW mpChild \in BOOLEAN, Fork(c, mpChild) PROVE Goal
  <2>1. CallType'
    BY <1>28, AnyKeyType, ConstantsAssumption, SMTT(30) DEF Fork, CallType, Holding, HoldingAt,
        Where
  <2>2. queue' = <<>> /\ worker' = "none" /\ current' = NoWrite /\ poolDown' = FALSE
    BY <1>28, Zenon DEF Fork
  <2>3. queue' \in Seq(Writes \cup {Stop})
    BY <1>28, <2>2
  <2>4. poolDown' \in BOOLEAN
    BY <1>28, <2>2, Zenon
  <2>5. PoolType'
    BY <1>28, <2>2, <2>3, <2>4, Zenon DEF PoolType
  <2>6. PendingType' /\ SizedType'
    BY <1>28 DEF Fork, PendingType, SizedType
  <2>7. ProcType'
    BY <1>28, Zenon DEF Fork, ProcType
  <2>8. FutType'
    BY <1>28, Zenon DEF Fork, Inherited, FutType
  <2> QED BY <1>28, <2>1, <2>2, <2>3, <2>4, <2>5, <2>6, <2>7, <2>8, Zenon DEF Goal, Fork, poolVars,
      procVars, futVars, callVars
<1>29. ASSUME NEW w \in Writes, NEW ok \in BOOLEAN, ParentWrite(w, ok) PROVE Goal
  <2>1. FutType'
    BY <1>29, Zenon DEF ParentWrite, FutType
  <2>2. DiskType'
    BY <1>29, Zenon DEF ParentWrite, DiskType, FutType
  <2> QED BY <1>29, <2>1, <2>2, Zenon DEF Goal, ParentWrite, poolVars, procVars, futVars, callVars
<1>30. ASSUME WorkerGet PROVE Goal
  <2>1. queue # <<>> /\ Head(queue) \in Writes \cup {Stop} /\ Tail(queue) \in Seq(Writes \cup {Stop})
    BY <1>30, HeadTailProperties, Zenon DEF WorkerGet, PoolType
  <2>2. PoolType'
    BY <1>30, <2>1, Zenon DEF WorkerGet, PoolType
  <2>3. FutType'
    BY <1>30, <2>1, Zenon DEF WorkerGet, FutType
  <2> QED BY <1>30, <2>1, <2>2, <2>3, Zenon DEF Goal, WorkerGet, poolVars, procVars, futVars, callVars
<1>31. ASSUME WorkerTimeout PROVE Goal
  <2>1. PoolType'
    BY <1>31, Zenon DEF WorkerTimeout, PoolType
  <2> QED BY <1>31, <2>1, Zenon DEF Goal, WorkerTimeout, poolVars, procVars, futVars, callVars
<1>32. ASSUME WorkerRetire PROVE Goal
  <2>1. PoolType'
    BY <1>32, Zenon DEF WorkerRetire, PoolType
  <2> QED BY <1>32, <2>1, Zenon DEF Goal, WorkerRetire, poolVars, procVars, futVars, callVars
<1>33. ASSUME NEW ok \in BOOLEAN, WorkerRun(ok) PROVE Goal
  <2>1. PoolType'
    BY <1>33, Zenon DEF WorkerRun, PoolType
  <2>2. DiskType'
    BY <1>33, Zenon DEF WorkerRun, DiskType, PoolType
  <2> QED BY <1>33, <2>1, <2>2, Zenon DEF Goal, WorkerRun, poolVars, procVars, futVars, callVars
<1>34. ASSUME WorkerResult PROVE Goal
  <2>1. PoolType'
    BY <1>34, Zenon DEF WorkerResult, PoolType
  <2>2. FutType'
    BY <1>34, Zenon DEF WorkerResult, Result, FutType
  <2> QED BY <1>34, <2>1, <2>2, Zenon DEF Goal, WorkerResult, poolVars, procVars, futVars, callVars
<1>35. ASSUME WorkerForget PROVE Goal
  <2>1. PoolType'
    BY <1>35, Zenon DEF WorkerForget, PoolType
  <2>2. PendingType'
    BY <1>35, WithoutType, Zenon DEF WorkerForget, ForgetIfSucceeded, PendingType
  <2> QED BY <1>35, <2>1, <2>2, Zenon DEF Goal, WorkerForget, poolVars, procVars, futVars, callVars
<1>36. ASSUME WorkerForgetSize PROVE Goal
  <2>1. PoolType'
    BY <1>36, Zenon DEF WorkerForgetSize, PoolType
  <2>2. SizedType'
    BY <1>36, ForgetSizeType, Zenon DEF WorkerForgetSize, SizedType
  <2>3. FutType'
    BY <1>36, Zenon DEF WorkerForgetSize, FutType
  <2> QED BY <1>36, <2>1, <2>2, <2>3, Zenon DEF Goal, WorkerForgetSize, poolVars, procVars, futVars,
      callVars
<1>37. ASSUME UNCHANGED vars PROVE Goal
  BY <1>37, Zenon DEF Goal, vars
<1>38. ASSUME Worker PROVE Goal
  BY <1>38, <1>30, <1>31, <1>32, <1>33, <1>34, <1>35, <1>36, Zenon DEF Worker
<1>39. ASSUME NEW c \in Callers, Continue(c) PROVE Goal
  BY <1>39, <1>2, <1>3, <1>4, <1>5, <1>6, <1>7, <1>8, <1>9, <1>10, <1>11, <1>12, <1>13, <1>15,
      <1>16, <1>18, <1>19, <1>21, <1>22, <1>24, <1>25, <1>26, <1>28, Zenon DEF Continue
<1> QED
  <2>1. Goal
    BY <1>1, <1>14, <1>17, <1>20, <1>23, <1>27, <1>29, <1>37, <1>38, <1>39, Zenon DEF Next
  <2> QED BY <2>1, Zenon DEF Goal, TypeInv, TypeOK, PoolType, ProcType, PendingType, SizedType, FutType,
              DiskType, CallType

\* The write queue's state has the shape the code gives it, at every moment
\* and for any number of callers, keys and writes.
THEOREM TypeCorrect == Spec => []TypeOK
<1>1. TypeInv => TypeOK
  BY Zenon DEF TypeInv
<1> QED BY <1>1, InitType, TypeStep, PTL DEF Spec

-----------------------------------------------------------------------------
(* The writer takes the writes in the order they were submitted.           *)

\* The worker is inside _run_task.
Running == {"run", "landed", "raised"}

\* The futures that exist are those handed out so far.
Born == \A w \in Writes : state[w] = "unborn" <=> w > last

\* The pool's queue holds exactly the queued writes, in order; the sentinel
\* may stand anywhere.
QueueInv ==
    /\ \A i \in 1 .. Len(queue) : queue[i] # Stop => state[queue[i]] = "queued"
    /\ \A w \in Writes : state[w] = "queued" => \E i \in 1 .. Len(queue) : queue[i] = w
    /\ \A i, j \in 1 .. Len(queue) :
          i < j /\ queue[i] # Stop /\ queue[j] # Stop => queue[i] < queue[j]

\* A running write is the worker's, or one a multiprocessing child runs inline.
RunInv ==
    /\ worker \in Running => current \in Writes /\ state[current] = "running"
    /\ \A w \in Writes :
          state[w] = "running" => Inline(w) \/ (worker \in Running /\ current = w)

\* No write has been started while an earlier one is unfinished.
Fifo ==
    \A v, w \in Writes :
        v < w /\ Unfinished(v) /\ ~Inline(v) => state[w] \in {"queued", "unborn"}

\* A multiprocessing child has one thread, and its pool is never used.
ChildInv ==
    inChild => /\ worker = "none"
               /\ queue = <<>>
               /\ \A c \in Callers : pc[c] # "sentinel"
               /\ \A c, d \in Callers : pc[c] # "gone" /\ pc[d] # "gone" => c = d

\* An inline write is the child's last one.
InlineInv ==
    \A c \in Callers : pc[c] = "inline" =>
        inChild /\ future[c] = last /\ state[future[c]] = "running"

\* What the directory holds was written by a write that has run.
DiskInv ==
    \A k \in Keys : disk[k] # NoWrite => state[disk[k]] \notin {"unborn", "queued"}

OrderInv == Born /\ QueueInv /\ RunInv /\ Fifo /\ ChildInv /\ InlineInv /\ DiskInv

\* A new queue is empty and nothing has landed.
LEMMA OrderInit == Init => OrderInv
<1> SUFFICES ASSUME Init PROVE OrderInv
  OBVIOUS
<1> USE ConstantsAssumption
<1>1. Born
  BY DEF Init, Born, Writes
<1>2. QueueInv
  BY DEF Init, QueueInv
<1>3. RunInv /\ Fifo
  BY Zenon DEF Init, RunInv, Fifo, Running, Unfinished
<1>4. ChildInv /\ InlineInv /\ DiskInv
  BY Zenon DEF Init, ChildInv, InlineInv, DiskInv
<1> QED BY <1>1, <1>2, <1>3, <1>4, Zenon DEF OrderInv

\* A step of a caller that starts and ends no inline write, uses no pool, and
\* ends no thread.
QuietCall ==
    \A d \in Callers :
        /\ pc'[d] = "inline" <=> pc[d] = "inline"
        /\ pc[d] = "inline" => future'[d] = future[d]
        /\ pc'[d] = "gone" <=> pc[d] = "gone"
        /\ inChild => pc'[d] # "sentinel"

\* What such a step leaves alone.
orderVars == <<queue, worker, current, inChild, last, state, keyOf>>

\* Such a step begins and ends no inline write of a child.
LEMMA QuietInline == QuietCall => \A w \in Writes : Inline(w)' <=> Inline(w)
BY Zenon DEF QuietCall, Inline, At

\* A step that leaves the pool and the futures alone, and at most removes
\* entries, keeps the order.
LEMMA OrderQuiet ==
    ASSUME TypeInv, OrderInv, QuietCall, UNCHANGED orderVars,
           \A k \in Keys : disk'[k] \in {disk[k], NoWrite}
    PROVE  OrderInv'
<1> USE QuietInline DEF orderVars, OrderInv
<1>1. Born' /\ QueueInv'
  BY Zenon DEF Born, QueueInv
<1>2. RunInv' /\ Fifo'
  BY Zenon DEF RunInv, Fifo, Unfinished
<1>3. ChildInv'
  BY Zenon DEF ChildInv, QuietCall
<1>4. InlineInv'
  BY Zenon DEF InlineInv, QuietCall
<1>5. DiskInv'
  BY Zenon DEF DiskInv
<1> QED BY <1>1, <1>2, <1>3, <1>4, <1>5, Zenon

\* A write handed to the pool is last in its queue.
LEMMA OrderEnqueue ==
    ASSUME TypeInv, OrderInv, ~inChild, NEW k \in Keys, NewFuture(k, "queued"),
           queue' = Append(queue, last + 1),
           worker' \in {worker, "get"}, worker' # worker => worker = "none",
           UNCHANGED <<current, inChild, disk>>,
           \A d \in Callers : pc'[d] = "inline" => pc[d] = "inline"
    PROVE  OrderInv'
<1> DEFINE n == last + 1
<1>1. n \in Writes /\ last \in Nat /\ last' = n
  BY ConstantsAssumption DEF TypeInv, TypeOK, NewFuture, Writes
<1>2. /\ state[n] = "unborn"
      /\ state' = [state EXCEPT ![n] = "queued"]
      /\ \A w \in Writes : w # n => state'[w] = state[w]
      /\ state'[n] = "queued"
  BY <1>1 DEF TypeInv, TypeOK, NewFuture, OrderInv, Born, Writes
<1>3. \A d \in Callers : pc[d] # "inline" /\ pc'[d] # "inline"
  BY Zenon DEF OrderInv, InlineInv
<1>4. \A w \in Writes : ~Inline(w) /\ ~Inline(w)'
  BY <1>3, Zenon DEF Inline, At
<1>5. Born'
  BY <1>1, <1>2 DEF OrderInv, Born, Writes
<1>6. QueueInv'
  <2> USE <1>1, <1>2
  <2>1. /\ Len(queue') = Len(queue) + 1
        /\ \A i \in 1 .. Len(queue) : queue'[i] = queue[i]
        /\ queue'[Len(queue) + 1] = n
        /\ Len(queue) \in Nat
    BY AppendProperties, LenProperties DEF TypeInv, TypeOK
  <2>2. \A i \in 1 .. Len(queue) : queue[i] # Stop =>
            queue[i] \in Writes /\ queue[i] < n /\ state'[queue[i]] = "queued"
    BY DEF TypeInv, TypeOK, OrderInv, QueueInv, Born, Writes, Stop
  <2>3. \A i \in 1 .. Len(queue') : queue'[i] # Stop => state'[queue'[i]] = "queued"
    BY <2>1, <2>2
  <2>4. \A w \in Writes : state'[w] = "queued" => \E i \in 1 .. Len(queue') : queue'[i] = w
    BY <2>1 DEF OrderInv, QueueInv
  <2>5. \A i, j \in 1 .. Len(queue') :
            i < j /\ queue'[i] # Stop /\ queue'[j] # Stop => queue'[i] < queue'[j]
    <3> TAKE i, j \in 1 .. Len(queue')
    <3> HAVE i < j /\ queue'[i] # Stop /\ queue'[j] # Stop
    <3>1. i \in 1 .. Len(queue)
      BY <2>1
    <3>2. CASE j = Len(queue) + 1
      BY <3>1, <3>2, <2>1, <2>2, Zenon
    <3>3. CASE j \in 1 .. Len(queue)
      BY <3>1, <3>3, <2>1, Zenon DEF OrderInv, QueueInv
    <3> QED BY <3>2, <3>3, <2>1
  <2> QED BY <2>3, <2>4, <2>5, Zenon DEF QueueInv
<1>7. RunInv'
  BY <1>1, <1>2, <1>4, Zenon DEF OrderInv, RunInv, Running
<1>8. Fifo'
  <2> SUFFICES ASSUME NEW v \in Writes, NEW w \in Writes, v < w, Unfinished(v)'
               PROVE  state'[w] \in {"queued", "unborn"}
    BY Zenon DEF Fifo
  <2>1. CASE w = n
    BY <2>1, <1>2, Zenon
  <2>2. CASE v = n
    BY <2>2, <1>1, <1>2 DEF OrderInv, Born, Writes
  <2>3. CASE v # n /\ w # n
    BY <2>3, <1>2, <1>4, Zenon DEF OrderInv, Fifo, Unfinished
  <2> QED BY <2>1, <2>2, <2>3, Zenon
<1>9. ChildInv' /\ InlineInv'
  BY <1>3, Zenon DEF ChildInv, InlineInv
<1>10. DiskInv'
  BY <1>2, Zenon DEF OrderInv, DiskInv, TypeInv, TypeOK
<1> QED BY <1>5, <1>6, <1>7, <1>8, <1>9, <1>10, Zenon DEF OrderInv

\* In a multiprocessing child nothing is queued, and nothing runs but inline.
LEMMA ChildIdle ==
    ASSUME TypeInv, OrderInv, inChild
    PROVE  \A w \in Writes : state[w] # "queued" /\ (state[w] = "running" => Inline(w))
<1>1. queue = <<>> /\ worker = "none"
  BY Zenon DEF OrderInv, ChildInv
<1> QED BY <1>1 DEF OrderInv, QueueInv, RunInv, Running

\* A multiprocessing child starts a write in its own thread (submit).
LEMMA OrderInlineBegin ==
    ASSUME TypeInv, OrderInv, NEW c \in Callers, InlineBegin(c)
    PROVE  OrderInv'
<1> DEFINE n == last + 1
<1>1. n \in Writes /\ last \in Nat /\ last' = n
  BY ConstantsAssumption DEF TypeInv, TypeOK, InlineBegin, NewFuture, Writes
<1>2. /\ state[n] = "unborn"
      /\ \A w \in Writes : w # n => state'[w] = state[w]
      /\ state'[n] = "running"
  BY <1>1 DEF TypeInv, TypeOK, InlineBegin, NewFuture, OrderInv, Born, Writes
<1>3. /\ inChild /\ pc[c] = "submit" /\ pc'[c] = "inline" /\ future'[c] = n
      /\ \A d \in Callers : d # c => pc[d] = "gone" /\ pc'[d] = "gone"
  BY Zenon DEF InlineBegin, Hold, At, OrderInv, ChildInv, TypeInv, TypeOK
<1>4. /\ \A w \in Writes : w = n => Inline(w)'
      /\ \A w \in Writes : ~Inline(w)
  BY <1>3, Zenon DEF Inline, At
<1>5. UNCHANGED <<queue, worker, current, inChild, disk>>
  BY Zenon DEF InlineBegin, poolVars, procVars
<1>6. \A w \in Writes : w # n => ~Unfinished(w) /\ ~Unfinished(w)'
  BY <1>2, <1>3, <1>4, ChildIdle, Zenon DEF Unfinished
<1>7. Born'
  BY <1>1, <1>2 DEF OrderInv, Born, Writes
<1>8. QueueInv' /\ ChildInv'
  BY <1>1, <1>2, <1>3, <1>5, <1>6 DEF OrderInv, QueueInv, ChildInv, Unfinished
<1>9. RunInv'
  BY <1>2, <1>3, <1>4, <1>5, <1>6, Zenon DEF OrderInv, RunInv, ChildInv, Unfinished, Running
<1>10. Fifo'
  BY <1>4, <1>6, Zenon DEF Fifo
<1>11. InlineInv'
  BY <1>1, <1>2, <1>3, <1>5, Zenon DEF InlineInv
<1>12. DiskInv'
  BY <1>2, <1>5, Zenon DEF OrderInv, DiskInv, TypeInv, TypeOK
<1> QED BY <1>7, <1>8, <1>9, <1>10, <1>11, <1>12, Zenon DEF OrderInv

\* The child's write has landed, or failed.
LEMMA OrderInlineEnd ==
    ASSUME TypeInv, OrderInv, NEW c \in Callers, NEW ok \in BOOLEAN, InlineEnd(c, ok)
    PROVE  OrderInv'
<1> DEFINE n == future[c]
<1>1. /\ inChild /\ pc[c] = "inline" /\ n \in Writes /\ n = last /\ state[n] = "running"
      /\ pc'[c] = "idle"
      /\ \A d \in Callers : d # c => pc[d] = "gone" /\ pc'[d] = "gone"
  BY Zenon DEF InlineEnd, Finish, At, OrderInv, ChildInv, InlineInv, TypeInv, TypeOK, Holding, HoldingAt
<1>2. /\ \A w \in Writes : w # n => state'[w] = state[w]
      /\ state'[n] \in {"ok", "failed"}
      /\ UNCHANGED <<queue, worker, current, inChild, last>>
  BY <1>1, Zenon DEF InlineEnd, Result, TypeInv, TypeOK, poolVars, procVars
<1>3. \A w \in Writes : ~Unfinished(w)'
  BY <1>1, <1>2, ChildIdle DEF Unfinished, Inline, At
<1>4. Born'
  BY <1>1, <1>2, Zenon DEF OrderInv, Born
<1>5. QueueInv' /\ ChildInv'
  BY <1>1, <1>2, <1>3 DEF OrderInv, QueueInv, ChildInv, Unfinished
<1>6. RunInv' /\ Fifo'
  BY <1>1, <1>2, <1>3, Zenon DEF OrderInv, RunInv, Fifo, ChildInv, Unfinished, Running
<1>7. InlineInv'
  BY <1>1, Zenon DEF InlineInv
<1>8. DiskInv'
  <2> SUFFICES ASSUME NEW k \in Keys, disk'[k] # NoWrite
               PROVE  state'[disk'[k]] \notin {"unborn", "queued"}
    BY Zenon DEF DiskInv
  <2>1. disk'[k] \in {disk[k], n}
    BY Zenon DEF InlineEnd, TypeInv, TypeOK
  <2> QED BY <2>1, <1>2, Zenon DEF OrderInv, DiskInv, TypeInv, TypeOK
<1> QED BY <1>4, <1>5, <1>6, <1>7, <1>8, Zenon DEF OrderInv

\* os.fork: in the child, the parent's unfinished writes are nobody's queue.
LEMMA OrderFork ==
    ASSUME TypeInv, OrderInv, NEW c \in Callers, NEW mpChild \in BOOLEAN, Fork(c, mpChild)
    PROVE  OrderInv'
<1>1. /\ queue' = <<>> /\ worker' = "none" /\ last' = last /\ disk' = disk
      /\ \A d \in Callers : pc'[d] = IF d = c THEN "idle" ELSE "gone"
      /\ \A w \in Writes : IF Unfinished(w) THEN state'[w] \in {"parents", "parentDone"}
                                          ELSE state'[w] = state[w]
  BY Zenon DEF Fork, Inherited
<1>2. \A w \in Writes : ~Unfinished(w)' /\ (state'[w] = "unborn" <=> state[w] = "unborn")
  BY <1>1, Zenon DEF Unfinished
<1>3. Born'
  BY <1>1, <1>2, Zenon DEF OrderInv, Born
<1>4. QueueInv' /\ RunInv' /\ Fifo'
  BY <1>1, <1>2 DEF QueueInv, RunInv, Fifo, Unfinished, Running
<1>5. ChildInv' /\ InlineInv'
  BY <1>1, Zenon DEF ChildInv, InlineInv
<1>6. DiskInv'
  BY <1>1, ZenonT(30) DEF OrderInv, DiskInv, TypeInv, TypeOK
<1> QED BY <1>3, <1>4, <1>5, <1>6, Zenon DEF OrderInv

\* A write of the parent lands beside the child.
LEMMA OrderParentWrite ==
    ASSUME TypeInv, OrderInv, NEW w \in Writes, NEW ok \in BOOLEAN, ParentWrite(w, ok)
    PROVE  OrderInv'
<1>1. /\ state[w] = "parents" /\ state'[w] = "parentDone"
      /\ \A v \in Writes : v # w => state'[v] = state[v]
      /\ UNCHANGED <<queue, worker, current, inChild, last, pc, future>>
  BY Zenon DEF ParentWrite, TypeInv, TypeOK, poolVars, procVars, callVars
<1>2. \A v \in Writes : Inline(v)' <=> Inline(v)
  BY <1>1, Zenon DEF Inline, At
<1>3. Born'
  BY <1>1, Zenon DEF OrderInv, Born
<1>4. QueueInv'
  <2>1. \A j \in 1 .. Len(queue) : queue[j] # Stop => queue[j] \in Writes
    BY DEF TypeInv, TypeOK
  <2> QED BY <1>1, <2>1 DEF OrderInv, QueueInv
<1>5. RunInv' /\ Fifo'
  BY <1>1, <1>2, Zenon DEF OrderInv, RunInv, Fifo, Unfinished
<1>6. ChildInv'
  BY <1>1, Zenon DEF OrderInv, ChildInv
<1>7. InlineInv'
  BY <1>1, Zenon DEF OrderInv, InlineInv, TypeInv, Holding, HoldingAt
<1>8. DiskInv'
  <2> SUFFICES ASSUME NEW k \in Keys, disk'[k] # NoWrite
               PROVE  state'[disk'[k]] \notin {"unborn", "queued"}
    BY Zenon DEF DiskInv
  <2>1. disk'[k] \in {disk[k], w}
    BY Zenon DEF ParentWrite, TypeInv, TypeOK
  <2> QED BY <2>1, <1>1, Zenon DEF OrderInv, DiskInv, TypeInv, TypeOK
<1> QED BY <1>3, <1>4, <1>5, <1>6, <1>7, <1>8, Zenon DEF OrderInv

\* The worker starts the oldest queued write, or takes the sentinel.
LEMMA OrderWorkerGet ==
    ASSUME TypeInv, OrderInv, WorkerGet
    PROVE  OrderInv'
<1> DEFINE h == Head(queue)
<1>1. /\ queue # <<>> /\ worker = "get" /\ ~inChild
      /\ UNCHANGED <<inChild, last, pc, future, disk>>
  BY Zenon DEF WorkerGet, OrderInv, ChildInv, procVars, callVars
<1>2. /\ Len(queue) \in Nat /\ Len(queue) >= 1
      /\ h = queue[1] /\ h \in Writes \cup {Stop}
      /\ queue' = Tail(queue)
      /\ Len(queue') = Len(queue) - 1
      /\ \A j \in 1 .. Len(queue') : queue'[j] = queue[j + 1] /\ j + 1 \in 1 .. Len(queue)
  <2>1. queue \in Seq(Writes \cup {Stop})
    BY Zenon DEF TypeInv, TypeOK
  <2> QED BY <2>1, <1>1, HeadTailProperties, LenProperties, EmptySeq DEF WorkerGet
<1>3. \A d \in Callers : pc[d] # "inline" /\ pc'[d] # "inline"
  BY <1>1, Zenon DEF OrderInv, InlineInv
<1>4. \A w \in Writes : ~Inline(w) /\ ~Inline(w)' /\ state[w] # "running"
  BY <1>1, <1>3, Zenon DEF Inline, At, OrderInv, RunInv, Running
<1>5. ChildInv' /\ InlineInv'
  BY <1>1, <1>3, Zenon DEF ChildInv, InlineInv
<1>6. CASE h = Stop
  <2>1. worker' = "none" /\ UNCHANGED <<current, state>>
    BY <1>6, Zenon DEF WorkerGet
  <2>2. Born' /\ DiskInv'
    BY <1>1, <2>1, Zenon DEF OrderInv, Born, DiskInv
  <2>3. QueueInv'
    <3>1. \A j \in 1 .. Len(queue') : queue'[j] # Stop => state'[queue'[j]] = "queued"
      BY <1>2, <2>1, Zenon DEF OrderInv, QueueInv
    <3>2. \A w \in Writes : state'[w] = "queued" => \E j \in 1 .. Len(queue') : queue'[j] = w
      <4> SUFFICES ASSUME NEW w \in Writes, state[w] = "queued"
                   PROVE  \E j \in 1 .. Len(queue') : queue'[j] = w
        BY <2>1, Zenon
      <4>1. PICK j \in 1 .. Len(queue) : queue[j] = w
        BY Zenon DEF OrderInv, QueueInv
      <4>2. j # 1
        BY <4>1, <1>2, <1>6, ConstantsAssumption DEF Stop, Writes
      <4>3. j - 1 \in 1 .. Len(queue') /\ queue'[j - 1] = w
        BY <4>1, <4>2, <1>2
      <4> QED BY <4>3, Zenon
    <3>3. \A j, m \in 1 .. Len(queue') :
              j < m /\ queue'[j] # Stop /\ queue'[m] # Stop => queue'[j] < queue'[m]
      BY <1>2 DEF OrderInv, QueueInv
    <3> QED BY <3>1, <3>2, <3>3, Zenon DEF QueueInv
  <2>4. RunInv' /\ Fifo'
    BY <1>4, <2>1, Zenon DEF OrderInv, RunInv, Fifo, Running, Unfinished
  <2> QED BY <1>5, <2>2, <2>3, <2>4, Zenon DEF OrderInv
<1>7. CASE h # Stop
  <2>1. /\ h \in Writes /\ state[h] = "queued"
        /\ worker' = "run" /\ current' = h
        /\ state'[h] = "running"
        /\ \A w \in Writes : w # h => state'[w] = state[w]
    BY <1>2, <1>7 DEF WorkerGet, OrderInv, QueueInv, TypeInv, TypeOK
  <2>2. \A j \in 1 .. Len(queue') : queue'[j] # Stop => queue'[j] \in Writes /\ h < queue'[j]
    BY <1>2, <1>7 DEF OrderInv, QueueInv, TypeInv, TypeOK
  <2>3. Born' /\ DiskInv'
    BY <1>1, <2>1, Zenon DEF OrderInv, Born, DiskInv, TypeInv, TypeOK
  <2>4. QueueInv'
    <3>1. \A j \in 1 .. Len(queue') : queue'[j] # Stop => state'[queue'[j]] = "queued"
      <4> SUFFICES ASSUME NEW j \in 1 .. Len(queue'), queue'[j] # Stop
                   PROVE  state'[queue'[j]] = "queued"
        OBVIOUS
      <4>1. queue'[j] \in Writes /\ h < queue'[j] /\ queue'[j] = queue[j + 1] /\ j + 1 \in 1 .. Len(queue)
        BY <2>2, <1>2, Zenon
      <4>2. queue'[j] # h
        BY <4>1, <2>1, ConstantsAssumption DEF Writes
      <4>3. state[queue'[j]] = "queued"
        BY <4>1, Zenon DEF OrderInv, QueueInv
      <4> QED BY <2>1, <4>1, <4>2, <4>3, Zenon
    <3>2. \A w \in Writes : state'[w] = "queued" => \E j \in 1 .. Len(queue') : queue'[j] = w
      <4> SUFFICES ASSUME NEW w \in Writes, state'[w] = "queued"
                   PROVE  \E j \in 1 .. Len(queue') : queue'[j] = w
        OBVIOUS
      <4>1. w # h /\ state[w] = "queued"
        BY <2>1, Zenon
      <4>2. PICK j \in 1 .. Len(queue) : queue[j] = w
        BY <4>1, Zenon DEF OrderInv, QueueInv
      <4>3. j - 1 \in 1 .. Len(queue') /\ queue'[j - 1] = w
        BY <4>1, <4>2, <1>2
      <4> QED BY <4>3, Zenon
    <3>3. \A j, m \in 1 .. Len(queue') :
              j < m /\ queue'[j] # Stop /\ queue'[m] # Stop => queue'[j] < queue'[m]
      BY <1>2 DEF OrderInv, QueueInv
    <3> QED BY <3>1, <3>2, <3>3, Zenon DEF QueueInv
  <2>5. RunInv'
    BY <1>4, <2>1, Zenon DEF RunInv, Running
  <2>6. Fifo'
    <3> SUFFICES ASSUME NEW v \in Writes, NEW w \in Writes, v < w, Unfinished(v)'
                 PROVE  state'[w] \in {"queued", "unborn"}
      BY Zenon DEF Fifo
    <3>1. Unfinished(v) /\ state[w] \in {"queued", "unborn"}
      BY <1>4, <2>1, Zenon DEF Unfinished, OrderInv, Fifo
    <3>2. w # h
      <4>1. CASE v = h
        BY <4>1, ConstantsAssumption DEF Writes
      <4>2. CASE v # h
        <5>1. state[v] = "queued"
          BY <3>1, <1>4, Zenon DEF Unfinished
        <5>2. PICK j \in 1 .. Len(queue) : queue[j] = v
          BY <5>1, Zenon DEF OrderInv, QueueInv
        <5>3. v # Stop
          BY ConstantsAssumption DEF Writes, Stop
        <5>4. h < v
          BY <4>2, <5>2, <5>3, <1>2, <1>7 DEF OrderInv, QueueInv
        <5> QED BY <5>4, ConstantsAssumption DEF Writes
      <4> QED BY <4>1, <4>2, Zenon
    <3> QED BY <2>1, <3>1, <3>2, Zenon
  <2> QED BY <1>5, <2>3, <2>4, <2>5, <2>6, Zenon DEF OrderInv
<1> QED BY <1>6, <1>7, Zenon

\* The worker's other steps: moving on, landing the write, settling its future.
LEMMA OrderWorkerMove ==
    ASSUME TypeInv, OrderInv, worker # "none", worker \in Running <=> worker' \in Running,
           worker' \in Running => current' = current,
           UNCHANGED <<queue, inChild, last, state, pc, future, disk>>
    PROVE  OrderInv'
<1>1. ~inChild
  BY Zenon DEF OrderInv, ChildInv
<1>2. \A w \in Writes : Inline(w)' <=> Inline(w)
  BY Zenon DEF Inline, At
<1>3. Born' /\ QueueInv' /\ DiskInv'
  BY Zenon DEF OrderInv, Born, QueueInv, DiskInv
<1>4. RunInv'
  BY <1>2, Zenon DEF OrderInv, RunInv
<1>5. Fifo'
  BY <1>2, Zenon DEF OrderInv, Fifo, Unfinished
<1>6. ChildInv' /\ InlineInv'
  BY <1>1, Zenon DEF OrderInv, ChildInv, InlineInv
<1> QED BY <1>3, <1>4, <1>5, <1>6, Zenon DEF OrderInv

\* The writer thread runs the write function, which may fail.
LEMMA OrderWorkerRun ==
    ASSUME TypeInv, OrderInv, NEW ok \in BOOLEAN, WorkerRun(ok)
    PROVE  OrderInv'
<1>1. /\ worker = "run" /\ worker' \in Running /\ ~inChild
      /\ current \in Writes /\ state[current] = "running"
      /\ UNCHANGED <<queue, current, inChild, last, state, pc, future>>
  BY Zenon DEF WorkerRun, OrderInv, ChildInv, RunInv, Running, procVars, futVars, callVars
<1>2. \A w \in Writes : Inline(w)' <=> Inline(w)
  BY <1>1, Zenon DEF Inline, At
<1>3. Born' /\ QueueInv'
  BY <1>1, Zenon DEF OrderInv, Born, QueueInv
<1>4. RunInv' /\ Fifo'
  BY <1>1, <1>2, Zenon DEF OrderInv, RunInv, Fifo, Unfinished, Running
<1>5. ChildInv' /\ InlineInv'
  BY <1>1, Zenon DEF OrderInv, ChildInv, InlineInv
<1>6. DiskInv'
  <2> SUFFICES ASSUME NEW k \in Keys, disk'[k] # NoWrite
               PROVE  state'[disk'[k]] \notin {"unborn", "queued"}
    BY Zenon DEF DiskInv
  <2>1. disk'[k] \in {disk[k], current}
    BY Zenon DEF WorkerRun, TypeInv, TypeOK
  <2> QED BY <2>1, <1>1, Zenon DEF OrderInv, DiskInv
<1> QED BY <1>3, <1>4, <1>5, <1>6, Zenon DEF OrderInv

\* The write's future is set.
LEMMA OrderWorkerResult ==
    ASSUME TypeInv, OrderInv, WorkerResult
    PROVE  OrderInv'
<1>1. /\ worker \in Running /\ worker' = "callbacks" /\ ~inChild
      /\ current \in Writes /\ state[current] = "running"
      /\ UNCHANGED <<queue, inChild, last, pc, future, disk>>
  BY Zenon DEF WorkerResult, OrderInv, ChildInv, RunInv, Running, procVars, callVars
<1>2. /\ state'[current] \in {"ok", "failed"}
      /\ \A w \in Writes : w # current => state'[w] = state[w]
  BY <1>1, Zenon DEF WorkerResult, Result, TypeInv, TypeOK
<1>3. \A d \in Callers : pc[d] # "inline" /\ pc'[d] # "inline"
  BY <1>1, Zenon DEF OrderInv, InlineInv
<1>4. \A w \in Writes : ~Inline(w) /\ ~Inline(w)'
  BY <1>3, Zenon DEF Inline, At
<1>5. Born' /\ DiskInv'
  BY <1>1, <1>2, Zenon DEF OrderInv, Born, DiskInv, TypeInv, TypeOK
<1>6. QueueInv'
  <2>1. \A j \in 1 .. Len(queue) : queue[j] # Stop => queue[j] \in Writes
    BY DEF TypeInv, TypeOK
  <2> QED BY <1>1, <1>2, <2>1 DEF OrderInv, QueueInv
<1>7. RunInv'
  BY <1>1, <1>2, <1>4, Zenon DEF OrderInv, RunInv, Running
<1>8. Fifo'
  BY <1>1, <1>2, <1>4, Zenon DEF OrderInv, Fifo, Unfinished
<1>9. ChildInv' /\ InlineInv'
  BY <1>1, <1>3, Zenon DEF ChildInv, InlineInv
<1> QED BY <1>5, <1>6, <1>7, <1>8, <1>9, Zenon DEF OrderInv

\* The steps of a caller that are quiet.
QuietStep(c) ==
    \/ \E k \in Keys : SetBegin(c, k) \/ WaitBegin(c, k) \/ DrainBegin(c, k)
    \/ ClearBegin(c) \/ ShutdownBegin(c) \/ ForkBegin(c)
    \/ MakeRoom(c) \/ RoomSettled(c) \/ SubmitPrevious(c) \/ SubmitRefused(c)
    \/ RegisterForget(c) \/ SizeCheck(c) \/ SizeAdd(c) \/ SizeCallback(c)
    \/ WaitEnd(c) \/ Read(c) \/ DrainEnd(c) \/ Remove(c) \/ WaitAllEnd(c) \/ Clear(c)
    \/ StopPool(c) \/ Join(c)

\* The callers' steps outside the pool are such steps.
LEMMA QuietSteps ==
    ASSUME TypeInv, OrderInv, NEW c \in Callers, QuietStep(c)
    PROVE  /\ QuietCall
           /\ UNCHANGED orderVars
           /\ \A k \in Keys : disk'[k] \in {disk[k], NoWrite}
<1> DEFINE Quiet == /\ QuietCall
                    /\ UNCHANGED orderVars
                    /\ \A k \in Keys : disk'[k] \in {disk[k], NoWrite}
<1> USE DEF QuietCall, orderVars, At, TypeInv, TypeOK, OrderInv, ChildInv,
            poolVars, procVars, futVars
<1>1. ASSUME NEW k \in Keys, SetBegin(c, k) PROVE Quiet
  BY <1>1, Zenon DEF SetBegin, Begin
<1>2. ASSUME MakeRoom(c) PROVE Quiet
  BY <1>2 DEF MakeRoom, Goto, Hold
<1>3. ASSUME RoomSettled(c) PROVE Quiet
  BY <1>3, Zenon DEF RoomSettled, Goto
<1>4. ASSUME SubmitPrevious(c) PROVE Quiet
  BY <1>4, Zenon DEF SubmitPrevious, Hold
<1>5. ASSUME SubmitRefused(c) PROVE Quiet
  BY <1>5, Zenon DEF SubmitRefused, Finish
<1>6. ASSUME RegisterForget(c) PROVE Quiet
  BY <1>6 DEF RegisterForget, Goto, Finish
<1>7. ASSUME SizeCheck(c) PROVE Quiet
  BY <1>7 DEF SizeCheck, Goto, Finish
<1>8. ASSUME SizeAdd(c) PROVE Quiet
  BY <1>8, Zenon DEF SizeAdd, Goto
<1>9. ASSUME SizeCallback(c) PROVE Quiet
  BY <1>9, Zenon DEF SizeCallback, Finish
<1>10. ASSUME NEW k \in Keys, WaitBegin(c, k) PROVE Quiet
  BY <1>10, Zenon DEF WaitBegin, Begin
<1>11. ASSUME WaitEnd(c) PROVE Quiet
  BY <1>11, Zenon DEF WaitEnd, Goto
<1>12. ASSUME Read(c) PROVE Quiet
  BY <1>12, Zenon DEF Read, Finish
<1>13. ASSUME NEW k \in Keys, DrainBegin(c, k) PROVE Quiet
  BY <1>13, Zenon DEF DrainBegin, Begin
<1>14. ASSUME DrainEnd(c) PROVE Quiet
  BY <1>14, Zenon DEF DrainEnd, Goto
<1>15. ASSUME Remove(c) PROVE Quiet
  BY <1>15, Zenon DEF Remove, Finish
<1>16. ASSUME ClearBegin(c) PROVE Quiet
  BY <1>16, Zenon DEF ClearBegin, WaitAllBegin
<1>17. ASSUME WaitAllEnd(c) PROVE Quiet
  BY <1>17, Zenon DEF WaitAllEnd, Goto
<1>18. ASSUME Clear(c) PROVE Quiet
  BY <1>18, Zenon DEF Clear, Finish
<1>19. ASSUME ShutdownBegin(c) PROVE Quiet
  BY <1>19, Zenon DEF ShutdownBegin, Goto
<1>20. ASSUME StopPool(c) PROVE Quiet
  BY <1>20 DEF StopPool, Goto, Finish
<1>21. ASSUME Join(c) PROVE Quiet
  BY <1>21, Zenon DEF Join, Finish
<1>22. ASSUME ForkBegin(c) PROVE Quiet
  BY <1>22, Zenon DEF ForkBegin, WaitAllBegin
<1> HIDE DEF Quiet
<1>23. Quiet
  BY <1>1, <1>2, <1>3, <1>4, <1>5, <1>6, <1>7, <1>8, <1>9, <1>10, <1>11, <1>12, <1>13, <1>14,
      <1>15, <1>16, <1>17, <1>18, <1>19, <1>20, <1>21, <1>22, Zenon DEF QuietStep
<1> QED BY <1>23, Zenon DEF Quiet

\* Every step keeps OrderInv.
LEMMA OrderStep == TypeInv /\ OrderInv /\ [Next]_vars => OrderInv'
<1> SUFFICES ASSUME TypeInv, OrderInv, [Next]_vars PROVE OrderInv'
  OBVIOUS
<1>1. ASSUME NEW c \in Callers, QuietStep(c) PROVE OrderInv'
  BY <1>1, QuietSteps, OrderQuiet, Zenon
<1>2. ASSUME NEW c \in Callers, SubmitEnqueue(c) PROVE OrderInv'
  <2>1. /\ ~inChild /\ arg[c] \in Keys /\ NewFuture(arg[c], "queued")
        /\ queue' = Append(queue, last + 1)
        /\ worker' \in {worker, "get"} /\ (worker' # worker => worker = "none")
        /\ UNCHANGED <<current, inChild, disk>>
    BY <1>2, Zenon DEF SubmitEnqueue, TypeInv, TypeOK, procVars
  <2>2. \A d \in Callers : pc'[d] = "inline" => pc[d] = "inline"
    BY <1>2, Zenon DEF SubmitEnqueue, Hold, TypeInv, TypeOK
  <2> QED BY <2>1, <2>2, OrderEnqueue, Zenon
<1>3. ASSUME NEW c \in Callers, SubmitStartFails(c) PROVE OrderInv'
  <2>1. /\ ~inChild /\ arg[c] \in Keys /\ NewFuture(arg[c], "queued")
        /\ queue' = Append(queue, last + 1)
        /\ UNCHANGED <<worker, current, inChild, disk>>
    BY <1>3, Zenon DEF SubmitStartFails, TypeInv, TypeOK, procVars
  <2>2. \A d \in Callers : pc'[d] = "inline" => pc[d] = "inline"
    BY <1>3, Zenon DEF SubmitStartFails, Finish, TypeInv, TypeOK
  <2> QED BY <2>1, <2>2, OrderEnqueue, Zenon
<1>4. ASSUME NEW c \in Callers, PutSentinel(c) PROVE OrderInv'
  <2>1. /\ ~inChild /\ queue' = Append(queue, Stop)
        /\ UNCHANGED <<worker, current, inChild, last, state, disk>>
        /\ \A d \in Callers : pc'[d] = "inline" <=> pc[d] = "inline"
        /\ future' = future
    BY <1>4, Zenon DEF PutSentinel, Goto, At, OrderInv, ChildInv, TypeInv, TypeOK, procVars, futVars
  <2>2. \A w \in Writes : Inline(w)' <=> Inline(w)
    BY <2>1, Zenon DEF Inline, At
  <2>3. /\ Len(queue') = Len(queue) + 1 /\ Len(queue) \in Nat
        /\ \A i \in 1 .. Len(queue) : queue'[i] = queue[i]
        /\ queue'[Len(queue) + 1] = Stop
    <3>1. queue \in Seq(Writes \cup {Stop}) /\ queue' = Append(queue, Stop)
      BY <2>1, Zenon DEF TypeInv, TypeOK
    <3> QED BY <3>1, AppendProperties, LenProperties
  <2>4. QueueInv'
    BY <2>1, <2>3 DEF OrderInv, QueueInv
  <2>5. Born' /\ DiskInv'
    BY <2>1, Zenon DEF OrderInv, Born, DiskInv
  <2>6. RunInv' /\ Fifo'
    BY <2>1, <2>2, Zenon DEF OrderInv, RunInv, Fifo, Unfinished
  <2>7. ChildInv' /\ InlineInv'
    BY <2>1, Zenon DEF OrderInv, ChildInv, InlineInv
  <2> QED BY <2>4, <2>5, <2>6, <2>7, Zenon DEF OrderInv
<1>5. ASSUME NEW c \in Callers, NEW ok \in BOOLEAN, InlineBegin(c) \/ InlineEnd(c, ok)
      PROVE OrderInv'
  BY <1>5, OrderInlineBegin, OrderInlineEnd, Zenon
<1>6. ASSUME NEW c \in Callers, NEW mpChild \in BOOLEAN, Fork(c, mpChild) PROVE OrderInv'
  BY <1>6, OrderFork, Zenon
<1>7. ASSUME NEW w \in Writes, NEW ok \in BOOLEAN, ParentWrite(w, ok) PROVE OrderInv'
  BY <1>7, OrderParentWrite, Zenon
<1>8. ASSUME WorkerTimeout \/ WorkerRetire PROVE OrderInv'
  BY <1>8, OrderWorkerMove, Zenon DEF WorkerTimeout, WorkerRetire, Running, procVars, futVars, callVars
<1>9. ASSUME WorkerForget \/ WorkerForgetSize PROVE OrderInv'
  BY <1>9, OrderWorkerMove, Zenon DEF WorkerForget, WorkerForgetSize, Running, procVars, futVars, callVars
<1>10. ASSUME Worker PROVE OrderInv'
  BY <1>8, <1>9, <1>10, OrderWorkerGet, OrderWorkerRun, OrderWorkerResult, Zenon DEF Worker
<1>11. ASSUME UNCHANGED vars PROVE OrderInv'
  BY <1>11, OrderQuiet, Zenon DEF QuietCall, orderVars, vars, poolVars, procVars, futVars, callVars,
                           OrderInv, ChildInv
<1>12. ASSUME NEW c \in Callers, Continue(c) PROVE OrderInv'
  BY <1>1, <1>2, <1>3, <1>4, <1>5, <1>6, <1>12, Zenon DEF Continue, QuietStep
<1> QED
  BY <1>1, <1>7, <1>10, <1>11, <1>12, Zenon DEF Next, QuietStep

\* Writes of one key land in the order they were submitted, whatever the
\* callers, keys and writes, and also when a writer thread cannot be started.
THEOREM WritesLandInOrder == Spec => InOrder
<1>1. TypeInv /\ OrderInv /\ [Next]_vars =>
        [\A k \in Keys : \/ disk'[k] >= disk[k]
                         \/ disk'[k] = NoWrite
                         \/ state[disk'[k]] = "parents"]_disk
  <2> SUFFICES ASSUME TypeInv, OrderInv, Next, NEW k \in Keys, disk'[k] # NoWrite,
      disk'[k] # disk[k],
                      state[disk'[k]] # "parents"
               PROVE  disk'[k] >= disk[k]
    BY SMTT(30) DEF vars, TypeInv, TypeOK, NoWrite, Writes
  <2>1. ASSUME NEW c \in Callers, NEW ok \in BOOLEAN, InlineEnd(c, ok) PROVE disk'[k] >= disk[k]
    <3>1. disk'[k] = future[c] /\ future[c] = last
      BY <2>1, Zenon DEF InlineEnd, At, TypeInv, TypeOK, OrderInv, InlineInv
    <3>2. disk[k] \in Writes \cup {NoWrite} /\ last \in 0 .. MaxWrites
      BY Zenon DEF TypeInv, TypeOK
    <3>3. disk[k] # NoWrite => ~ (disk[k] > last)
      BY <3>2, Zenon DEF OrderInv, DiskInv, Born
    <3> QED BY <3>1, <3>2, <3>3, ConstantsAssumption DEF Writes, NoWrite
  <2>2. ASSUME NEW ok \in BOOLEAN, WorkerRun(ok) PROVE disk'[k] >= disk[k]
    <3>1. /\ disk'[k] = current /\ current \in Writes /\ state[current] = "running"
          /\ ~Inline(current)
      BY <2>2, Zenon DEF WorkerRun, TypeInv, TypeOK, OrderInv, RunInv, Running, Inline, At, InlineInv,
          ChildInv
    <3>2. CASE disk[k] = NoWrite
      BY <3>1, <3>2, ConstantsAssumption, SMTT(30) DEF Writes, NoWrite
    <3>3. CASE disk[k] # NoWrite
      <4>1. disk[k] \in Writes /\ state[disk[k]] \notin {"unborn", "queued"}
        BY <3>3, Zenon DEF TypeInv, TypeOK, OrderInv, DiskInv
      <4>2. ~ (current < disk[k])
        BY <3>1, <4>1, Zenon DEF OrderInv, Fifo, Unfinished
      <4> QED BY <3>1, <4>1, <4>2, ConstantsAssumption DEF Writes
    <3> QED BY <3>2, <3>3, Zenon
  <2>3. ASSUME NEW c \in Callers, QuietStep(c) PROVE FALSE
    BY <2>3, QuietSteps, Zenon DEF orderVars
  <2>4. ASSUME NEW w \in Writes, NEW ok \in BOOLEAN, ParentWrite(w, ok) PROVE FALSE
    BY <2>4, Zenon DEF ParentWrite, TypeInv, TypeOK
  <2>5. ASSUME NEW c \in Callers, NEW mpChild \in BOOLEAN,
               SubmitEnqueue(c) \/ SubmitStartFails(c) \/ InlineBegin(c) \/ PutSentinel(c)
                  \/ Fork(c, mpChild)
        PROVE  FALSE
    BY <2>5, Zenon DEF SubmitEnqueue, SubmitStartFails, InlineBegin, PutSentinel, Fork
  <2>6. ASSUME Worker PROVE disk'[k] >= disk[k]
    BY <2>2, <2>6, Zenon DEF Worker, WorkerGet, WorkerTimeout, WorkerRetire, WorkerResult, WorkerForget,
                      WorkerForgetSize
  <2>7. ASSUME NEW c \in Callers, Continue(c) PROVE disk'[k] >= disk[k]
    BY <2>1, <2>3, <2>5, <2>7, Zenon DEF Continue, QuietStep
  <2> QED BY <2>3, <2>4, <2>6, <2>7, Zenon DEF Next, QuietStep
<1> QED BY <1>1, InitType, TypeStep, OrderInit, OrderStep, PTL DEF Spec, InOrder

-----------------------------------------------------------------------------
(* No get, delete, clear or fork overtakes an earlier write.               *)

\* A write that may still land.
Open(w) == Unfinished(w) /\ ~Inline(w)

\* Nothing is left of the writes in ws, but what a delete still waits for.
SettledBut(ws) == \A w \in ws : Open(w) => Draining(w)

MarkInv == \A c \in Callers : mark[c] <= last

\* What a caller inside an operation may rely on.  A get that waits may still
\* wait for its future and earlier writes, a clear for the futures it took.
CallInv(c) ==
    /\ pc[c] = "wait" => SettledBut({w \in Before(c) : w > future[c]})
    /\ pc[c] \in {"drain", "read", "remove"} => SettledBut(Before(c))
    /\ pc[c] = "waitAll" =>
         SettledBut({w \in Writes : w <= mark[c] /\ \A f \in snapshot[c] : f < w})
    /\ pc[c] = "clear" => SettledBut({w \in Writes : w <= mark[c]})

SettleInv == MarkInv /\ UnfinishedIsPending /\ \A c \in Callers : CallInv(c)

\* At first nothing is submitted and nobody waits.
LEMMA SettleInit == Init => SettleInv
<1> SUFFICES ASSUME Init PROVE SettleInv
  OBVIOUS
<1>1. MarkInv
  BY DEF Init, MarkInv
<1>2. UnfinishedIsPending
  BY Zenon DEF Init, UnfinishedIsPending, Unfinished
<1>3. \A c \in Callers : CallInv(c)
  BY Zenon DEF Init, CallInv
<1> QED BY <1>1, <1>2, <1>3, Zenon DEF SettleInv

\* SettleInv gives the properties.
LEMMA SettleImplies ==
    TypeInv /\ SettleInv =>
        UnfinishedIsPending /\ ReadSeesWrites /\ NoWriteAfterDelete /\ NoWriteAfterClear
<1> SUFFICES ASSUME TypeInv, SettleInv
             PROVE  UnfinishedIsPending /\ ReadSeesWrites /\ NoWriteAfterDelete /\ NoWriteAfterClear
  OBVIOUS
<1>1. ReadSeesWrites /\ NoWriteAfterDelete
  BY Zenon DEF SettleInv, CallInv, SettledBut, Open, ReadSeesWrites, NoWriteAfterDelete, At
<1>2. NoWriteAfterClear
  BY ConstantsAssumption
  DEF TypeInv, TypeOK, SettleInv, CallInv, SettledBut, Open, NoWriteAfterClear, At, Writes
<1> QED BY <1>1, <1>2, Zenon DEF SettleInv

\* What the writer has not finished is all that is open, and once a write is
\* done no earlier one is open.
LEMMA DoneMeansEarlierDone ==
    ASSUME OrderInv, NEW w \in Writes, NEW f \in Writes, Done(f), w <= f
    PROVE  ~Open(w)
<1>1. CASE w = f
  BY <1>1, Zenon DEF Open, Done, Unfinished
<1>2. CASE w # f
  <2>1. w < f
    BY <1>2, ConstantsAssumption DEF Writes
  <2> QED BY <2>1, Zenon DEF OrderInv, Fifo, Open, Done, Unfinished
<1> QED BY <1>1, <1>2, Zenon

Same(d) ==
    /\ pc'[d] = pc[d] /\ arg'[d] = arg[d] /\ future'[d] = future[d]
    /\ snapshot'[d] = snapshot[d] /\ mark'[d] = mark[d]

CallerStep(c) ==
    \/ QuietStep(c)
    \/ SubmitEnqueue(c) \/ SubmitStartFails(c) \/ PutSentinel(c)
    \/ InlineBegin(c) \/ \E ok \in BOOLEAN : InlineEnd(c, ok)

\* A caller's step moves no other caller.
LEMMA CallerAlone ==
    ASSUME TypeInv, NEW c \in Callers, CallerStep(c), NEW d \in Callers, d # c
    PROVE  Same(d)
<1> USE DEF Same, TypeInv, TypeOK
<1>1. ASSUME NEW where, NEW k, NEW w, Goto(c, where) \/ Hold(c, where, w) \/ Finish(c) \/ Begin(c,
    where, k, w)
      PROVE  Same(d)
  BY <1>1, Zenon DEF Goto, Hold, Finish, Begin
<1>2. ASSUME NEW where, NEW futures, WaitAllBegin(c, where, futures)
      PROVE  Same(d)
  BY <1>2, Zenon DEF WaitAllBegin
<1> HIDE DEF Same
<1>3. ASSUME \/ \E k \in Keys : SetBegin(c, k) \/ WaitBegin(c, k) \/ DrainBegin(c, k)
             \/ ClearBegin(c) \/ ShutdownBegin(c) \/ ForkBegin(c)
      PROVE  Same(d)
  BY <1>1, <1>2, <1>3, Zenon DEF SetBegin, WaitBegin, DrainBegin, ClearBegin, ShutdownBegin,
      ForkBegin
<1>4. ASSUME \/ MakeRoom(c) \/ RoomSettled(c) \/ SubmitPrevious(c) \/ SubmitRefused(c)
             \/ RegisterForget(c) \/ SizeCheck(c) \/ SizeAdd(c) \/ SizeCallback(c)
      PROVE  Same(d)
  BY <1>1, <1>4, Zenon DEF MakeRoom, RoomSettled, SubmitPrevious, SubmitRefused, RegisterForget,
      SizeCheck,
                    SizeAdd, SizeCallback
<1>5. ASSUME \/ WaitEnd(c) \/ Read(c) \/ DrainEnd(c) \/ Remove(c) \/ WaitAllEnd(c) \/ Clear(c)
             \/ StopPool(c) \/ Join(c)
      PROVE  Same(d)
  BY <1>1, <1>5, Zenon DEF WaitEnd, Read, DrainEnd, Remove, WaitAllEnd, Clear, StopPool, Join
<1>6. ASSUME NEW ok \in BOOLEAN,
             SubmitEnqueue(c) \/ SubmitStartFails(c) \/ PutSentinel(c) \/ InlineBegin(c) \/ InlineEnd(c, ok)
      PROVE  Same(d)
  BY <1>1, <1>6, Zenon DEF SubmitEnqueue, SubmitStartFails, PutSentinel, InlineBegin, InlineEnd
<1> QED BY <1>3, <1>4, <1>5, <1>6, Zenon DEF CallerStep, QuietStep

\* No step reopens a write.
LEMMA OpenKept ==
    ASSUME TypeInv, OrderInv, Next, NEW w \in Writes, w <= last
    PROVE  keyOf'[w] = keyOf[w] /\ (Open(w)' => Open(w))
<1> DEFINE Goal == keyOf'[w] = keyOf[w] /\ (Open(w)' => Open(w))
<1>1. ASSUME NEW c \in Callers, QuietStep(c) PROVE Goal
  BY <1>1, QuietSteps, QuietInline, Zenon DEF orderVars, Open, Unfinished
<1>2. ASSUME NEW k \in Keys, NEW st, NewFuture(k, st)
      PROVE keyOf'[w] = keyOf[w] /\ state'[w] = state[w]
  <2>1. w # last + 1
    BY DEF TypeInv, TypeOK
  <2> QED BY <1>2, <2>1, Zenon DEF NewFuture, TypeInv, TypeOK
<1>3. ASSUME NEW c \in Callers, SubmitEnqueue(c) \/ SubmitStartFails(c) PROVE Goal
  <2>1. ~inChild /\ arg[c] \in Keys /\ NewFuture(arg[c], "queued")
    BY <1>3, Zenon DEF SubmitEnqueue, SubmitStartFails, TypeInv, TypeOK
  <2>2. ~Inline(w)
    BY <2>1, Zenon DEF Inline, At, OrderInv, InlineInv
  <2> QED BY <1>2, <2>1, <2>2, Zenon DEF Open, Unfinished
<1>4. ASSUME NEW c \in Callers, PutSentinel(c) PROVE Goal
  <2>1. /\ \A d \in Callers : pc'[d] = "inline" <=> pc[d] = "inline"
        /\ UNCHANGED <<future, state, keyOf>>
    BY <1>4, Zenon DEF PutSentinel, Goto, At, TypeInv, TypeOK, futVars
  <2> QED BY <2>1, Zenon DEF Open, Unfinished, Inline, At
<1>5. ASSUME NEW c \in Callers, InlineBegin(c) PROVE Goal
  <2>1. inChild /\ pc[c] = "submit" /\ arg[c] \in Keys /\ NewFuture(arg[c], "running")
    BY <1>5, Zenon DEF InlineBegin, At, TypeInv, TypeOK
  <2>2. ~Inline(w)
    BY <2>1, Zenon DEF Inline, At, OrderInv, ChildInv
  <2> QED BY <1>2, <2>1, <2>2, Zenon DEF Open, Unfinished
<1>6. ASSUME NEW c \in Callers, NEW ok \in BOOLEAN, InlineEnd(c, ok) PROVE Goal
  <2>1. /\ inChild /\ pc[c] = "inline" /\ future[c] \in Writes
        /\ keyOf' = keyOf
        /\ state'[future[c]] \in {"ok", "failed"}
        /\ w # future[c] => state'[w] = state[w]
    BY <1>6, Zenon DEF InlineEnd, Result, At, OrderInv, InlineInv, TypeInv, TypeOK, Holding, HoldingAt
  <2>2. Inline(w) => w = future[c]
    BY <2>1, Zenon DEF Inline, At, OrderInv, ChildInv
  <2>3. ~Unfinished(w)'
    BY <2>1, <2>2, ChildIdle, Zenon DEF Unfinished
  <2> QED BY <2>1, <2>3, Zenon DEF Open
<1>7. ASSUME NEW c \in Callers, NEW mpChild \in BOOLEAN, Fork(c, mpChild) PROVE Goal
  BY <1>7, Zenon DEF Fork, Inherited, Open, Unfinished
<1>8. ASSUME NEW v \in Writes, NEW ok \in BOOLEAN, ParentWrite(v, ok) PROVE Goal
  BY <1>8, Zenon DEF ParentWrite, Open, Unfinished, Inline, At, callVars, TypeInv, TypeOK
<1>9. ASSUME Worker PROVE Goal
  <2> USE DEF Open, Unfinished, Inline, At, callVars, futVars
  <2>1. CASE WorkerGet
    <3>1. UNCHANGED <<keyOf, pc, future>>
      BY <2>1, Zenon DEF WorkerGet
    <3>2. state'[w] # state[w] => state[w] = "queued"
      <4>1. /\ queue # <<>> /\ Head(queue) \in Writes \cup {Stop}
            /\ Len(queue) \in Nat /\ Len(queue) >= 1 /\ Head(queue) = queue[1]
        <5>1. queue \in Seq(Writes \cup {Stop}) /\ queue # <<>>
          BY <2>1, Zenon DEF WorkerGet, TypeInv, TypeOK
        <5> QED BY <5>1, HeadTailProperties, LenProperties, EmptySeq
      <4>2. Head(queue) # Stop => state[Head(queue)] = "queued"
        BY <4>1 DEF OrderInv, QueueInv
      <4> QED BY <2>1, <4>1, <4>2, Zenon DEF WorkerGet, TypeInv, TypeOK
    <3> QED BY <3>1, <3>2, Zenon
  <2>2. CASE WorkerResult
    BY <2>2, Zenon DEF WorkerResult, Result, TypeInv, TypeOK
  <2>3. CASE WorkerTimeout \/ WorkerRetire \/ WorkerForget \/ WorkerForgetSize
    BY <2>3, Zenon DEF WorkerTimeout, WorkerRetire, WorkerForget, WorkerForgetSize
  <2>4. ASSUME NEW ok \in BOOLEAN, WorkerRun(ok) PROVE Goal
    BY <2>4, Zenon DEF WorkerRun
  <2> QED BY <1>9, <2>1, <2>2, <2>3, <2>4, Zenon DEF Worker
<1> HIDE DEF Goal
<1>10. ASSUME NEW c \in Callers, Continue(c) PROVE Goal
  BY <1>1, <1>3, <1>4, <1>5, <1>6, <1>7, <1>10, Zenon DEF Continue, QuietStep
<1>11. Goal
  BY <1>1, <1>8, <1>9, <1>10, Zenon DEF Next, QuietStep
<1> QED BY <1>11, Zenon DEF Goal

\* A delete inside drain only goes on once its wait is over.
LEMMA OnlyDrainEnd ==
    ASSUME NEW c \in Callers, CallerStep(c), pc[c] = "drain"
    PROVE  DrainEnd(c)
BY Zenon DEF CallerStep, QuietStep, SetBegin, WaitBegin, DrainBegin, ClearBegin, ShutdownBegin,
    ForkBegin,
       WaitAllBegin, MakeRoom, RoomSettled, SubmitPrevious, SubmitRefused, RegisterForget,
           SizeCheck,
       SizeAdd, SizeCallback, WaitEnd, Read, Remove, WaitAllEnd, Clear, StopPool, Join,
       SubmitEnqueue, SubmitStartFails, PutSentinel, InlineBegin, InlineEnd, At

\* A step keeps what a caller relies on: no write of the past is reopened, and
\* a delete waits for its write until it is done.
Kept ==
    \A w \in Writes : w <= last =>
        /\ keyOf'[w] = keyOf[w]
        /\ Open(w)' => Open(w)
        /\ Open(w)' /\ Draining(w) => Draining(w)'

\* Every step keeps open writes' delete waiting.
LEMMA KeptStep ==
    ASSUME TypeInv, OrderInv, Next
    PROVE  Kept
<1> SUFFICES ASSUME NEW w \in Writes, w <= last, Open(w)', Draining(w)
             PROVE  Draining(w)'
  BY OpenKept, Zenon DEF Kept
<1>1. keyOf'[w] = keyOf[w] /\ Open(w)
  BY OpenKept, Zenon
<1>2. PICK d \in Callers : pc[d] = "drain" /\ arg[d] = keyOf[w] /\ future[d] >= w
  BY Zenon DEF Draining, At
<1>3. ASSUME Same(d) PROVE Draining(w)'
  BY <1>1, <1>2, <1>3, Zenon DEF Same, Draining, At
<1>4. ASSUME NEW c \in Callers, CallerStep(c) PROVE Draining(w)'
  <2>1. CASE c # d
    BY <1>3, <1>4, <2>1, CallerAlone, Zenon
  <2>2. CASE c = d
    <3>1. DrainEnd(d)
      BY <1>2, <1>4, <2>2, OnlyDrainEnd, Zenon
    <3>2. future[d] \in Writes /\ Done(future[d])
      BY <1>2, <3>1, ConstantsAssumption DEF DrainEnd, Settled, TypeInv, TypeOK, NoWrite, Writes
    <3>3. ~Open(w)
      BY <1>2, <3>2, DoneMeansEarlierDone, ConstantsAssumption, Zenon DEF Writes
    <3> QED BY <1>1, <3>3, Zenon
  <2> QED BY <2>1, <2>2, Zenon
<1>5. ASSUME NEW c \in Callers, NEW mpChild \in BOOLEAN, Fork(c, mpChild) PROVE FALSE
  BY <1>5, Zenon DEF Fork, Inherited, Open, Unfinished
<1>6. ASSUME NEW v \in Writes, NEW ok \in BOOLEAN, ParentWrite(v, ok) PROVE Draining(w)'
  BY <1>3, <1>6, Zenon DEF ParentWrite, callVars, Same
<1>7. ASSUME Worker PROVE Draining(w)'
  BY <1>3, <1>7, Zenon DEF Worker, WorkerGet, WorkerTimeout, WorkerRetire, WorkerRun, WorkerResult,
                    WorkerForget, WorkerForgetSize, callVars, Same
<1>8. ASSUME NEW c \in Callers, Continue(c) PROVE Draining(w)'
  BY <1>4, <1>5, <1>8, Zenon DEF Continue, CallerStep, QuietStep
<1> QED BY <1>4, <1>6, <1>7, <1>8, Zenon DEF Next, CallerStep, QuietStep

\* A caller that does not move keeps its invariant.
LEMMA CallKept ==
    ASSUME TypeInv, MarkInv, Kept, NEW c \in Callers, CallInv(c), Same(c)
    PROVE  CallInv(c)'
<1>1. mark[c] <= last /\ \A w \in Writes : w <= mark[c] => w <= last
  BY ConstantsAssumption DEF MarkInv, TypeInv, TypeOK, Writes
<1>2. \A w \in Writes : w <= mark[c] /\ Open(w)' =>
         keyOf'[w] = keyOf[w] /\ Open(w) /\ (Draining(w) => Draining(w)')
  BY <1>1, Zenon DEF Kept
<1> QED BY <1>2, Zenon DEF CallInv, SettledBut, Before, Same

\* A caller's mark is a write handed out before its operation began.
LEMMA MarkStep ==
    ASSUME TypeInv, OrderInv, MarkInv, Next
    PROVE  MarkInv'
<1> USE DEF TypeInv, TypeOK
<1>1. last' \in {last, last + 1} /\ last \in Nat
  <2>1. ASSUME NEW c \in Callers, QuietStep(c) PROVE last' = last
    BY <2>1, QuietSteps, Zenon DEF orderVars
  <2>2. ASSUME NEW c \in Callers, NEW mpChild \in BOOLEAN, NEW ok \in BOOLEAN,
               \/ SubmitEnqueue(c) \/ SubmitStartFails(c) \/ PutSentinel(c)
               \/ InlineBegin(c) \/ InlineEnd(c, ok) \/ Fork(c, mpChild)
        PROVE  last' \in {last, last + 1}
    BY <2>2, Zenon DEF SubmitEnqueue, SubmitStartFails, PutSentinel, InlineBegin, InlineEnd, Fork,
                       NewFuture, futVars
  <2>3. ASSUME NEW v \in Writes, NEW ok \in BOOLEAN, ParentWrite(v, ok) \/ Worker PROVE last' = last
    BY <2>3, Zenon DEF ParentWrite, Worker, WorkerGet, WorkerTimeout, WorkerRetire, WorkerRun,
        WorkerResult,
                WorkerForget, WorkerForgetSize, futVars
  <2>4. ASSUME Worker PROVE last' = last
    BY <2>4, Zenon DEF Worker, WorkerGet, WorkerTimeout, WorkerRetire, WorkerRun, WorkerResult,
                WorkerForget, WorkerForgetSize, futVars
  <2>5. ASSUME NEW c \in Callers, Continue(c) PROVE last' \in {last, last + 1}
    BY <2>1, <2>2, <2>5, Zenon DEF Continue, QuietStep
  <2> QED BY <2>1, <2>3, <2>4, <2>5, ConstantsAssumption DEF Next, QuietStep
<1>2. ASSUME NEW d \in Callers PROVE mark'[d] \in {mark[d], last, 0}
  <2>1. ASSUME NEW c \in Callers, CallerStep(c) PROVE mark'[d] \in {mark[d], last, 0}
    <3>1. CASE c # d
      BY <2>1, <3>1, CallerAlone, Zenon DEF Same
    <3>2. CASE c = d
      BY <2>1, <3>2, ZenonT(60)
      DEF CallerStep, QuietStep, SetBegin, WaitBegin, DrainBegin, ClearBegin, ShutdownBegin,
          ForkBegin,
          WaitAllBegin, MakeRoom, RoomSettled, SubmitPrevious, SubmitRefused, RegisterForget,
              SizeCheck,
          SizeAdd, SizeCallback, WaitEnd, Read, DrainEnd, Remove, WaitAllEnd, Clear, StopPool, Join,
          SubmitEnqueue, SubmitStartFails, PutSentinel, InlineBegin, InlineEnd,
          Goto, Hold, Begin, Finish
    <3> QED BY <3>1, <3>2, Zenon
  <2>2. ASSUME NEW c \in Callers, NEW mpChild \in BOOLEAN, Fork(c, mpChild) PROVE mark'[d] = 0
    BY <2>2, Zenon DEF Fork
  <2>3. ASSUME NEW v \in Writes, NEW ok \in BOOLEAN, ParentWrite(v, ok) PROVE mark'[d] = mark[d]
    BY <2>3, Zenon DEF ParentWrite, callVars
  <2>4. ASSUME Worker PROVE mark'[d] = mark[d]
    BY <2>4, Zenon DEF Worker, WorkerGet, WorkerTimeout, WorkerRetire, WorkerRun, WorkerResult,
                WorkerForget, WorkerForgetSize, callVars
  <2>5. ASSUME NEW c \in Callers, Continue(c) PROVE mark'[d] \in {mark[d], last, 0}
    BY <2>1, <2>2, <2>5, Zenon DEF Continue, CallerStep, QuietStep
  <2> QED BY <2>1, <2>3, <2>4, <2>5, Zenon DEF Next, CallerStep, QuietStep
<1>3. \A d \in Callers : mark[d] \in Int /\ mark[d] <= last
  BY ConstantsAssumption DEF MarkInv
<1> HIDE DEF TypeInv
<1>4. ASSUME NEW d \in Callers PROVE mark'[d] <= last'
  <2>1. mark'[d] \in {mark[d], last, 0} /\ mark[d] \in Int /\ mark[d] <= last
    BY <1>2, <1>3, Zenon
  <2> QED BY <1>1, <2>1
<1> QED BY <1>4, Zenon DEF MarkInv

\* _pending without a future that is done still covers every open write.
LEMMA WithoutDone ==
    ASSUME TypeInv, OrderInv, UnfinishedIsPending, NEW f \in Writes, Done(f),
           NEW w \in Writes, Open(w)
    PROVE  Without(f)[keyOf[w]] >= w \/ Draining(w)
<1>1. keyOf[w] \in Keys /\ pending[keyOf[w]] \in Writes \cup {NoWrite}
  BY Zenon DEF TypeInv, TypeOK
<1>2. pending[keyOf[w]] >= w \/ Draining(w)
  BY Zenon DEF UnfinishedIsPending, Open
<1>3. CASE pending[keyOf[w]] = f /\ ~Draining(w)
  BY <1>2, <1>3, DoneMeansEarlierDone, ConstantsAssumption, Zenon DEF Writes
<1>4. CASE pending[keyOf[w]] # f
  BY <1>1, <1>2, <1>4, Zenon DEF Without
<1> QED BY <1>3, <1>4, Zenon

\* A step that leaves _pending alone, or takes out a future that is done, and
\* submits nothing, keeps the open writes pending.
LEMMA PendingKept ==
    ASSUME TypeInv, OrderInv, UnfinishedIsPending, Kept,
           \A w \in Writes : Open(w)' => w <= last,
           \/ UNCHANGED pending
           \/ \E f \in Writes : Done(f) /\ pending' = Without(f)
    PROVE  UnfinishedIsPending'
<1> SUFFICES ASSUME NEW w \in Writes, Open(w)'
             PROVE  pending'[keyOf'[w]] >= w \/ Draining(w)'
  BY Zenon DEF UnfinishedIsPending, Open
<1>1. Open(w) /\ keyOf'[w] = keyOf[w] /\ (Draining(w) => Draining(w)')
  BY Zenon DEF Kept
<1>2. CASE UNCHANGED pending
  BY <1>1, <1>2, Zenon DEF UnfinishedIsPending, Open
<1>3. ASSUME NEW f \in Writes, Done(f), pending' = Without(f)
      PROVE  pending'[keyOf'[w]] >= w \/ Draining(w)'
  BY <1>1, <1>3, WithoutDone, Zenon
<1> QED BY <1>2, <1>3, Zenon

\* Forgetting no write leaves _pending alone.
LEMMA WithoutNone == TypeInv => Without(NoWrite) = pending
BY Zenon DEF Without, TypeInv, TypeOK

\* _pending covers every unfinished write after each step, unless a delete
\* is waiting for it.
LEMMA PendingStep ==
    ASSUME ~ThreadStartMayFail, TypeInv, OrderInv, OrderInv', UnfinishedIsPending, Kept, Next
    PROVE  UnfinishedIsPending'
<1>1. \A w \in Writes : Open(w)' => w <= last'
  <2>1. last' \in Int
    BY ConstantsAssumption, TypeStep DEF TypeInv, TypeOK
  <2> QED BY <2>1, ConstantsAssumption DEF OrderInv, Born, Open, Unfinished, Writes
<1>2. ASSUME last' = last,
             \/ UNCHANGED pending
             \/ \E f \in Writes : Done(f) /\ pending' = Without(f)
      PROVE  UnfinishedIsPending'
  BY <1>1, <1>2, PendingKept, Zenon
<1>3. ASSUME NEW c \in Callers, QuietStep(c), ~ \E k \in Keys : DrainBegin(c, k)
      PROVE  UnfinishedIsPending'
  <2>1. last' = last
    BY <1>3, QuietSteps, Zenon DEF orderVars
  <2>2. CASE RegisterForget(c)
    <3>1. future[c] \in Writes
      BY <2>2, Zenon DEF RegisterForget, At, TypeInv, Holding, HoldingAt
    <3>2. \/ UNCHANGED pending
          \/ Done(future[c]) /\ pending' = Without(future[c])
      <4>1. CASE Settled(c)
        BY <2>2, <4>1, Zenon DEF RegisterForget, ForgetIfSucceeded, Done
      <4>2. CASE ~Settled(c)
        BY <2>2, <4>2, Zenon DEF RegisterForget
      <4> QED BY <4>1, <4>2, Zenon
    <3> QED BY <1>2, <2>1, <3>1, <3>2, Zenon
  <2>3. CASE WaitEnd(c)
    <3>1. future[c] \in Writes
      BY <2>3, Zenon DEF WaitEnd, At, TypeInv, Holding, HoldingAt
    <3>2. \/ UNCHANGED pending
          \/ Done(future[c]) /\ pending' = Without(future[c])
      BY <2>3, Zenon DEF WaitEnd, Done
    <3> QED BY <1>2, <2>1, <3>1, <3>2, Zenon
  <2>4. CASE ~RegisterForget(c) /\ ~WaitEnd(c)
    <3>1. UNCHANGED pending
      BY <1>3, <2>4, Zenon
      DEF QuietStep, SetBegin, WaitBegin, ClearBegin, ShutdownBegin, ForkBegin, WaitAllBegin,
          MakeRoom,
          RoomSettled, SubmitPrevious, SubmitRefused, SizeCheck, SizeAdd, SizeCallback, Read,
              DrainEnd,
          Remove, WaitAllEnd, Clear, StopPool, Join
    <3> QED BY <1>2, <2>1, <3>1, Zenon
  <2> QED BY <2>2, <2>3, <2>4, Zenon
<1>4. ASSUME NEW c \in Callers, NEW k \in Keys, DrainBegin(c, k) PROVE UnfinishedIsPending'
  <2> SUFFICES ASSUME NEW w \in Writes, Open(w)'
               PROVE  pending'[keyOf'[w]] >= w \/ Draining(w)'
    BY Zenon DEF UnfinishedIsPending, Open
  <2>1. /\ last' = last /\ keyOf' = keyOf
        /\ pc'[c] = "drain" /\ arg'[c] = k /\ future'[c] = pending[k]
        /\ \A q \in Keys : q # k => pending'[q] = pending[q]
    BY <1>4, Zenon DEF DrainBegin, Begin, futVars, TypeInv, TypeOK
  <2>2. Open(w) /\ keyOf[w] \in Keys /\ (Draining(w) => Draining(w)')
    BY <1>1, <2>1, Zenon DEF Kept, TypeInv, TypeOK
  <2>3. pending[keyOf[w]] >= w \/ Draining(w)
    BY <2>2, Zenon DEF UnfinishedIsPending, Open
  <2>4. CASE keyOf[w] = k /\ pending[k] >= w
    BY <2>1, <2>4, Zenon DEF Draining, At
  <2>5. CASE keyOf[w] # k /\ pending[keyOf[w]] >= w
    BY <2>1, <2>2, <2>5, Zenon
  <2> QED BY <2>2, <2>3, <2>4, <2>5, Zenon
<1>5. ASSUME NEW c \in Callers, SubmitEnqueue(c) PROVE UnfinishedIsPending'
  <2> SUFFICES ASSUME NEW w \in Writes, Open(w)'
               PROVE  pending'[keyOf'[w]] >= w \/ Draining(w)'
    BY Zenon DEF UnfinishedIsPending, Open
  <2>1. /\ last' = last + 1 /\ last \in Nat /\ last + 1 \in Writes /\ arg[c] \in Keys
        /\ keyOf' = [keyOf EXCEPT ![last + 1] = arg[c]]
        /\ pending' = [pending EXCEPT ![arg[c]] = last + 1]
    BY <1>5, ConstantsAssumption DEF SubmitEnqueue, NewFuture, TypeInv, TypeOK, Writes
  <2>2. w <= last + 1 /\ w \in Nat
    BY <1>1, <2>1, ConstantsAssumption DEF Writes
  <2>3. CASE w = last + 1
    BY <2>1, <2>3 DEF TypeInv, TypeOK
  <2>4. CASE w <= last
    <3>1. Open(w) /\ keyOf'[w] = keyOf[w] /\ keyOf[w] \in Keys /\ (Draining(w) => Draining(w)')
      BY <2>4, Zenon DEF Kept, TypeInv, TypeOK
    <3>2. pending[keyOf[w]] >= w \/ Draining(w)
      BY <3>1, Zenon DEF UnfinishedIsPending, Open
    <3> QED BY <2>1, <2>2, <3>1, <3>2, Zenon DEF TypeInv, TypeOK
  <2> QED BY <2>1, <2>2, <2>3, <2>4
<1>6. ASSUME NEW c \in Callers, SubmitStartFails(c) PROVE FALSE
  BY <1>6, Zenon DEF SubmitStartFails
<1>7. ASSUME NEW c \in Callers, PutSentinel(c) PROVE UnfinishedIsPending'
  BY <1>2, <1>7, Zenon DEF PutSentinel, futVars
<1>8. ASSUME NEW c \in Callers, InlineBegin(c) PROVE UnfinishedIsPending'
  <2>1. /\ UNCHANGED pending /\ last' = last + 1 /\ last \in Nat
        /\ pc'[c] = "inline" /\ future'[c] = last + 1
    BY <1>8 DEF InlineBegin, NewFuture, Hold, TypeInv, TypeOK
  <2>2. \A w \in Writes : w = last + 1 => ~Open(w)'
    BY <2>1, Zenon DEF Open, Inline, At
  <2>3. \A w \in Writes : Open(w)' => w <= last
    BY <1>1, <2>1, <2>2, ConstantsAssumption DEF Writes
  <2> QED BY <2>1, <2>3, PendingKept, Zenon
<1>9. ASSUME NEW c \in Callers, NEW ok \in BOOLEAN, InlineEnd(c, ok) PROVE UnfinishedIsPending'
  <2>1. last' = last /\ inChild
    BY <1>9, Zenon DEF InlineEnd, At, OrderInv, InlineInv
  <2>2. \A w \in Writes : ~Open(w)
    BY <2>1, ChildIdle, Zenon DEF Open, Unfinished
  <2>3. \A w \in Writes : ~Open(w)'
    BY <1>1, <2>1, <2>2, Zenon DEF Kept
  <2> QED BY <2>3, Zenon DEF UnfinishedIsPending, Open
<1>10. ASSUME NEW c \in Callers, NEW mpChild \in BOOLEAN, Fork(c, mpChild)
      PROVE UnfinishedIsPending'
  <2>1. \A w \in Writes : ~Unfinished(w)'
    BY <1>10, Zenon DEF Fork, Inherited, Unfinished
  <2> QED BY <2>1, Zenon DEF UnfinishedIsPending
<1>11. ASSUME NEW v \in Writes, NEW ok \in BOOLEAN, ParentWrite(v, ok) PROVE UnfinishedIsPending'
  BY <1>2, <1>11, Zenon DEF ParentWrite
<1>12. ASSUME Worker PROVE UnfinishedIsPending'
  <2>1. CASE WorkerForget
    <3>1. last' = last /\ current \in Writes \cup {NoWrite}
      BY <2>1, Zenon DEF WorkerForget, futVars, TypeInv, TypeOK
    <3>2. UNCHANGED pending \/ (Done(current) /\ pending' = Without(current))
      BY <2>1, Zenon DEF WorkerForget, ForgetIfSucceeded, Done
    <3> QED BY <1>2, <3>1, <3>2, WithoutNone, Zenon
  <2>2. CASE ~WorkerForget
    BY <1>2, <1>12, <2>2, Zenon DEF Worker, WorkerGet, WorkerTimeout, WorkerRetire, WorkerRun,
        WorkerResult,
                             WorkerForgetSize, futVars
  <2> QED BY <2>1, <2>2, Zenon
<1>13. ASSUME NEW c \in Callers, Continue(c) PROVE UnfinishedIsPending'
  BY <1>3, <1>4, <1>5, <1>6, <1>7, <1>8, <1>9, <1>10, <1>13, Zenon DEF Continue, QuietStep
<1> QED BY <1>3, <1>4, <1>11, <1>12, <1>13, Zenon DEF Next, QuietStep

\* Where a caller relies on earlier writes.
RelyingAt == {"wait", "drain", "read", "remove", "waitAll", "clear"}

\* The caller that takes a step relies on what its step established.
LEMMA CallStep ==
    ASSUME TypeInv, OrderInv, UnfinishedIsPending, MarkInv, Kept,
           NEW c \in Callers, CallerStep(c), CallInv(c)
    PROVE  CallInv(c)'
<1>0. \A w \in Writes : Open(w) => w <= last /\ (pending[keyOf[w]] >= w \/ Draining(w))
  <2>1. last \in Int
    BY ConstantsAssumption DEF TypeInv, TypeOK
  <2> QED BY <2>1, ConstantsAssumption
          DEF OrderInv, Born, Open, Unfinished, UnfinishedIsPending, Writes
<1>1. \A w \in Writes : w <= last =>
         /\ keyOf'[w] = keyOf[w]
         /\ Open(w)' => Open(w)
         /\ Open(w)' /\ Draining(w) => Draining(w)'
  BY Zenon DEF Kept
<1>2. mark[c] <= last /\ \A w \in Writes : w <= mark[c] => w <= last
  BY ConstantsAssumption DEF MarkInv, TypeInv, TypeOK, Writes
<1>3. ASSUME pc'[c] \notin RelyingAt PROVE CallInv(c)'
  BY <1>3, Zenon DEF CallInv, RelyingAt
<1>4. ASSUME NEW k \in Keys, WaitBegin(c, k) PROVE CallInv(c)'
  <2>1. /\ pc'[c] = IF pending[k] = NoWrite THEN "read" ELSE "wait"
        /\ arg'[c] = k /\ future'[c] = pending[k] /\ mark'[c] = last
        /\ pending[k] \in Writes \cup {NoWrite}
    BY <1>4, Zenon DEF WaitBegin, Begin, TypeInv, TypeOK
  <2>2. ASSUME NEW w \in Writes, w <= last, keyOf'[w] = k, w > pending[k], Open(w)'
        PROVE Draining(w)'
    <3>1. Open(w) /\ keyOf[w] = k /\ (Draining(w) => Draining(w)')
      BY <1>1, <2>2, Zenon
    <3>2. pending[k] >= w \/ Draining(w)
      BY <1>0, <3>1, Zenon
    <3>3. pending[k] \in Int /\ w \in Int
      BY <2>1, ConstantsAssumption DEF Writes, NoWrite
    <3>4. ~ (pending[k] >= w)
      BY <2>2, <3>3
    <3> QED BY <3>1, <3>2, <3>4, Zenon
  <2>3. \A w \in Writes : w > NoWrite
    BY ConstantsAssumption DEF Writes, NoWrite
  <2> QED BY <2>1, <2>2, <2>3, Zenon DEF CallInv, SettledBut, Before
<1>5. ASSUME WaitEnd(c) PROVE CallInv(c)'
  <2>1. /\ pc[c] = "wait" /\ pc'[c] = "read" /\ arg'[c] = arg[c] /\ mark'[c] = mark[c]
        /\ future[c] \in Writes /\ Done(future[c])
    BY <1>5, ConstantsAssumption
    DEF WaitEnd, Goto, At, Settled, TypeInv, TypeOK, Holding, HoldingAt, Writes, NoWrite
  <2>2. ASSUME NEW w \in Writes, w <= mark[c], keyOf[w] = arg[c], Open(w) PROVE Draining(w)
    <3>1. w > future[c]
      <4>1. w \in Int /\ future[c] \in Int
        BY <2>1, ConstantsAssumption DEF Writes
      <4>2. ~ (w <= future[c])
        BY <2>1, <2>2, DoneMeansEarlierDone, Zenon
      <4> QED BY <4>1, <4>2
    <3>2. w \in {v \in Before(c) : v > future[c]}
      BY <2>2, <3>1, Zenon DEF Before
    <3>3. SettledBut({v \in Before(c) : v > future[c]})
      BY <2>1, Zenon DEF CallInv
    <3> QED BY <2>2, <3>2, <3>3, Zenon DEF SettledBut
  <2> QED BY <1>1, <1>2, <2>1, <2>2, Zenon DEF CallInv, SettledBut, Before
<1>6. ASSUME NEW k \in Keys, DrainBegin(c, k) PROVE CallInv(c)'
  <2>1. /\ pc'[c] = "drain" /\ arg'[c] = k /\ future'[c] = pending[k] /\ mark'[c] = last
    BY <1>6, Zenon DEF DrainBegin, Begin, TypeInv, TypeOK
  <2>2. ASSUME NEW w \in Writes, w <= last, keyOf'[w] = k, Open(w)' PROVE Draining(w)'
    <3>1. CASE pending[k] >= w
      BY <2>1, <2>2, <3>1, Zenon DEF Draining, At
    <3>2. CASE ~ (pending[k] >= w)
      BY <1>0, <1>1, <2>2, <3>2, Zenon
    <3> QED BY <3>1, <3>2, Zenon
  <2> QED BY <2>1, <2>2, Zenon DEF CallInv, SettledBut, Before
<1>7. ASSUME DrainEnd(c) PROVE CallInv(c)'
  <2>1. pc[c] = "drain" /\ pc'[c] = "remove" /\ arg'[c] = arg[c] /\ mark'[c] = mark[c]
    BY <1>7, Zenon DEF DrainEnd, Goto, At, TypeInv, TypeOK
  <2> QED BY <1>1, <1>2, <2>1, Zenon DEF CallInv, SettledBut, Before
<1>8. ASSUME ClearBegin(c) PROVE CallInv(c)'
  <2>1. pc'[c] = "waitAll" /\ mark'[c] = last /\ snapshot'[c] = PendingFutures
    BY <1>8, Zenon DEF ClearBegin, WaitAllBegin, TypeInv, TypeOK
  <2>2. ASSUME NEW w \in Writes, w <= last, \A f \in PendingFutures : f < w, Open(w)'
        PROVE  Draining(w)'
    <3>1. Open(w) /\ (Draining(w) => Draining(w)')
      BY <1>1, <2>2, Zenon
    <3>2. pending[keyOf[w]] \in Writes \cup {NoWrite} /\ keyOf[w] \in Keys
      BY Zenon DEF TypeInv, TypeOK
    <3>3. ~ (pending[keyOf[w]] >= w)
      <4>1. CASE pending[keyOf[w]] = NoWrite
        BY <4>1, ConstantsAssumption DEF Writes, NoWrite
      <4>2. CASE pending[keyOf[w]] # NoWrite
        <5>1. pending[keyOf[w]] \in PendingFutures
          BY <3>2, <4>2, Zenon DEF PendingFutures
        <5> QED BY <2>2, <3>2, <4>2, <5>1, ConstantsAssumption DEF Writes
      <4> QED BY <4>1, <4>2, Zenon
    <3> QED BY <1>0, <3>1, <3>3, Zenon
  <2> QED BY <2>1, <2>2, Zenon DEF CallInv, SettledBut
<1>9. ASSUME WaitAllEnd(c) PROVE CallInv(c)'
  <2>1. /\ pc[c] = "waitAll" /\ pc'[c] = "clear" /\ mark'[c] = mark[c]
        /\ \A f \in snapshot[c] : f \in Writes /\ Done(f)
    BY <1>9, Zenon DEF WaitAllEnd, AllSettled, Goto, At, TypeInv, TypeOK
  <2>2. ASSUME NEW w \in Writes, w <= mark[c], Open(w) PROVE Draining(w)
    <3>1. \A f \in snapshot[c] : f < w
      BY <2>1, <2>2, DoneMeansEarlierDone, ConstantsAssumption, SMTT(30) DEF Writes
    <3>2. SettledBut({v \in Writes : v <= mark[c] /\ \A f \in snapshot[c] : f < v})
      BY <2>1, Zenon DEF CallInv
    <3> QED BY <2>2, <3>1, <3>2, Zenon DEF SettledBut
  <2> QED BY <1>1, <1>2, <2>1, <2>2, Zenon DEF CallInv, SettledBut
<1>10. ASSUME ~ \E k \in Keys : WaitBegin(c, k) \/ DrainBegin(c, k),
              ~WaitEnd(c), ~DrainEnd(c), ~ClearBegin(c), ~WaitAllEnd(c)
       PROVE  pc'[c] \notin RelyingAt
  BY <1>10, ZenonT(60)
  DEF CallerStep, QuietStep, SetBegin, ShutdownBegin, ForkBegin, WaitAllBegin, MakeRoom,
      RoomSettled,
      SubmitPrevious, SubmitRefused, RegisterForget, SizeCheck, SizeAdd, SizeCallback, Read, Remove,
      Clear, StopPool, Join, SubmitEnqueue, SubmitStartFails, PutSentinel, InlineBegin, InlineEnd,
      Goto, Hold, Begin, Finish, RelyingAt, TypeInv, TypeOK
<1> QED BY <1>3, <1>4, <1>5, <1>6, <1>7, <1>8, <1>9, <1>10, Zenon

\* Every step keeps SettleInv while writer threads can be started.
LEMMA SettleStep ==
    ASSUME ~ThreadStartMayFail
    PROVE  TypeInv /\ OrderInv /\ OrderInv' /\ SettleInv /\ [Next]_vars => SettleInv'
<1> SUFFICES ASSUME TypeInv, OrderInv, OrderInv', SettleInv, [Next]_vars PROVE SettleInv'
  OBVIOUS
<1>1. CASE UNCHANGED vars
  <2>1. UNCHANGED <<pending, last, state, keyOf, callVars>>
    BY <1>1, Zenon DEF vars, futVars
  <2>2. \A w \in Writes : (Open(w)' <=> Open(w)) /\ (Draining(w)' <=> Draining(w))
    BY <2>1, Zenon DEF Open, Unfinished, Inline, Draining, At, callVars
  <2>3. MarkInv' /\ UnfinishedIsPending'
    BY <2>1, <2>2, Zenon DEF SettleInv, MarkInv, UnfinishedIsPending, Open, callVars
  <2>4. ASSUME NEW c \in Callers PROVE CallInv(c)'
    BY <2>1, <2>2, Zenon DEF SettleInv, CallInv, SettledBut, Before, callVars
  <2> QED BY <2>3, <2>4, Zenon DEF SettleInv
<1>2. CASE Next
  <2>1. Kept /\ MarkInv' /\ UnfinishedIsPending'
    BY <1>2, KeptStep, MarkStep, PendingStep, Zenon DEF SettleInv
  <2>2. ASSUME NEW d \in Callers PROVE CallInv(d)'
    <3>1. ASSUME Same(d) PROVE CallInv(d)'
      BY <2>1, <3>1, CallKept, Zenon DEF SettleInv
    <3>2. ASSUME NEW c \in Callers, CallerStep(c) PROVE CallInv(d)'
      BY <2>1, <3>1, <3>2, CallerAlone, CallStep, Zenon DEF SettleInv
    <3>3. ASSUME NEW c \in Callers, NEW mpChild \in BOOLEAN, Fork(c, mpChild) PROVE CallInv(d)'
      BY <3>3, Zenon DEF Fork, CallInv
    <3>4. ASSUME NEW v \in Writes, NEW ok \in BOOLEAN, ParentWrite(v, ok) PROVE CallInv(d)'
      BY <3>1, <3>4, Zenon DEF ParentWrite, callVars, Same
    <3>5. ASSUME Worker PROVE CallInv(d)'
      <4>1. UNCHANGED callVars
        BY <3>5, Zenon DEF Worker, WorkerGet, WorkerTimeout, WorkerRetire, WorkerRun, WorkerResult,
                    WorkerForget, WorkerForgetSize
      <4> QED BY <3>1, <4>1, Zenon DEF callVars, Same
    <3>6. ASSUME NEW c \in Callers, Continue(c) PROVE CallInv(d)'
      BY <3>2, <3>3, <3>6, Zenon DEF Continue, CallerStep, QuietStep
    <3> QED BY <1>2, <3>2, <3>4, <3>5, <3>6, Zenon DEF Next, CallerStep, QuietStep
  <2> QED BY <2>1, <2>2, Zenon DEF SettleInv
<1> QED BY <1>1, <1>2, Zenon

\* While writer threads can be started, _pending covers every write that may
\* still land, and no get, delete or clear overtakes a write submitted before
\* it, except past another delete that is still waiting for that write.
THEOREM NothingOvertakesAWrite ==
    ASSUME ~ThreadStartMayFail
    PROVE  Spec => [](UnfinishedIsPending /\ ReadSeesWrites /\ NoWriteAfterDelete /\ NoWriteAfterClear)
<1>1. TypeInv /\ OrderInv /\ OrderInv' /\ SettleInv /\ [Next]_vars => SettleInv'
  BY SettleStep, Zenon
<1> QED BY <1>1, InitType, TypeStep, OrderInit, OrderStep, SettleInit, SettleImplies, PTL DEF Spec

\* _pending never loses sight of an unfinished write (submit, _forget_if_succeeded):
\* it has the write or a later one of the key, or a delete is waiting for it.
THEOREM PendingCoversWrites ==
    ASSUME ~ThreadStartMayFail
    PROVE  Spec => []UnfinishedIsPending
BY NothingOvertakesAWrite, PTL

\* A delete (drain) removes the entry when no earlier write of the key is left
\* to land, but one that another delete of the key waits for.
THEOREM DeletesComeAfterWrites ==
    ASSUME ~ThreadStartMayFail
    PROVE  Spec => []NoWriteAfterDelete
BY NothingOvertakesAWrite, PTL

\* A clear (wait_all) removes the entries when no earlier write is left to land,
\* but one that a delete of its key waits for.
THEOREM ClearsComeAfterWrites ==
    ASSUME ~ThreadStartMayFail
    PROVE  Spec => []NoWriteAfterClear
BY NothingOvertakesAWrite, PTL

-----------------------------------------------------------------------------
(* A failed write stays visible.                                           *)

\* The future of a failed write leaves _pending only for a later write, for a
\* get that reports it, for a delete, or in a child.  _forget_if_succeeded
\* does not take it, whichever thread runs the callback and however late.
THEOREM FailuresStay == Spec => FailureKept
<1>1. TypeInv /\ OrderInv /\ [Next]_vars =>
        [\A k \in Keys :
           LET w == pending[k] IN
           (w # NoWrite /\ state[w] = "failed" /\ pending'[k] # w) =>
              \/ pending'[k] > w
              \/ \E c \in Callers : At(c, "wait") /\ future[c] = w /\ pc'[c] = "read"
              \/ \E c \in Callers : At(c, "idle") /\ pc'[c] = "drain" /\ arg'[c] = k
              \/ \E c \in Callers : At(c, "fork") /\ pc'[c] = "idle"]_pending
  <2> SUFFICES ASSUME TypeInv, OrderInv, Next, NEW k \in Keys, NEW w, w = pending[k],
                      w # NoWrite, state[w] = "failed", pending'[k] # w
               PROVE  \/ pending'[k] > w
                      \/ \E c \in Callers : At(c, "wait") /\ future[c] = w /\ pc'[c] = "read"
                      \/ \E c \in Callers : At(c, "idle") /\ pc'[c] = "drain" /\ arg'[c] = k
                      \/ \E c \in Callers : At(c, "fork") /\ pc'[c] = "idle"
    BY Zenon DEF vars
  <2> DEFINE Goal == \/ pending'[k] > w
                     \/ \E c \in Callers : At(c, "wait") /\ future[c] = w /\ pc'[c] = "read"
                     \/ \E c \in Callers : At(c, "idle") /\ pc'[c] = "drain" /\ arg'[c] = k
                     \/ \E c \in Callers : At(c, "fork") /\ pc'[c] = "idle"
  <2>1. w \in Writes /\ last \in 0 .. MaxWrites /\ ~ (w > last)
    BY Zenon DEF TypeInv, TypeOK, OrderInv, Born
  <2>2. w \in Int /\ last \in Int /\ w <= last
    BY <2>1, ConstantsAssumption DEF Writes
  <2>3. ASSUME NEW v, ForgetIfSucceeded(v) PROVE FALSE
    BY <2>3, Zenon DEF ForgetIfSucceeded, Without, TypeInv, TypeOK
  <2>4. ASSUME NEW c \in Callers, SubmitEnqueue(c) PROVE Goal
    <3>1. pending'[k] = last + 1
      BY <2>4, Zenon DEF SubmitEnqueue, TypeInv, TypeOK
    <3> QED BY <2>2, <3>1
  <2>5. ASSUME NEW c \in Callers, NEW ok \in BOOLEAN, InlineEnd(c, ok) PROVE Goal
    <3>1. pending'[k] = last /\ state[last] = "running"
      BY <2>5, Zenon DEF InlineEnd, At, TypeInv, TypeOK, OrderInv, InlineInv
    <3> QED BY <2>2, <3>1
  <2>6. ASSUME NEW c \in Callers, WaitEnd(c) PROVE Goal
    <3>1. At(c, "wait") /\ future[c] = w /\ pc'[c] = "read"
      BY <2>6, Zenon DEF WaitEnd, Without, Goto, TypeInv, TypeOK
    <3> QED BY <3>1, Zenon
  <2>7. ASSUME NEW c \in Callers, NEW j \in Keys, DrainBegin(c, j) PROVE Goal
    <3>1. At(c, "idle") /\ pc'[c] = "drain" /\ arg'[c] = k
      BY <2>7, Zenon DEF DrainBegin, Begin, TypeInv, TypeOK
    <3> QED BY <3>1, Zenon
  <2>8. ASSUME NEW c \in Callers, NEW mpChild \in BOOLEAN, Fork(c, mpChild) PROVE Goal
    BY <2>8, Zenon DEF Fork
  <2>9. ASSUME NEW c \in Callers, RegisterForget(c) PROVE FALSE
    BY <2>3, <2>9, Zenon DEF RegisterForget
  <2>10. ASSUME Worker PROVE FALSE
    BY <2>3, <2>10, Zenon DEF Worker, WorkerGet, WorkerTimeout, WorkerRetire, WorkerRun, WorkerResult,
                              WorkerForget, WorkerForgetSize
  <2>11. ASSUME NEW c \in Callers, NEW j \in Keys,
                \/ SetBegin(c, j) \/ WaitBegin(c, j) \/ ClearBegin(c) \/ ShutdownBegin(c) \/ ForkBegin(c)
                \/ MakeRoom(c) \/ RoomSettled(c) \/ SubmitPrevious(c) \/ SubmitRefused(c)
                \/ SizeCheck(c) \/ SizeAdd(c) \/ SizeCallback(c)
                \/ Read(c) \/ DrainEnd(c) \/ Remove(c) \/ WaitAllEnd(c) \/ Clear(c)
                \/ StopPool(c) \/ Join(c) \/ PutSentinel(c) \/ SubmitStartFails(c) \/ InlineBegin(c)
         PROVE  FALSE
    BY <2>11, Zenon DEF SetBegin, WaitBegin, ClearBegin, ShutdownBegin, ForkBegin, WaitAllBegin,
       MakeRoom, RoomSettled, SubmitPrevious, SubmitRefused, SizeCheck, SizeAdd, SizeCallback,
       Read, DrainEnd, Remove, WaitAllEnd, Clear, StopPool, Join, PutSentinel, SubmitStartFails,
       InlineBegin
  <2>12. ASSUME NEW v \in Writes, NEW ok \in BOOLEAN, ParentWrite(v, ok) PROVE FALSE
    BY <2>12, Zenon DEF ParentWrite
  <2> HIDE DEF Goal
  <2>13. ASSUME NEW c \in Callers, Continue(c) PROVE Goal
    BY <2>4, <2>5, <2>6, <2>8, <2>9, <2>11, <2>13, Zenon DEF Continue
  <2>14. Goal
    BY <2>7, <2>10, <2>11, <2>12, <2>13, Zenon DEF Next
  <2> QED BY <2>14, Zenon DEF Goal
<1> QED BY <1>1, InitType, TypeStep, OrderInit, OrderStep, PTL DEF Spec, FailureKept

-----------------------------------------------------------------------------
(* A process that starts another has finished its writes.                  *)

\* A caller that waits before a fork may still wait for the futures it took.
ForkInv ==
    \A c \in Callers : pc[c] = "fork" /\ ~down =>
        SettledBut({w \in Writes : w <= mark[c] /\ \A f \in snapshot[c] : f < w})

\* A caller comes to wait before a fork by ForkBegin only.
LEMMA OnlyForkBegin ==
    ASSUME TypeInv, NEW c \in Callers, CallerStep(c), pc'[c] = "fork"
    PROVE  ForkBegin(c)
BY ZenonT(60)
DEF CallerStep, QuietStep, SetBegin, WaitBegin, DrainBegin, ClearBegin, ShutdownBegin, WaitAllBegin,
    MakeRoom, RoomSettled, SubmitPrevious, SubmitRefused, RegisterForget, SizeCheck, SizeAdd,
    SizeCallback, WaitEnd, Read, DrainEnd, Remove, WaitAllEnd, Clear, StopPool, Join,
    SubmitEnqueue, SubmitStartFails, PutSentinel, InlineBegin, InlineEnd,
    Goto, Hold, Begin, Finish, TypeInv, TypeOK

\* A queue that was shut down stays so.
LEMMA DownStays == ASSUME Next, down PROVE down'
<1>1. ASSUME NEW c \in Callers, Continue(c) PROVE down'
  BY <1>1, ZenonT(60)
  DEF Continue, MakeRoom, RoomSettled, SubmitPrevious, SubmitEnqueue, SubmitStartFails, SubmitRefused,
      RegisterForget, SizeCheck, SizeAdd, SizeCallback, InlineBegin, InlineEnd, WaitEnd, Read, DrainEnd,
      Remove, WaitAllEnd, Clear, Fork, StopPool, PutSentinel, Join, procVars
<1>2. ASSUME NEW c \in Callers, NEW k \in Keys,
             \/ SetBegin(c, k) \/ WaitBegin(c, k) \/ DrainBegin(c, k)
             \/ ClearBegin(c) \/ ShutdownBegin(c) \/ ForkBegin(c)
      PROVE  down'
  BY <1>2, Zenon DEF SetBegin, WaitBegin, DrainBegin, ClearBegin, ShutdownBegin, ForkBegin,
                     WaitAllBegin, procVars
<1>3. ASSUME Worker PROVE down'
  BY <1>3, Zenon DEF Worker, WorkerGet, WorkerTimeout, WorkerRetire, WorkerRun, WorkerResult,
                     WorkerForget, WorkerForgetSize, procVars
<1>4. ASSUME NEW w \in Writes, NEW ok \in BOOLEAN, ParentWrite(w, ok) PROVE down'
  BY <1>4, Zenon DEF ParentWrite, procVars
<1>5. ASSUME NEW c \in Callers, ClearBegin(c) \/ ShutdownBegin(c) \/ ForkBegin(c) PROVE down'
  BY <1>5, Zenon DEF ClearBegin, ShutdownBegin, ForkBegin, WaitAllBegin, procVars
<1> QED BY <1>1, <1>2, <1>3, <1>4, <1>5, Zenon DEF Next

\* Every step keeps ForkInv.
LEMMA ForkInvStep ==
    TypeInv /\ OrderInv /\ SettleInv /\ ForkInv /\ [Next]_vars => ForkInv'
<1> SUFFICES ASSUME TypeInv, OrderInv, SettleInv, ForkInv, [Next]_vars,
                    NEW c \in Callers, pc'[c] = "fork", ~down'
             PROVE  SettledBut({w \in Writes : w <= mark[c] /\ \A f \in snapshot[c] : f < w})'
  BY Zenon DEF ForkInv
<1> DEFINE Goal == SettledBut({w \in Writes : w <= mark[c] /\ \A f \in snapshot[c] : f < w})'
<1>1. CASE UNCHANGED vars
  <2>1. UNCHANGED <<state, keyOf, callVars, down>>
    BY <1>1, Zenon DEF vars, futVars, procVars
  <2>2. \A w \in Writes : (Open(w)' <=> Open(w)) /\ (Draining(w)' <=> Draining(w))
    BY <2>1, Zenon DEF Open, Unfinished, Inline, Draining, At, callVars
  <2> QED BY <2>1, <2>2, Zenon DEF ForkInv, SettledBut, callVars
<1>2. CASE Next
  <2>1. Kept /\ ~down
    BY <1>2, KeptStep, DownStays, Zenon DEF SettleInv
  <2>2. ASSUME Same(c) PROVE Goal
    <3>1. mark[c] <= last /\ \A w \in Writes : w <= mark[c] => w <= last
      BY ConstantsAssumption DEF SettleInv, MarkInv, TypeInv, TypeOK, Writes
    <3>2. \A w \in Writes : w <= mark[c] /\ Open(w)' => Open(w) /\ (Draining(w) => Draining(w)')
      BY <2>1, <3>1, Zenon DEF Kept
    <3>3. SettledBut({w \in Writes : w <= mark[c] /\ \A f \in snapshot[c] : f < w})
      BY <2>1, <2>2, Zenon DEF ForkInv, Same
    <3> QED BY <2>2, <3>2, <3>3, Zenon DEF SettledBut, Same
  <2>3. ASSUME ForkBegin(c) PROVE Goal
    <3>1. snapshot'[c] = PendingFutures /\ mark'[c] = last
      BY <2>1, <2>3, Zenon DEF ForkBegin, WaitAllBegin, TypeInv, TypeOK
    <3>2. ASSUME NEW w \in Writes, w <= last, \A f \in PendingFutures : f < w, Open(w)'
          PROVE  Draining(w)'
      <4>1. Open(w) /\ (Draining(w) => Draining(w)')
        BY <2>1, <3>2, Zenon DEF Kept
      <4>2. pending[keyOf[w]] \in Writes \cup {NoWrite} /\ keyOf[w] \in Keys
        BY Zenon DEF TypeInv, TypeOK
      <4>3. ~ (pending[keyOf[w]] >= w)
        <5>1. CASE pending[keyOf[w]] = NoWrite
          BY <5>1, ConstantsAssumption DEF Writes, NoWrite
        <5>2. CASE pending[keyOf[w]] # NoWrite
          <6>1. pending[keyOf[w]] \in PendingFutures
            BY <4>2, <5>2, Zenon DEF PendingFutures
          <6> QED BY <3>2, <4>2, <5>2, <6>1, ConstantsAssumption DEF Writes
        <5> QED BY <5>1, <5>2, Zenon
      <4> QED BY <4>1, <4>3, Zenon DEF SettleInv, UnfinishedIsPending, Open
    <3> QED BY <3>1, <3>2, Zenon DEF SettledBut
  <2>4. ASSUME NEW d \in Callers, CallerStep(d) PROVE Goal
    BY <2>2, <2>3, <2>4, CallerAlone, OnlyForkBegin, Zenon
  <2>5. ASSUME NEW d \in Callers, NEW mpChild \in BOOLEAN, Fork(d, mpChild) PROVE FALSE
    BY <2>5, Zenon DEF Fork
  <2>6. ASSUME NEW v \in Writes, NEW ok \in BOOLEAN, ParentWrite(v, ok) PROVE Goal
    BY <2>2, <2>6, Zenon DEF ParentWrite, callVars, Same
  <2>7. ASSUME Worker PROVE Goal
    <3>1. UNCHANGED callVars
      BY <2>7, Zenon DEF Worker, WorkerGet, WorkerTimeout, WorkerRetire, WorkerRun, WorkerResult,
                  WorkerForget, WorkerForgetSize
    <3> QED BY <2>2, <3>1, Zenon DEF callVars, Same
  <2> HIDE DEF Goal
  <2>8. ASSUME NEW d \in Callers, Continue(d) PROVE Goal
    BY <2>4, <2>5, <2>8, Zenon DEF Continue, CallerStep, QuietStep
  <2>9. Goal
    BY <1>2, <2>4, <2>6, <2>7, <2>8, Zenon DEF Next, CallerStep, QuietStep
  <2> QED BY <2>9, Zenon DEF Goal
<1> QED BY <1>1, <1>2, Zenon

\* Only a fork ends the wait before it.
LEMMA ForkEnds ==
    ASSUME TypeInv, Next, NEW c \in Callers, pc[c] = "fork", pc'[c] = "idle"
    PROVE  \E mpChild \in BOOLEAN : Fork(c, mpChild)
<1>1. ASSUME NEW d \in Callers, CallerStep(d) PROVE FALSE
  <2>1. CASE d # c
    BY <1>1, <2>1, CallerAlone, Zenon DEF Same
  <2>2. CASE d = c
    BY <1>1, <2>2, ZenonT(60)
    DEF CallerStep, QuietStep, SetBegin, WaitBegin, DrainBegin, ClearBegin, ShutdownBegin, ForkBegin,
        WaitAllBegin, MakeRoom, RoomSettled, SubmitPrevious, SubmitRefused, RegisterForget, SizeCheck,
        SizeAdd, SizeCallback, WaitEnd, Read, DrainEnd, Remove, WaitAllEnd, Clear, StopPool, Join,
        SubmitEnqueue, SubmitStartFails, PutSentinel, InlineBegin, InlineEnd, At
  <2> QED BY <2>1, <2>2, Zenon
<1>2. ASSUME NEW d \in Callers, NEW mpChild \in BOOLEAN, Fork(d, mpChild) PROVE d = c
  BY <1>2, Zenon DEF Fork
<1>3. ASSUME NEW v \in Writes, NEW ok \in BOOLEAN, ParentWrite(v, ok) PROVE FALSE
  BY <1>3, Zenon DEF ParentWrite, callVars
<1>4. ASSUME Worker PROVE FALSE
  <2>1. UNCHANGED pc
    BY <1>4, Zenon DEF Worker, WorkerGet, WorkerTimeout, WorkerRetire, WorkerRun, WorkerResult,
                WorkerForget, WorkerForgetSize, callVars
  <2> QED BY <2>1, Zenon
<1> QED BY <1>1, <1>2, <1>3, <1>4, Zenon DEF Next, Continue, CallerStep, QuietStep

\* A process that starts another (_finish_before_child) has finished the writes
\* queued before the fork began, whatever is queued meanwhile, if threads can be
\* started and the wait is not cut short; a queue shut down is not waited for.
THEOREM ForksComeAfterWrites ==
    ASSUME ~ThreadStartMayFail, ~ChildWaitMayExpire
    PROVE  Spec => ForkAfterWrites
<1>1. Init => ForkInv
  BY Zenon DEF Init, ForkInv
<1>2. TypeInv /\ OrderInv /\ SettleInv /\ ForkInv /\ [Next]_vars =>
        [\A c \in Callers : At(c, "fork") /\ pc'[c] = "idle" /\ ~down =>
           \A w \in 1 .. mark[c] : Unfinished(w) => Draining(w)]_pc
  <2> SUFFICES ASSUME TypeInv, OrderInv, SettleInv, ForkInv, Next,
                      NEW c \in Callers, pc[c] = "fork", pc'[c] = "idle", ~down,
                      NEW w \in 1 .. mark[c], Unfinished(w)
               PROVE  Draining(w)
    BY Zenon DEF vars, callVars, At
  <2>1. PICK mpChild \in BOOLEAN : Fork(c, mpChild)
    BY ForkEnds, Zenon
  <2>2. \A f \in snapshot[c] : f \in Writes /\ Done(f)
    BY <2>1, Zenon DEF Fork, AllSettled, TypeInv, TypeOK
  <2>3. w \in Writes /\ w <= mark[c]
    BY ConstantsAssumption DEF TypeInv, TypeOK, Writes
  <2>4. ~Inline(w)
    BY Zenon DEF Inline, At, OrderInv, InlineInv, ChildInv
  <2>5. \A f \in snapshot[c] : f < w
    <3>1. Open(w)
      BY <2>4, Zenon DEF Open
    <3> QED BY <2>2, <2>3, <3>1, DoneMeansEarlierDone, ConstantsAssumption, SMTT(30) DEF Writes
  <2> QED BY <2>3, <2>4, <2>5, Zenon DEF ForkInv, SettledBut, Open
<1>3. TypeInv /\ OrderInv /\ OrderInv' /\ SettleInv /\ [Next]_vars => SettleInv'
  BY SettleStep, Zenon
<1> QED BY <1>1, <1>2, <1>3, ForkInvStep, InitType, TypeStep, OrderInit, OrderStep, SettleInit, PTL
        DEF Spec, ForkAfterWrites

=============================================================================
