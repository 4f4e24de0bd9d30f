------------------------ MODULE WriteQueueStoreProofs -----------------------
(***************************************************************************)
(* Proof that WriteQueue implements DelayedStore.                          *)
(***************************************************************************)
EXTENDS WriteQueueProofs, WriteQueueStore

\* No future is held that has not been handed out.
KnownInv ==
    /\ \A k \in Keys : pending[k] <= last
    /\ \A c \in Callers : pc[c] = "drain" => future[c] <= last

\* At first no future is held.
LEMMA KnownInit == Init => KnownInv
BY DEF Init, KnownInv, NoWrite

\* The writes in the backlog may still land, and none of them is the child's own.
LEMMA BacklogOpen ==
    ASSUME TypeInv, OrderInv, NEW w \in Backlog
    PROVE  w \in Writes /\ Open(w) /\ w <= last
<1>1. w \in Writes /\ state[w] \in {"queued", "running"}
  BY Zenon DEF Backlog, OrderInv, RunInv, Running
<1>2. ~Inline(w)
  <2>1. ASSUME NEW d \in Callers, pc[d] = "inline", future[d] = w PROVE FALSE
    <3>1. worker = "none" /\ state[w] = "running"
      BY <2>1, Zenon DEF OrderInv, InlineInv, ChildInv
    <3> QED BY <3>1, Zenon DEF Backlog
  <2> QED BY <2>1, Zenon DEF Inline, At
<1>3. last \in Int /\ w \in Int
  BY <1>1, ConstantsAssumption DEF TypeInv, TypeOK, Writes
<1> QED BY <1>1, <1>2, <1>3 DEF Open, Unfinished, OrderInv, Born

\* A caller's step gives it no future that has not been handed out.
LEMMA KnownCaller ==
    ASSUME TypeInv, OrderInv, KnownInv, NEW c \in Callers, CallerStep(c), pc'[c] = "drain"
    PROVE  \E k \in Keys : DrainBegin(c, k)
BY ZenonT(60)
DEF CallerStep, QuietStep, SetBegin, WaitBegin, ClearBegin, ShutdownBegin, ForkBegin, WaitAllBegin,
    MakeRoom, RoomSettled, SubmitPrevious, SubmitRefused, RegisterForget, SizeCheck, SizeAdd,
    SizeCallback, WaitEnd, Read, DrainEnd, Remove, WaitAllEnd, Clear, StopPool, Join,
    SubmitEnqueue, SubmitStartFails, PutSentinel, InlineBegin, InlineEnd,
    Goto, Hold, Begin, Finish, TypeInv, TypeOK

\* What a step may put into _pending.
LEMMA PendingValues ==
    ASSUME TypeInv, OrderInv, Next, NEW k \in Keys
    PROVE  last' \in {last, last + 1} /\ pending'[k] \in {pending[k], NoWrite, last'}
<1> DEFINE Goal == last' \in {last, last + 1} /\ pending'[k] \in {pending[k], NoWrite, last'}
<1> USE DEF futVars
<1>1. ASSUME NEW w, ForgetIfSucceeded(w) PROVE pending'[k] \in {pending[k], NoWrite}
  BY <1>1, Zenon DEF ForgetIfSucceeded, Without
<1>2. ASSUME NEW c \in Callers, NEW j \in Keys,
             \/ SetBegin(c, j) \/ WaitBegin(c, j) \/ ClearBegin(c) \/ ShutdownBegin(c) \/ ForkBegin(c)
             \/ MakeRoom(c) \/ RoomSettled(c) \/ SubmitPrevious(c) \/ SubmitRefused(c)
             \/ SizeCheck(c) \/ SizeAdd(c) \/ SizeCallback(c)
             \/ Read(c) \/ DrainEnd(c) \/ Remove(c) \/ WaitAllEnd(c) \/ Clear(c)
             \/ StopPool(c) \/ Join(c) \/ PutSentinel(c)
      PROVE  Goal
  <2>1. UNCHANGED <<pending, last>>
    BY <1>2, Zenon DEF SetBegin, WaitBegin, ClearBegin, ShutdownBegin, ForkBegin, WaitAllBegin,
       MakeRoom, RoomSettled, SubmitPrevious, SubmitRefused, SizeCheck, SizeAdd, SizeCallback,
       Read, DrainEnd, Remove, WaitAllEnd, Clear, StopPool, Join, PutSentinel
  <2> QED BY <2>1, Zenon
<1>3. ASSUME NEW c \in Callers, RegisterForget(c) PROVE Goal
  BY <1>1, <1>3, Zenon DEF RegisterForget
<1>4. ASSUME NEW c \in Callers, WaitEnd(c) PROVE Goal
  BY <1>4, Zenon DEF WaitEnd, Without
<1>5. ASSUME NEW c \in Callers, NEW j \in Keys, DrainBegin(c, j) PROVE Goal
  BY <1>5, Zenon DEF DrainBegin, TypeInv, TypeOK
<1>6. ASSUME NEW c \in Callers, SubmitEnqueue(c) \/ SubmitStartFails(c) \/ InlineBegin(c) PROVE Goal
  BY <1>6 DEF SubmitEnqueue, SubmitStartFails, InlineBegin, NewFuture, TypeInv, TypeOK
<1>7. ASSUME NEW c \in Callers, NEW ok \in BOOLEAN, InlineEnd(c, ok) PROVE Goal
  BY <1>7, Zenon DEF InlineEnd, At, OrderInv, InlineInv, TypeInv, TypeOK
<1>8. ASSUME NEW c \in Callers, NEW mpChild \in BOOLEAN, Fork(c, mpChild) PROVE Goal
  BY <1>8, Zenon DEF Fork
<1>9. ASSUME NEW w \in Writes, NEW ok \in BOOLEAN, ParentWrite(w, ok) PROVE Goal
  BY <1>9, Zenon DEF ParentWrite
<1>10. ASSUME Worker PROVE Goal
  BY <1>1, <1>10, Zenon DEF Worker, WorkerGet, WorkerTimeout, WorkerRetire, WorkerRun, WorkerResult,
                    WorkerForget, WorkerForgetSize
<1> HIDE DEF Goal
<1>11. ASSUME NEW c \in Callers, Continue(c) PROVE Goal
  BY <1>2, <1>3, <1>4, <1>6, <1>7, <1>8, <1>11, ConstantsAssumption, Zenon DEF Continue
<1>12. Goal
  BY <1>2, <1>5, <1>9, <1>10, <1>11, Zenon DEF Next
<1> QED BY <1>12, Zenon DEF Goal

\* Every step keeps KnownInv.
LEMMA KnownStep == TypeInv /\ OrderInv /\ KnownInv /\ [Next]_vars => KnownInv'
<1> SUFFICES ASSUME TypeInv, OrderInv, KnownInv, [Next]_vars PROVE KnownInv'
  OBVIOUS
<1>1. CASE UNCHANGED vars
  BY <1>1, Zenon DEF vars, futVars, callVars, KnownInv
<1>2. CASE Next
  <2>1. last \in Nat /\ last' \in {last, last + 1}
    BY <1>2, PendingValues, ConstantsAssumption DEF TypeInv, TypeOK
  <2>2. ASSUME NEW k \in Keys PROVE pending'[k] <= last' /\ pending[k] <= last'
    <3>1. pending'[k] \in {pending[k], NoWrite, last'} /\ pending[k] <= last
      BY <1>2, PendingValues, Zenon DEF KnownInv
    <3>2. pending[k] \in Int
      BY ConstantsAssumption DEF TypeInv, TypeOK, Writes, NoWrite
    <3> QED BY <2>1, <3>1, <3>2 DEF NoWrite
  <2>3. ASSUME NEW d \in Callers, pc'[d] = "drain" PROVE future'[d] <= last'
    <3>1. ASSUME Same(d) PROVE future'[d] <= last'
      <4>1. pc[d] = "drain" /\ future'[d] = future[d] /\ future[d] <= last /\ future[d] \in Int
        BY <2>3, <3>1, ConstantsAssumption DEF Same, KnownInv, TypeInv, TypeOK, Writes, NoWrite
      <4> QED BY <2>1, <4>1
    <3>2. ASSUME NEW c \in Callers, CallerStep(c) PROVE future'[d] <= last'
      <4>1. CASE c # d
        BY <3>1, <3>2, <4>1, CallerAlone, Zenon
      <4>2. CASE c = d
        <5>1. PICK k \in Keys : DrainBegin(d, k)
          BY <2>3, <3>2, <4>2, KnownCaller, Zenon
        <5>2. future'[d] = pending[k]
          BY <5>1, Zenon DEF DrainBegin, Begin, TypeInv, TypeOK
        <5> QED BY <2>2, <5>2, Zenon
      <4> QED BY <4>1, <4>2, Zenon
    <3>3. ASSUME NEW c \in Callers, NEW mpChild \in BOOLEAN, Fork(c, mpChild) PROVE FALSE
      BY <2>3, <3>3, Zenon DEF Fork
    <3>4. ASSUME NEW v \in Writes, NEW ok \in BOOLEAN, ParentWrite(v, ok) PROVE Same(d)
      BY <3>4, Zenon DEF ParentWrite, callVars, Same
    <3>5. ASSUME Worker PROVE Same(d)
      BY <3>5, Zenon DEF Worker, WorkerGet, WorkerTimeout, WorkerRetire, WorkerRun, WorkerResult,
                         WorkerForget, WorkerForgetSize, callVars, Same
    <3>6. ASSUME NEW c \in Callers, Continue(c) PROVE future'[d] <= last'
      BY <3>2, <3>3, <3>6, Zenon DEF Continue, CallerStep, QuietStep
    <3> QED BY <1>2, <3>1, <3>2, <3>4, <3>5, <3>6, Zenon DEF Next, CallerStep, QuietStep
  <2> QED BY <2>2, <2>3, Zenon DEF KnownInv
<1> QED BY <1>1, <1>2, Zenon

\* A caller that does not move asks for what it asked for.
LEMMA SameRequest == ASSUME NEW d \in Callers, Same(d) PROVE Request(d)' = Request(d)
BY Zenon DEF Same, Request

\* What a delete waits for, it waited for before, unless it has just begun.
LEMMA DrainingBefore ==
    ASSUME TypeInv, OrderInv, KnownInv, Next, NEW c \in Callers, CallerStep(c),
           ~ \E k \in Keys : DrainBegin(c, k),
           NEW w \in Writes, w <= last, Draining(w)'
    PROVE  Draining(w)
<1>1. keyOf'[w] = keyOf[w]
  BY OpenKept, Zenon
<1>2. PICK d \in Callers : pc'[d] = "drain" /\ arg'[d] = keyOf'[w] /\ future'[d] >= w
  BY Zenon DEF Draining, At
<1>3. d # c
  BY <1>2, KnownCaller, Zenon
<1>4. Same(d)
  BY <1>3, CallerAlone, Zenon
<1> QED BY <1>1, <1>2, <1>4, Zenon DEF Same, Draining, At

\* What a caller's step outside the pool leaves of the backlog.
LEMMA QuietView ==
    ASSUME TypeInv, OrderInv, KnownInv, Next, NEW c \in Callers, QuietStep(c)
    PROVE  /\ Backlog' = Backlog /\ Loose' = Loose
           /\ UNCHANGED <<last, keyOf>>
           /\ \A d \in Callers : d # c => Request(d)' = Request(d)
           /\ (~ \E k \in Keys : DrainBegin(c, k)) => Doomed' = Doomed
<1>1. QuietCall /\ UNCHANGED orderVars
  BY QuietSteps, Zenon
<1>2. Backlog' = Backlog
  BY <1>1, Zenon DEF orderVars, Backlog
<1>3. Loose' = Loose
  BY <1>1, QuietInline, Zenon DEF orderVars, Loose
<1>4. CallerStep(c)
  BY Zenon DEF CallerStep
<1>5. \A d \in Callers : d # c => Request(d)' = Request(d)
  BY <1>4, CallerAlone, SameRequest, Zenon
<1>6. ASSUME ~ \E k \in Keys : DrainBegin(c, k) PROVE Doomed' = Doomed
  <2>1. ASSUME NEW w \in Backlog PROVE Draining(w)' <=> Draining(w)
    <3>1. w \in Writes /\ Open(w) /\ w <= last
      BY BacklogOpen, Zenon
    <3>2. Open(w)'
      BY <1>1, <3>1, QuietInline, Zenon DEF orderVars, Open, Unfinished
    <3>3. Kept
      BY KeptStep, Zenon
    <3>4. Draining(w) => Draining(w)'
      BY <3>1, <3>2, <3>3, Zenon DEF Kept
    <3>5. Draining(w)' => Draining(w)
      BY <1>4, <1>6, <3>1, DrainingBefore, Zenon
    <3> QED BY <3>4, <3>5, Zenon
  <2> QED BY <1>2, <2>1, Zenon DEF Doomed
<1> QED BY <1>1, <1>2, <1>3, <1>5, <1>6, Zenon DEF orderVars

\* The caller's steps that the store does not see.
Unseen(c) ==
    \/ \E k \in Keys : SetBegin(c, k)
    \/ ShutdownBegin(c) \/ ForkBegin(c)
    \/ MakeRoom(c) \/ RoomSettled(c) \/ SubmitPrevious(c) \/ SubmitRefused(c)
    \/ RegisterForget(c) \/ SizeCheck(c) \/ SizeAdd(c) \/ SizeCallback(c)
    \/ WaitEnd(c) \/ DrainEnd(c) \/ WaitAllEnd(c) \/ StopPool(c) \/ Join(c)

\* Waits that end and steps inside submissions, shutdown and the preparations
\* of a fork change no request.
LEMMA UnseenRequest ==
    ASSUME TypeInv, NEW c \in Callers, Unseen(c)
    PROVE  Request(c)' = Request(c) /\ disk' = disk /\ ~ \E k \in Keys : DrainBegin(c, k)
<1> DEFINE Asking == {"wait", "read", "drain", "remove", "waitAll", "clear"}
<1>1. disk' = disk
  BY Zenon DEF Unseen, SetBegin, ShutdownBegin, ForkBegin, WaitAllBegin, MakeRoom, RoomSettled,
       SubmitPrevious, SubmitRefused, RegisterForget, SizeCheck, SizeAdd, SizeCallback,
       WaitEnd, DrainEnd, WaitAllEnd, StopPool, Join
<1>2. CASE WaitEnd(c) \/ DrainEnd(c) \/ WaitAllEnd(c)
  <2>1. /\ <<pc[c], pc'[c]>> \in {<<"wait", "read">>, <<"drain", "remove">>, <<"waitAll", "clear">>}
        /\ arg'[c] = arg[c] /\ mark'[c] = mark[c]
    BY <1>2, Zenon DEF WaitEnd, DrainEnd, WaitAllEnd, Goto, At, TypeInv, TypeOK
  <2>2. Request(c)' = Request(c)
    BY <2>1, Zenon DEF Request
  <2>3. ~ \E k \in Keys : DrainBegin(c, k)
    BY <2>1, Zenon DEF DrainBegin, At
  <2> QED BY <1>1, <2>2, <2>3, Zenon
<1>3. CASE ~ (WaitEnd(c) \/ DrainEnd(c) \/ WaitAllEnd(c))
  <2>1. pc[c] \notin Asking
    BY <1>3, Zenon DEF Unseen, SetBegin, ShutdownBegin, ForkBegin, WaitAllBegin, MakeRoom,
       RoomSettled, SubmitPrevious, SubmitRefused, RegisterForget, SizeCheck, SizeAdd, SizeCallback,
       StopPool, Join, At
  <2>2. pc'[c] \notin Asking
    BY <1>3, ZenonT(60) DEF Unseen, SetBegin, ShutdownBegin, ForkBegin, WaitAllBegin, MakeRoom,
       RoomSettled, SubmitPrevious, SubmitRefused, RegisterForget, SizeCheck, SizeAdd, SizeCallback,
       StopPool, Join, Goto, Hold, Begin, Finish, TypeInv, TypeOK
  <2>3. Request(c)' = Request(c)
    BY <2>1, <2>2, Zenon DEF Request
  <2>4. ~ \E k \in Keys : DrainBegin(c, k)
    BY <2>2, Zenon DEF DrainBegin, Begin, TypeInv, TypeOK
  <2> QED BY <1>1, <2>3, <2>4, Zenon
<1> QED BY <1>2, <1>3, Zenon

\* Those steps are stutters of the store.
LEMMA UnseenStep ==
    ASSUME TypeInv, OrderInv, KnownInv, Next, NEW c \in Callers, Unseen(c)
    PROVE  UNCHANGED Store!vars
<1>1. QuietStep(c)
  BY Zenon DEF Unseen, QuietStep
<1>2. Request(c)' = Request(c) /\ disk' = disk /\ ~ \E k \in Keys : DrainBegin(c, k)
  BY UnseenRequest, Zenon
<1>3. Requests' = Requests
  BY <1>1, <1>2, QuietView, Zenon DEF Requests
<1> QED BY <1>1, <1>2, <1>3, QuietView, Zenon DEF Store!vars

\* An operation begins: its caller asks.
LEMMA AskStep ==
    ASSUME TypeInv, OrderInv, KnownInv, UnfinishedIsPending, Next, NEW c \in Callers, NEW k \in Keys,
           WaitBegin(c, k) \/ DrainBegin(c, k) \/ ClearBegin(c)
    PROVE  Store!Next
<1>1. QuietStep(c)
  BY Zenon DEF QuietStep
<1>2. /\ Backlog' = Backlog /\ Loose' = Loose /\ UNCHANGED <<last, keyOf>>
      /\ \A d \in Callers : d # c => Request(d)' = Request(d)
      /\ (~ \E j \in Keys : DrainBegin(c, j)) => Doomed' = Doomed
  BY <1>1, QuietView, Zenon
<1>3. pc[c] = "idle" /\ disk' = disk
  BY Zenon DEF WaitBegin, DrainBegin, ClearBegin, WaitAllBegin, At
<1>4. Requests[c] = Store!Idle
  BY <1>3, Zenon DEF Requests, Request, Store!Idle
<1>5. ASSUME NEW r, Request(c)' = r PROVE Requests' = [Requests EXCEPT ![c] = r]
  BY <1>2, <1>5, Zenon DEF Requests
<1>6. ASSUME WaitBegin(c, k) PROVE Store!Ask(c, "read", {k})
  <2>1. pc'[c] \in {"wait", "read"} /\ arg'[c] = k /\ mark'[c] = last
    BY <1>6, Zenon DEF WaitBegin, Begin, TypeInv, TypeOK
  <2>2. Request(c)' = [op |-> "read", keys |-> {k}, mark |-> last]
    BY <2>1, Zenon DEF Request
  <2>3. Doomed' = Doomed
    BY <1>2, <2>1, Zenon DEF DrainBegin, Begin, TypeInv, TypeOK
  <2> QED BY <1>2, <1>3, <1>4, <1>5, <2>2, <2>3, Zenon DEF Store!Ask
<1>7. ASSUME ClearBegin(c) PROVE Store!Ask(c, "clear", Keys)
  <2>1. pc'[c] = "waitAll" /\ mark'[c] = last
    BY <1>7, Zenon DEF ClearBegin, WaitAllBegin, TypeInv, TypeOK
  <2>2. Request(c)' = [op |-> "clear", keys |-> Keys, mark |-> last]
    BY <2>1, Zenon DEF Request
  <2>3. Doomed' = Doomed
    BY <1>2, <2>1, Zenon DEF DrainBegin, Begin, TypeInv, TypeOK
  <2> QED BY <1>2, <1>3, <1>4, <1>5, <2>2, <2>3, Zenon DEF Store!Ask
<1>8. ASSUME DrainBegin(c, k) PROVE Store!Ask(c, "remove", {k})
  <2>1. pc'[c] = "drain" /\ arg'[c] = k /\ mark'[c] = last /\ future'[c] = pending[k]
    BY <1>8, Zenon DEF DrainBegin, Begin, TypeInv, TypeOK
  <2>2. Request(c)' = [op |-> "remove", keys |-> {k}, mark |-> last]
    BY <2>1, Zenon DEF Request
  <2>3. ASSUME NEW w \in Backlog PROVE Draining(w)' <=> Draining(w) \/ keyOf[w] \in {k}
    <3>1. w \in Writes /\ Open(w) /\ w <= last /\ keyOf'[w] = keyOf[w]
      BY <1>2, BacklogOpen, Zenon
    <3>2. \A d \in Callers : d # c => Same(d)
      BY <1>1, CallerAlone, Zenon DEF CallerStep
    <3>3. keyOf[w] # k => (Draining(w)' <=> Draining(w))
      BY <1>3, <2>1, <3>1, <3>2, Zenon DEF Draining, At, Same
    <3>4. Draining(w) => Draining(w)'
      BY <1>3, <3>1, <3>2, Zenon DEF Draining, At, Same
    <3>5. ASSUME keyOf[w] = k, ~Draining(w) PROVE Draining(w)'
      <4>1. pending[k] >= w
        BY <3>1, <3>5, Zenon DEF UnfinishedIsPending, Open
      <4> QED BY <2>1, <3>1, <3>5, <4>1, Zenon DEF Draining, At
    <3> QED BY <3>3, <3>4, <3>5, Zenon
  <2>4. Doomed' = Doomed \cup {w \in Backlog : keyOf[w] \in {k}}
    BY <1>2, <2>3, Zenon DEF Doomed
  <2> QED BY <1>2, <1>3, <1>4, <1>5, <2>2, <2>4, Zenon DEF Store!Ask
<1> QED BY <1>6, <1>7, <1>8, Zenon DEF Store!Next

\* An operation ends: its caller is answered.
LEMMA AnswerStep ==
    ASSUME TypeInv, OrderInv, KnownInv, Next, ReadSeesWrites, NoWriteAfterDelete, NoWriteAfterClear,
           MarkInv, NEW c \in Callers, Read(c) \/ Remove(c) \/ Clear(c)
    PROVE  Store!Next
<1>1. QuietStep(c)
  BY Zenon DEF QuietStep
<1>2. pc[c] \in {"read", "remove", "clear"} /\ pc'[c] = "idle"
  BY Zenon DEF Read, Remove, Clear, Finish, At, TypeInv, TypeOK
<1>3. ~ \E k \in Keys : DrainBegin(c, k)
  BY <1>2, Zenon DEF DrainBegin, At
<1>4. /\ Backlog' = Backlog /\ Loose' = Loose /\ UNCHANGED <<last, keyOf>> /\ Doomed' = Doomed
      /\ \A d \in Callers : d # c => Request(d)' = Request(d)
  BY <1>1, <1>3, QuietView, Zenon
<1>5. Requests[c] # Store!Idle /\ Request(c)' = Store!Idle
  BY <1>2, Zenon DEF Requests, Request, Store!Idle
<1>6. Requests' = [Requests EXCEPT ![c] = Store!Idle]
  BY <1>4, <1>5, Zenon DEF Requests
<1>7. /\ Requests[c].mark = mark[c]
      /\ Requests[c].keys = IF pc[c] = "clear" THEN Keys ELSE {arg[c]}
      /\ Requests[c].op # "read" <=> pc[c] # "read"
  BY <1>2, Zenon DEF Requests, Request
<1>8. Store!Ready(c)
  <2>1. ASSUME NEW w \in Backlog, w <= mark[c], pc[c] # "clear" => keyOf[w] = arg[c]
        PROVE  w \in Doomed
    <3>1. w \in Writes /\ Open(w) /\ mark[c] \in Int /\ w \in 1 .. mark[c]
      <4>1. w \in Writes /\ Open(w)
        BY <2>1, BacklogOpen, Zenon
      <4>2. mark[c] \in 0 .. MaxWrites
        BY Zenon DEF TypeInv, TypeOK
      <4> QED
        BY <2>1, <4>1, <4>2, ConstantsAssumption DEF Writes
    <3>2. Draining(w)
      BY <1>2, <2>1, <3>1, Zenon DEF ReadSeesWrites, NoWriteAfterDelete, NoWriteAfterClear, Before, Open, At
    <3> QED BY <3>2, Zenon DEF Doomed
  <2> QED BY <1>2, <1>7, <2>1, Zenon DEF Store!Ready
<1>9. disk' = [k \in Keys |-> IF Requests[c].op # "read" /\ k \in Requests[c].keys THEN NoWrite ELSE disk[k]]
  BY <1>2, <1>7, Zenon DEF Read, Remove, Clear, At, TypeInv, TypeOK
<1> QED BY <1>4, <1>5, <1>6, <1>8, <1>9, Zenon DEF Store!Answer, Store!Next, Store!NoWrite, NoWrite

\* The requests while one caller is inside a submission.
LEMMA OtherRequests ==
    ASSUME NEW c \in Callers, \A d \in Callers : d # c => Same(d), Request(c)' = Request(c)
    PROVE  Requests' = Requests
BY SameRequest, Zenon DEF Requests

\* A submission that reaches the pool's queue is accepted.
LEMMA AcceptStep ==
    ASSUME TypeInv, OrderInv, KnownInv, Next, NEW c \in Callers, SubmitEnqueue(c)
    PROVE  Store!Next
<1>1. /\ pc[c] = "submit" /\ pc'[c] = "register" /\ ~inChild /\ arg[c] \in Keys
      /\ worker' = IF worker = "none" THEN "get" ELSE worker
      /\ UNCHANGED <<current, disk>>
      /\ last < MaxWrites /\ last' = last + 1
      /\ keyOf' = [keyOf EXCEPT ![last + 1] = arg[c]]
      /\ state' = [state EXCEPT ![last + 1] = "queued"]
  BY Zenon DEF SubmitEnqueue, NewFuture, Hold, At, TypeInv, TypeOK
<1>2. last + 1 \in Writes /\ state[last + 1] = "unborn" /\ last \in Int
  BY <1>1, ConstantsAssumption DEF Writes, TypeInv, TypeOK, OrderInv, Born
<1>3. \A d \in Callers : d # c => Same(d)
  BY CallerAlone, Zenon DEF CallerStep
<1>4. Requests' = Requests
  BY <1>1, <1>3, OtherRequests, Zenon DEF Request
<1>5. Backlog' = Backlog \cup {last + 1}
  BY <1>1, <1>2, Zenon DEF Backlog, TypeInv, TypeOK
<1>6. ASSUME NEW w \in Writes PROVE ~Inline(w) /\ ~Inline(w)'
  <2>1. \A d \in Callers : pc[d] # "inline"
    BY <1>1, Zenon DEF OrderInv, InlineInv
  <2> QED BY <1>1, <1>3, <2>1, Zenon DEF Inline, At, Same
<1>7. Loose' = Loose
  BY <1>1, <1>2, <1>6, Zenon DEF Loose, TypeInv, TypeOK
<1>8. ASSUME NEW w \in Backlog PROVE w # last + 1 /\ (Draining(w)' <=> Draining(w))
  <2>1. w \in Writes /\ w <= last
    BY BacklogOpen, Zenon
  <2>2. w # last + 1
    BY <1>2, <2>1
  <2> QED BY <1>1, <1>3, <2>1, <2>2, Zenon DEF Draining, At, Same, TypeInv, TypeOK
<1>9. ASSUME NEW w \in Writes, w = last + 1 PROVE ~Draining(w)'
  <2>1. ASSUME NEW d \in Callers, pc'[d] = "drain", future'[d] >= last + 1 PROVE FALSE
    <3>1. pc[d] = "drain" /\ future'[d] = future[d]
      BY <1>1, <1>3, <2>1, Zenon DEF Same
    <3>2. future[d] <= last /\ future[d] \in Int
      BY <3>1, ConstantsAssumption DEF KnownInv, TypeInv, TypeOK, Writes, NoWrite
    <3> QED BY <1>2, <2>1, <3>1, <3>2
  <2>2. \A d \in Callers : pc'[d] = "drain" => ~(future'[d] >= last + 1)
    BY <2>1, Zenon
  <2> QED BY <1>9, <2>2, Zenon DEF Draining, At
<1>10. Doomed' = Doomed
  <2>1. Doomed' = {w \in Backlog \cup {last + 1} : Draining(w)'}
    BY <1>5, Zenon DEF Doomed
  <2>2. Doomed = {w \in Backlog : Draining(w)}
    BY Zenon DEF Doomed
  <2>3. ASSUME NEW w \in Backlog PROVE Draining(w)' <=> Draining(w)
    BY <1>8, Zenon
  <2> QED BY <1>2, <1>9, <2>1, <2>2, <2>3, Zenon
<1> QED BY <1>1, <1>4, <1>5, <1>7, <1>10, Zenon
        DEF Store!Accept, Store!NewWrite, Store!Next

\* The sentinel shutdown puts into the queue is no write.
LEMMA SentinelStep ==
    ASSUME TypeInv, NEW c \in Callers, PutSentinel(c)
    PROVE  UNCHANGED Store!vars
<1>1. /\ pc[c] = "sentinel" /\ pc'[c] = "join"
      /\ UNCHANGED <<worker, current, last, state, keyOf, disk>>
  BY Zenon DEF PutSentinel, Goto, At, TypeInv, TypeOK, futVars
<1>2. \A d \in Callers : d # c => Same(d)
  BY CallerAlone, Zenon DEF CallerStep
<1>3. Requests' = Requests
  BY <1>1, <1>2, OtherRequests, Zenon DEF Request
<1>4. \A w \in Writes : (Inline(w)' <=> Inline(w)) /\ (Draining(w)' <=> Draining(w))
  BY <1>1, <1>2, Zenon DEF Inline, Draining, At, Same
<1>5. Backlog' = Backlog /\ Loose' = Loose
  BY <1>1, <1>4, Zenon DEF Backlog, Loose
<1>6. Doomed' = Doomed
  BY <1>4, <1>5, Zenon DEF Doomed, Backlog
<1> QED BY <1>1, <1>3, <1>5, <1>6, Zenon DEF Store!vars

\* In a multiprocessing child nothing is queued.
LEMMA ChildBacklog ==
    ASSUME TypeInv, OrderInv, inChild PROVE Backlog = {} /\ Doomed = {}
<1>1. worker = "none" /\ queue = <<>>
  BY Zenon DEF OrderInv, ChildInv
<1>2. ASSUME NEW w \in Writes PROVE state[w] # "queued"
  BY <1>1 DEF OrderInv, QueueInv
<1> QED BY <1>1, <1>2, Zenon DEF Backlog, Doomed

\* The write of a multiprocessing child is a loose one, begun and finished.
LEMMA InlineStep ==
    ASSUME TypeInv, OrderInv, OrderInv', NEW c \in Callers, NEW ok \in BOOLEAN,
           TypeInv', InlineBegin(c) \/ InlineEnd(c, ok)
    PROVE  Store!Next
<1>1. /\ inChild /\ inChild' /\ worker = "none"
      /\ \A d \in Callers : d # c => pc[d] = "gone" /\ pc'[d] = "gone"
  <2>1. inChild /\ inChild' /\ pc[c] \in {"submit", "inline"} /\ pc'[c] \in {"inline", "idle"}
    BY Zenon DEF InlineBegin, InlineEnd, procVars, At, OrderInv, InlineInv, Hold, Finish, TypeInv, TypeOK
  <2> QED BY <2>1, Zenon DEF OrderInv, ChildInv
<1>2. Backlog' = Backlog /\ Doomed' = Doomed
  <2>1. Backlog' = {} /\ Doomed' = {}
    <3>1. worker' = "none" /\ queue' = <<>>
      BY <1>1, Zenon DEF OrderInv, ChildInv
    <3>2. ASSUME NEW w \in Writes PROVE state'[w] # "queued"
      BY <3>1 DEF OrderInv, QueueInv
    <3> QED BY <3>1, <3>2, Zenon DEF Backlog, Doomed
  <2> QED BY <1>1, <2>1, ChildBacklog, Zenon
<1>3. \A d \in Callers : d # c => Same(d)
  BY CallerAlone, Zenon DEF CallerStep
<1>4. ASSUME InlineBegin(c) PROVE Store!AcceptLoose(arg[c])
  <2>1. /\ pc[c] = "submit" /\ pc'[c] = "inline" /\ arg[c] \in Keys /\ future'[c] = last + 1
        /\ last < MaxWrites /\ last' = last + 1 /\ disk' = disk
        /\ keyOf' = [keyOf EXCEPT ![last + 1] = arg[c]]
        /\ state' = [state EXCEPT ![last + 1] = "running"]
    BY <1>4 DEF InlineBegin, NewFuture, Hold, At, TypeInv, TypeOK
  <2>2. last + 1 \in Writes /\ state[last + 1] = "unborn"
    BY <2>1, ConstantsAssumption DEF Writes, TypeInv, TypeOK, OrderInv, Born
  <2>3. \A w \in Writes : ~Inline(w) /\ (Inline(w)' <=> w = last + 1)
    BY <1>1, <2>1, Zenon DEF Inline, At
  <2>4. Loose' = Loose \cup {last + 1}
    BY <2>1, <2>2, <2>3 DEF Loose, TypeInv, TypeOK
  <2>5. Requests' = Requests
    BY <1>3, <2>1, OtherRequests, Zenon DEF Request
  <2> QED BY <1>2, <2>1, <2>4, <2>5, Zenon DEF Store!AcceptLoose, Store!NewWrite
<1>5. ASSUME InlineEnd(c, ok) PROVE Store!FinishLoose(future[c])
  <2>1. /\ pc[c] = "inline" /\ pc'[c] = "idle" /\ future[c] \in Writes /\ arg[c] \in Keys
        /\ disk' = IF ok THEN [disk EXCEPT ![keyOf[future[c]]] = future[c]] ELSE disk
        /\ UNCHANGED <<last, keyOf>>
        /\ state' = [state EXCEPT ![future[c]] = IF ok THEN "ok" ELSE "failed"]
        /\ state[future[c]] = "running"
    BY <1>5 DEF InlineEnd, Result, Finish, At, TypeInv, TypeOK, Holding, HoldingAt, OrderInv, InlineInv
  <2>2. \A w \in Writes : (Inline(w) <=> w = future[c]) /\ ~Inline(w)'
    BY <1>1, <2>1, Zenon DEF Inline, At
  <2>3. future[c] \in Loose /\ Loose' = Loose \ {future[c]}
    BY <2>1, <2>2 DEF Loose, TypeInv, TypeOK
  <2>4. Requests' = Requests
    BY <1>3, <2>1, OtherRequests, Zenon DEF Request
  <2> QED BY <1>2, <2>1, <2>3, <2>4, Zenon DEF Store!FinishLoose, Store!Outcome
<1>6. arg[c] \in Keys /\ (InlineEnd(c, ok) => future[c] \in Store!Writes)
  BY Zenon DEF InlineEnd, At, TypeInv, TypeOK, Holding, HoldingAt, Writes, Store!Writes
<1> QED BY <1>4, <1>5, <1>6, Zenon DEF Store!Next

\* os.fork parts the child from the backlog.
LEMMA PartStep ==
    ASSUME TypeInv, OrderInv, NEW c \in Callers, NEW mpChild \in BOOLEAN, Fork(c, mpChild)
    PROVE  Store!Part
<1>1. /\ pc[c] = "fork" /\ worker' = "none" /\ state' = Inherited /\ UNCHANGED <<last, keyOf, disk>>
      /\ \A d \in Callers : pc'[d] \in {"idle", "gone"}
  BY Zenon DEF Fork, At
<1>2. ASSUME NEW w \in Writes PROVE ~Inline(w)
  BY <1>1, Zenon DEF Inline, At, OrderInv, InlineInv, ChildInv
<1>3. ASSUME NEW w \in Writes PROVE ~Inline(w)' /\ ~Draining(w)'
  BY <1>1, Zenon DEF Inline, Draining, At
<1>4. ASSUME NEW w \in Writes
      PROVE  /\ state'[w] # "queued"
             /\ state'[w] = "parents" <=> w \in Loose \cup Backlog
  <2>1. state[w] = "running" <=> worker \in Running /\ current = w
    BY <1>2, Zenon DEF OrderInv, RunInv
  <2> QED BY <1>1, <1>2, <2>1, Zenon DEF Inherited, Unfinished, Loose, Backlog, Running
<1>5. Loose' = Loose \cup Backlog
  BY <1>3, <1>4, Zenon DEF Loose, Backlog
<1>6. Backlog' = {} /\ Doomed' = {}
  BY <1>1, <1>4, Zenon DEF Backlog, Doomed
<1>7. Requests' = [d \in Callers |-> Store!Idle]
  BY <1>1, Zenon DEF Requests, Request, Store!Idle
<1> QED BY <1>1, <1>5, <1>6, <1>7, Zenon DEF Store!Part

\* Where no caller moves, only the states of the writes matter.
LEMMA SameCallers ==
    ASSUME UNCHANGED <<keyOf, callVars>>
    PROVE  /\ Requests' = Requests
           /\ \A w \in Writes : (Inline(w)' <=> Inline(w)) /\ (Draining(w)' <=> Draining(w))
<1>1. UNCHANGED <<pc, arg, future, mark>>
  BY Zenon DEF callVars
<1> QED BY <1>1, Zenon DEF Requests, Request, Inline, Draining, At

\* A write the parent still had queued is a loose one.
LEMMA ParentStep ==
    ASSUME TypeInv, OrderInv, NEW w \in Writes, NEW ok \in BOOLEAN, ParentWrite(w, ok)
    PROVE  Store!FinishLoose(w)
<1>1. /\ state[w] = "parents" /\ state' = [state EXCEPT ![w] = "parentDone"]
      /\ disk' = IF ok THEN [disk EXCEPT ![keyOf[w]] = w] ELSE disk
      /\ UNCHANGED <<worker, current, last, keyOf, callVars>>
  BY Zenon DEF ParentWrite, poolVars
<1>2. ~Inline(w)
  BY <1>1, Zenon DEF Inline, At, OrderInv, InlineInv
<1>3. Backlog' = Backlog
  BY <1>1, Zenon DEF Backlog, TypeInv, TypeOK
<1>4. Doomed' = Doomed
  BY <1>1, <1>3, SameCallers, Zenon DEF Doomed, Backlog
<1>5. w \in Loose /\ Loose' = Loose \ {w}
  BY <1>1, <1>2, SameCallers, Zenon DEF Loose, TypeInv, TypeOK
<1> QED BY <1>1, <1>3, <1>4, <1>5, SameCallers, Zenon DEF Store!FinishLoose, Store!Outcome

\* The writer thread finishes the earliest write of a key; taking it, setting
\* its future, its callbacks and retiring are stutters.
LEMMA WorkerStep ==
    ASSUME TypeInv, OrderInv, Worker
    PROVE  Store!Next \/ UNCHANGED Store!vars
<1>1. UNCHANGED <<last, keyOf, callVars>>
  BY Zenon DEF Worker, WorkerGet, WorkerTimeout, WorkerRetire, WorkerRun, WorkerResult, WorkerForget,
               WorkerForgetSize, futVars
<1>2. ASSUME Backlog' = Backlog, Loose' = Loose, disk' = disk PROVE UNCHANGED Store!vars
  <2>1. Doomed' = Doomed
    BY <1>1, <1>2, SameCallers, Zenon DEF Doomed, Backlog
  <2> QED BY <1>1, <1>2, <2>1, SameCallers, Zenon DEF Store!vars
<1>3. ASSUME WorkerTimeout \/ WorkerRetire \/ WorkerForget \/ WorkerForgetSize
      PROVE  UNCHANGED Store!vars
  <2>1. worker # "run" /\ worker' # "run" /\ UNCHANGED <<state, disk>>
    BY <1>3, Zenon DEF WorkerTimeout, WorkerRetire, WorkerForget, WorkerForgetSize, futVars
  <2> QED BY <1>1, <1>2, <2>1, SameCallers, Zenon DEF Backlog, Loose
<1>4. ASSUME WorkerResult PROVE UNCHANGED Store!vars
  <2>1. /\ worker \in {"landed", "raised"} /\ worker' = "callbacks" /\ disk' = disk
        /\ state' = [state EXCEPT ![current] = IF worker = "landed" THEN "ok" ELSE "failed"]
        /\ state[current] = "running" /\ current \in Writes
    BY <1>4, Zenon DEF WorkerResult, Result, OrderInv, RunInv, Running
  <2> QED BY <1>1, <1>2, <2>1, SameCallers, Zenon DEF Backlog, Loose, TypeInv, TypeOK
<1>5. ASSUME WorkerGet PROVE UNCHANGED Store!vars
  <2>1. /\ worker = "get" /\ queue # <<>> /\ disk' = disk /\ Head(queue) = queue[1] /\ 1 \in 1 .. Len(queue)
    BY <1>5 DEF WorkerGet, TypeInv, TypeOK
  <2>2. CASE Head(queue) = Stop
    BY <1>1, <1>2, <1>5, <2>1, <2>2, SameCallers, Zenon DEF WorkerGet, Backlog, Loose
  <2>3. CASE Head(queue) # Stop
    <3>1. Head(queue) \in Writes /\ state[Head(queue)] = "queued"
      BY <2>1, <2>3 DEF OrderInv, QueueInv, TypeInv, TypeOK
    <3>2. worker' = "run" /\ current' = Head(queue) /\ state' = [state EXCEPT ![Head(queue)] = "running"]
      BY <1>5, <2>3, Zenon DEF WorkerGet
    <3> QED BY <1>1, <1>2, <2>1, <3>1, <3>2, SameCallers, Zenon DEF Backlog, Loose, TypeInv, TypeOK
  <2> QED BY <2>2, <2>3, Zenon
<1>6. ASSUME NEW ok \in BOOLEAN, WorkerRun(ok) PROVE Store!Finish(current)
  <2>1. /\ worker = "run" /\ worker' \in {"landed", "raised"} /\ UNCHANGED <<current, state>>
        /\ disk' = IF ok THEN [disk EXCEPT ![keyOf[current]] = current] ELSE disk
        /\ current \in Writes /\ state[current] = "running"
    BY <1>6, Zenon DEF WorkerRun, futVars, OrderInv, RunInv, Running
  <2>2. current \in Backlog /\ Backlog' = Backlog \ {current}
    BY <2>1, Zenon DEF Backlog
  <2>3. Doomed' = Doomed \ {current} /\ Loose' = Loose
    BY <1>1, <2>1, <2>2, SameCallers, Zenon DEF Doomed, Loose, Backlog
  <2>4. ASSUME NEW v \in Backlog PROVE current <= v
    <3>1. v \in Writes /\ Unfinished(v) /\ ~Inline(v)
      BY BacklogOpen, Zenon DEF Open
    <3>2. ~(v < current)
      BY <2>1, <3>1, Zenon DEF OrderInv, Fifo
    <3>3. v \in Int /\ current \in Int
      BY <2>1, <3>1, ConstantsAssumption DEF Writes
    <3> QED BY <3>2, <3>3
  <2> QED BY <1>1, <2>1, <2>2, <2>3, <2>4, SameCallers, Zenon DEF Store!Finish, Store!Outcome
<1>7. ASSUME NEW ok \in BOOLEAN, WorkerRun(ok) PROVE Store!Next
  <2>1. current \in Store!Writes
    BY <1>7, Zenon DEF WorkerRun, OrderInv, RunInv, Running, Writes, Store!Writes
  <2> QED BY <1>6, <1>7, <2>1, Zenon DEF Store!Next
<1> QED BY <1>3, <1>4, <1>5, <1>7, Zenon DEF Worker

\* A new queue is an empty store.
LEMMA StoreInit == Init => Store!Init
<1> SUFFICES ASSUME Init PROVE Store!Init
  OBVIOUS
<1>1. TypeInv
  BY InitType, Zenon
<1>2. Backlog = {} /\ Doomed = {}
  BY Zenon DEF Init, Backlog, Doomed
<1>3. Loose = {}
  BY Zenon DEF Init, Loose, Inline, At
<1>4. Requests = [c \in Callers |-> Store!Idle]
  BY Zenon DEF Init, Requests, Request, Store!Idle
<1>5. keyOf \in [Store!Writes -> Keys] /\ last = 0 /\ disk = [k \in Keys |-> Store!NoWrite]
  BY <1>1, Zenon DEF Init, TypeInv, TypeOK, Store!Writes, Writes, NoWrite, Store!NoWrite
<1> QED BY <1>2, <1>3, <1>4, <1>5, Zenon DEF Store!Init

\* Every step of the queue is a step of the store or a stutter.
LEMMA StoreStep ==
    ASSUME ~ThreadStartMayFail, TypeInv, OrderInv, KnownInv, SettleInv, TypeInv', OrderInv', [Next]_vars
    PROVE  [Store!Next]_(Store!vars)
<1> DEFINE Goal == Store!Next \/ UNCHANGED Store!vars
<1>1. CASE UNCHANGED vars
  <2>1. UNCHANGED <<worker, current, last, state, keyOf, disk, callVars>>
    BY <1>1, Zenon DEF vars, poolVars, futVars
  <2>2. Backlog' = Backlog /\ Loose' = Loose
    BY <2>1, SameCallers, Zenon DEF Backlog, Loose
  <2>3. Doomed' = Doomed
    BY <2>1, <2>2, SameCallers, Zenon DEF Doomed, Backlog
  <2> QED BY <2>1, <2>2, <2>3, SameCallers, Zenon DEF Store!vars
<1>2. CASE Next
  <2>1. /\ UnfinishedIsPending /\ MarkInv
        /\ ReadSeesWrites /\ NoWriteAfterDelete /\ NoWriteAfterClear
    BY SettleImplies, Zenon DEF SettleInv
  <2>2. ASSUME NEW c \in Callers, Unseen(c) PROVE Goal
    BY <1>2, <2>2, UnseenStep, Zenon
  <2>3. ASSUME NEW c \in Callers, Continue(c) PROVE Goal
    <3>1. ~SubmitStartFails(c)
      BY Zenon DEF SubmitStartFails
    <3>2. ASSUME SubmitEnqueue(c) PROVE Goal
      BY <1>2, <3>2, AcceptStep, Zenon
    <3>3. ASSUME InlineBegin(c) \/ \E ok \in BOOLEAN : InlineEnd(c, ok) PROVE Goal
      BY <3>3, InlineStep, Zenon
    <3>4. ASSUME PutSentinel(c) PROVE Goal
      BY <3>4, SentinelStep, Zenon
    <3>5. ASSUME Read(c) \/ Remove(c) \/ Clear(c) PROVE Goal
      BY <1>2, <2>1, <3>5, AnswerStep, Zenon
    <3>6. ASSUME NEW mpChild \in BOOLEAN, Fork(c, mpChild) PROVE Goal
      BY <3>6, PartStep, Zenon DEF Store!Next
    <3> HIDE DEF Goal
    <3> QED BY <2>2, <2>3, <3>1, <3>2, <3>3, <3>4, <3>5, <3>6, Zenon DEF Continue, Unseen
  <2>4. ASSUME NEW c \in Callers, NEW k \in Keys, WaitBegin(c, k) \/ DrainBegin(c, k) \/ ClearBegin(c)
        PROVE  Goal
    BY <1>2, <2>1, <2>4, AskStep, Zenon
  <2>5. ASSUME NEW w \in Writes, NEW ok \in BOOLEAN, ParentWrite(w, ok) PROVE Goal
    BY <2>5, ParentStep, Zenon DEF Store!Next, Writes, Store!Writes
  <2>6. ASSUME Worker PROVE Goal
    BY <2>6, WorkerStep, Zenon
  <2>7. Keys # {}
    BY ConstantsAssumption, Zenon
  <2> HIDE DEF Goal
  <2>8. Goal
    BY <1>2, <2>2, <2>3, <2>4, <2>5, <2>6, <2>7, Zenon DEF Next, Unseen
  <2> QED BY <2>8, Zenon DEF Goal
<1> QED BY <1>1, <1>2, Zenon

\* While writer threads can be started, the write queue with its futures, its
\* retiring thread, the callbacks, the inline writes of a child process and
\* os.fork implements DelayedStore.
THEOREM QueueImplementsStore ==
    ASSUME ~ThreadStartMayFail
    PROVE  Spec => ImplementsStore
<1>1. TypeInv /\ OrderInv /\ OrderInv' /\ SettleInv /\ [Next]_vars => SettleInv'
  BY SettleStep, Zenon
<1>2. TypeInv /\ OrderInv /\ KnownInv /\ SettleInv /\ TypeInv' /\ OrderInv' /\ [Next]_vars
        => [Store!Next]_(Store!vars)
  BY StoreStep, Zenon
<1> QED BY <1>1, <1>2, InitType, TypeStep, OrderInit, OrderStep, SettleInit, KnownInit, KnownStep,
           StoreInit, PTL DEF Spec, ImplementsStore, Store!Spec
=============================================================================
