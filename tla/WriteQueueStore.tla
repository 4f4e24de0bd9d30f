-------------------------- MODULE WriteQueueStore ---------------------------
(***************************************************************************)
(* The write queue implements DelayedStore.                                *)
(***************************************************************************)
EXTENDS WriteQueue

\* A write counts as done once it has run; its future is set, and its
\* callers go on, later.
Backlog == {w \in Writes : state[w] = "queued" \/ (worker = "run" /\ w = current)}

Doomed == {w \in Backlog : Draining(w)}

\* Writes of the process before the last fork, and a child's own.
Loose == {w \in Writes : state[w] = "parents" \/ Inline(w)}

Request(c) ==
    IF pc[c] \in {"wait", "read"} THEN [op |-> "read", keys |-> {arg[c]}, mark |-> mark[c]]
    ELSE IF pc[c] \in {"drain", "remove"} THEN [op |-> "remove", keys |-> {arg[c]}, mark |-> mark[c]]
    ELSE IF pc[c] \in {"waitAll", "clear"} THEN [op |-> "clear", keys |-> Keys, mark |-> mark[c]]
    ELSE [op |-> "none", keys |-> {}, mark |-> 0]

Requests == [c \in Callers |-> Request(c)]

Store == INSTANCE DelayedStore WITH
    accepted <- last,
    stored <- disk,
    backlog <- Backlog,
    doomed <- Doomed,
    loose <- Loose,
    request <- Requests

\* The queue, its futures, the retiring writer thread and the callbacks keep
\* the promise of DelayedStore: per key first in, first out, and no get,
\* delete or clear answers before the writes submitted ahead of it are done,
\* unless a delete of the key is already waiting for them.
ImplementsStore == Store!Spec
=============================================================================
