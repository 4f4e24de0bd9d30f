---------------------------- MODULE DelayedStore ----------------------------
(***************************************************************************)
(* What the write queue promises a backend: a store whose writes land      *)
(* later, those of one key in the order they were accepted, and whose      *)
(* reads, removals and clears come after the writes accepted before them.  *)
(* No queue, futures, writer thread or callbacks.                          *)
(***************************************************************************)
EXTENDS Integers

CONSTANTS Callers, Keys, MaxWrites

NoWrite == 0
Writes == 1 .. MaxWrites

VARIABLES
    accepted,   \* the last write accepted
    keyOf,      \* key of a write
    stored,     \* the write whose value each key holds
    backlog,    \* the writes accepted that have not landed or failed
    doomed,     \* those a removal of their key is waiting for
    loose,      \* writes under way outside the queue, bound to no order
    request     \* what each caller asks for

vars == <<accepted, keyOf, stored, backlog, doomed, loose, request>>

Idle == [op |-> "none", keys |-> {}, mark |-> 0]

Init ==
    /\ accepted = 0
    /\ keyOf \in [Writes -> Keys]
    /\ stored = [k \in Keys |-> NoWrite]
    /\ backlog = {} /\ doomed = {} /\ loose = {}
    /\ request = [c \in Callers |-> Idle]

NewWrite(k) ==
    /\ accepted < MaxWrites
    /\ accepted' = accepted + 1
    /\ keyOf' = [keyOf EXCEPT ![accepted + 1] = k]
    /\ UNCHANGED <<stored, doomed, request>>

Accept(k) == NewWrite(k) /\ backlog' = backlog \cup {accepted + 1} /\ UNCHANGED loose

\* A write whose caller does it itself.
AcceptLoose(k) == NewWrite(k) /\ loose' = loose \cup {accepted + 1} /\ UNCHANGED backlog

\* A write that is done has its value under its key, or has failed.
Outcome(w) == stored' \in {stored, [stored EXCEPT ![keyOf[w]] = w]}

\* Among the writes of a key, the earliest accepted is done first.
Finish(w) ==
    /\ w \in backlog
    /\ \A v \in backlog : keyOf[v] = keyOf[w] => w <= v
    /\ Outcome(w)
    /\ backlog' = backlog \ {w}
    /\ doomed' = doomed \ {w}
    /\ UNCHANGED <<accepted, keyOf, loose, request>>

FinishLoose(w) ==
    /\ w \in loose
    /\ Outcome(w)
    /\ loose' = loose \ {w}
    /\ UNCHANGED <<accepted, keyOf, backlog, doomed, request>>

\* A removal dooms what the key has in the backlog.
Ask(c, op, keys) ==
    /\ request[c] = Idle
    /\ request' = [request EXCEPT ![c] = [op |-> op, keys |-> keys, mark |-> accepted]]
    /\ doomed' = IF op = "remove" THEN doomed \cup {w \in backlog : keyOf[w] \in keys} ELSE doomed
    /\ UNCHANGED <<accepted, keyOf, stored, backlog, loose>>

\* Every write a caller must come after is done, or doomed.
Ready(c) ==
    \A w \in backlog \ doomed : ~(w <= request[c].mark /\ keyOf[w] \in request[c].keys)

\* A read answers with what is stored, a removal or a clear takes it away.
Answer(c) ==
    /\ request[c] # Idle
    /\ Ready(c)
    /\ stored' = [k \in Keys |-> IF request[c].op # "read" /\ k \in request[c].keys
                                   THEN NoWrite ELSE stored[k]]
    /\ request' = [request EXCEPT ![c] = Idle]
    /\ UNCHANGED <<accepted, keyOf, backlog, doomed, loose>>

\* A fork: the backlog stays with the parent, which the child does not order.
Part ==
    /\ loose' = loose \cup backlog
    /\ backlog' = {} /\ doomed' = {}
    /\ request' = [c \in Callers |-> Idle]
    /\ UNCHANGED <<accepted, keyOf, stored>>

Next ==
    \/ \E k \in Keys : Accept(k) \/ AcceptLoose(k)
    \/ \E w \in Writes : Finish(w) \/ FinishLoose(w)
    \/ \E c \in Callers :
         \/ \E k \in Keys : Ask(c, "read", {k}) \/ Ask(c, "remove", {k})
         \/ Ask(c, "clear", Keys)
         \/ Answer(c)
    \/ Part

Spec == Init /\ [][Next]_vars
=============================================================================
