----------------------------- MODULE MCEntryFile -----------------------------
(* Instances of EntryFile for TLC.                                         *)
EXTENDS EntryFile, TLC

CONSTANTS p1, p2, b1, b2, c1, c2, w1, w2, f1

\* One backend in one process.
OneProcess == b1 :> p1
\* A backend in each of two processes.
TwoProcesses == b1 :> p1 @@ b2 :> p2
\* Two backends of one process.
TwoBackends == b1 :> p1 @@ b2 :> p1

\* A caller and a writer on each of two backends.
OnTwo == c1 :> b1 @@ c2 :> b2 @@ w1 :> b1 @@ w2 :> b2
\* One caller and a flusher on one backend.
OnFlushed == c1 :> b1 @@ w1 :> b1 @@ f1 :> b1
=============================================================================
