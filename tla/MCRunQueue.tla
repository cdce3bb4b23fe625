----------------------------- MODULE MCRunQueue -----------------------------
(* RunQueue on two pages for worker threads and one shared semaphore.      *)
EXTENDS RunQueue, TLC

CONSTANTS w1, w2, sem

MCWorker == {w1, w2}
MCShared == {idle_started, sem}
Symmetry == Permutations(MCWorker)
=============================================================================
