------------------------ MODULE MCConcurrentDequeue -------------------------
(* Small instances of ConcurrentDequeue for TLC.                              *)
EXTENDS ConcurrentDequeue, TLC

\* Threads are interchangeable, and so are elements.
Symmetry == Permutations(Thread) \cup Permutations(Item)

\* max_count below zero, of one element and of more than a full deque.
OddBatchSizes == {-1, 1, 3}
=============================================================================
