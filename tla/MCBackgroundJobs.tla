-------------------------- MODULE MCBackgroundJobs --------------------------
(* Small instances of BackgroundJobs for TLC. *)
EXTENDS BackgroundJobs, TLC

CONSTANTS purge, mail, clean, l1, l2, l3, l4, w1, w2

\* Two queues: the purge job in one, an email and the maintenance job in the other.
MCQueueOf == [j \in Jobs |-> IF j = purge THEN 0 ELSE 1]

\* Workers are interchangeable.
Symmetry == Permutations(Workers)
=============================================================================
