---------------------------- MODULE MCScheduler ----------------------------
(* Three threads, two tasks queued by the parallel partitioning, one of    *)
(* which splits twice: up to three tasks wait on one private queue.        *)
EXTENDS Scheduler

MCJob == 1 .. 6
MCRoot == {1, 2}
MCSubtasks == [j \in MCJob |-> IF j = 1 THEN <<3, 4>> ELSE IF j = 3 THEN <<5, 6>> ELSE <<>>]
=============================================================================
