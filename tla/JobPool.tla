------------------------------ MODULE JobPool ------------------------------
(***************************************************************************)
(* What Scheduler<Job> (scheduler.hpp) promises to processSmallTasks: a    *)
(* pool of open jobs in which finishing a job may open others, and a       *)
(* getJob that answers "no more work" to a thread only when every thread   *)
(* has come to the scheduler and no job is open anywhere.  Where the jobs  *)
(* are (private queues, global queue, a thread's hands) and how idleness   *)
(* is counted is left to the implementation.                               *)
(***************************************************************************)
CONSTANTS
    Thread,     \* the threads of the parallel sort
    Job,        \* every sequential task a sort may create
    Subtasks    \* Subtasks[j]: the tasks that partitioning j creates

VARIABLES
    open,       \* jobs created and not finished
    closed,     \* jobs finished in this sort
    inside,     \* threads that have called getJob in this sort
    released    \* threads to which getJob has returned false

vars == <<open, closed, inside, released>>

Init ==
    /\ open = {}
    /\ closed = {}
    /\ inside = {}
    /\ released = {}

\* Before all threads have come, a partitioning step hands a task to the pool.
Create(j) ==
    /\ inside # Thread
    /\ j \notin open \cup closed
    /\ open' = open \cup {j}
    /\ UNCHANGED <<closed, inside, released>>

Arrive(t) ==
    /\ t \notin inside
    /\ inside' = inside \cup {t}
    /\ UNCHANGED <<open, closed, released>>

\* A job is finished once, and opens its subtasks in the same step.
Finish(j) ==
    /\ inside \ released # {}
    /\ j \in open
    /\ open' = (open \ {j}) \cup {Subtasks[j][i] : i \in DOMAIN Subtasks[j]}
    /\ closed' = closed \cup {j}
    /\ UNCHANGED <<inside, released>>

\* The promise: nobody is sent away while a job is open or may still appear.
Release(t) ==
    /\ inside = Thread
    /\ open = {}
    /\ t \notin released
    /\ released' = released \cup {t}
    /\ UNCHANGED <<open, closed, inside>>

\* The sorter is reused for another sort.
Restart ==
    /\ released = Thread
    /\ closed' = {}
    /\ inside' = {}
    /\ released' = {}
    /\ UNCHANGED open

Next ==
    \/ \E j \in Job : Create(j) \/ Finish(j)
    \/ \E t \in Thread : Arrive(t) \/ Release(t)
    \/ Restart

Spec == Init /\ [][Next]_vars
=============================================================================
