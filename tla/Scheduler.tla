----------------------------- MODULE Scheduler -----------------------------
(***************************************************************************)
(* The small-task scheduler of PS4o: PrivateQueue and Scheduler<Job>       *)
(* (scheduler.hpp) driven by the loop of processSmallTasks (parallel.hpp). *)
(* Every thread owns a private queue; a thread that runs dry looks into    *)
(* the shared tbb::concurrent_queue and otherwise counts itself idle; a    *)
(* thread with two or more private tasks gives its oldest one away when    *)
(* somebody is idle.  getJob returns false when the idle counter reaches   *)
(* the number of threads.                                                  *)
(*                                                                         *)
(* One action is one access to shared memory (the atomic idle counter, the *)
(* concurrent queue); the private queue is touched by its owner alone, so  *)
(* its operations ride along.  The counter's relaxed atomics are modelled  *)
(* as sequentially consistent.                                             *)
(***************************************************************************)
EXTENDS Naturals, Sequences, FiniteSets

CONSTANTS
    Thread,     \* threads that run the parallel sort
    NumThreads, \* m_num_threads, from SharedData(.., thread_pool_.numThreads())
    Job,        \* the tasks a sort can create
    Root,       \* those that processBigTasks queues, before getJob is called
    Subtasks,   \* Subtasks[j]: what sequential(j) emplaces, in that order
    NoJob,      \* the Task variable before getJob has filled it
    MaxSorts    \* bound: how often the sorter is used

Children(j) == {Subtasks[j][i] : i \in DOMAIN Subtasks[j]}

ASSUME ThreadAssumption ==
    /\ IsFiniteSet(Thread)
    /\ NumThreads = Cardinality(Thread)

ASSUME JobAssumption ==
    /\ Root \subseteq Job
    /\ NoJob \notin Job
    /\ Subtasks \in [Job -> Seq(Job)]

\* A range is created by one partitioning step, once: tasks form a forest.
ASSUME ForestAssumption ==
    /\ \A j \in Job : Children(j) \cap (Root \cup {j}) = {}
    /\ \A j, k \in Job : j # k => Children(j) \cap Children(k) = {}
    /\ \A j \in Job : \A a, b \in DOMAIN Subtasks[j] :
          Subtasks[j][a] = Subtasks[j][b] => a = b

ASSUME BoundAssumption == MaxSorts \in Nat

VARIABLES
    local,      \* local[t]: t's seq_task_queue, front first
    glob,       \* m_glob_queue
    numIdle,    \* m_num_idle_threads
    pc,         \* where each thread is
    task,       \* the Task each thread holds
    finished,   \* history: tasks processed in this sort
    sorts       \* history: sorts started

vars == <<local, glob, numIdle, pc, task, finished, sorts>>

-----------------------------------------------------------------------------
(* Where a thread can be.                                                  *)

Holding == {"offer", "offerProbe", "offerPush", "process"}
Counted == {"wait", "probe", "unsignal", "done"}
Dry     == Counted \cup {"signal", "retry"}
PC      == Holding \cup Dry \cup {"big", "getJob"}

Held(t)  == IF pc[t] \in Holding THEN {task[t]} ELSE {}
Items(q) == {q[i] : i \in DOMAIN q}
Open     == (UNION {Items(local[t]) \cup Held(t) : t \in Thread}) \cup Items(glob)

Init ==
    /\ local = [t \in Thread |-> <<>>]
    /\ glob = <<>>
    /\ numIdle = 0
    /\ pc = [t \in Thread |-> "big"]
    /\ task = [t \in Thread |-> NoJob]
    /\ finished = {}
    /\ sorts = 1

Goto(t, l) == pc' = [pc EXCEPT ![t] = l]

-----------------------------------------------------------------------------
(* The operations of PrivateQueue and of the idle counter.  The variants   *)
(* (V_...) are plausible mistakes; each breaks a property below.           *)

PopBack(q) == SubSeq(q, 1, Len(q) - 1)

V_PopFrontKeeps(q) == q
PopFront(q) == Tail(q)

Emplace(q, s) == q \o s

\* sequential() emplaces the buckets from right to left, bucket 0 included.
V_SkipsBucket0(q, j) == IF Subtasks[j] = <<>> THEN q ELSE Emplace(q, PopBack(Subtasks[j]))
EmplaceSubtasks(q, j) == Emplace(q, Subtasks[j])

V_KeepIdle == UNCHANGED numIdle
V_DecTwice == numIdle' = numIdle - 2
IncIdle == numIdle' = numIdle + 1
DecIdle == numIdle' = numIdle - 1
Reset   == numIdle' = 0

V_AllButOneIdle == numIdle + 1 >= NumThreads
AllIdle == numIdle = NumThreads

SomeIdle == numIdle > 0

\* try_pop succeeds.
V_OnlyRetryPops(t) == pc[t] = "retry" /\ glob # <<>>
CanPop(t) == glob # <<>>

-----------------------------------------------------------------------------
(* processBigTasks, seen from here: until a thread leaves it, a primary's  *)
(* queueTasks may put tasks on the thread's private queue.                 *)

InBigTasks(t) == pc[t] = "big"

QueueTask(t, j) ==
    /\ InBigTasks(t)
    /\ j \in Root \ (Open \cup finished)
    /\ local' = [local EXCEPT ![t] = Emplace(@, <<j>>)]
    /\ UNCHANGED <<glob, numIdle, pc, task, finished, sorts>>

EnterSmallTasks(t) ==
    /\ pc[t] = "big"
    /\ Goto(t, "getJob")
    /\ UNCHANGED <<local, glob, numIdle, task, finished, sorts>>

-----------------------------------------------------------------------------
(* getJob                                                                  *)

Take(t, j) ==
    /\ task' = [task EXCEPT ![t] = j]
    /\ Goto(t, "offer")

\* my_queue.popBack(): the newest private task.
PopLocal(t) ==
    /\ pc[t] = "getJob"
    /\ local[t] # <<>>
    /\ Take(t, local[t][Len(local[t])])
    /\ local' = [local EXCEPT ![t] = PopBack(@)]
    /\ UNCHANGED <<glob, numIdle, finished, sorts>>

\* m_glob_queue.try_pop(j), at both of its calls in getJob.
TryPop(t) ==
    /\ \/ pc[t] = "getJob" /\ local[t] = <<>>
       \/ pc[t] = "retry"
    /\ IF CanPop(t)
         THEN Take(t, Head(glob)) /\ glob' = Tail(glob)
         ELSE Goto(t, "signal") /\ UNCHANGED <<glob, task>>
    /\ UNCHANGED <<local, numIdle, finished, sorts>>

SignalIdle(t) ==
    /\ pc[t] = "signal"
    /\ IncIdle
    /\ Goto(t, "wait")
    /\ UNCHANGED <<local, glob, task, finished, sorts>>

\* The test of the while loop; its exit is "return false".
LoadIdle(t) ==
    /\ pc[t] = "wait"
    /\ Goto(t, IF AllIdle THEN "done" ELSE "probe")
    /\ UNCHANGED <<local, glob, numIdle, task, finished, sorts>>

ProbeGlobal(t) ==
    /\ pc[t] = "probe"
    /\ Goto(t, IF glob = <<>> THEN "wait" ELSE "unsignal")
    /\ UNCHANGED <<local, glob, numIdle, task, finished, sorts>>

UnsignalIdle(t) ==
    /\ pc[t] = "unsignal"
    /\ DecIdle
    /\ Goto(t, "retry")
    /\ UNCHANGED <<local, glob, task, finished, sorts>>

-----------------------------------------------------------------------------
(* offerJob: three reads and a push, each a separate step.                 *)

OfferLoadIdle(t) ==
    /\ pc[t] = "offer"
    /\ Goto(t, IF Len(local[t]) > 1 /\ SomeIdle THEN "offerProbe" ELSE "process")
    /\ UNCHANGED <<local, glob, numIdle, task, finished, sorts>>

OfferProbe(t) ==
    /\ pc[t] = "offerProbe"
    /\ Goto(t, IF glob = <<>> THEN "offerPush" ELSE "process")
    /\ UNCHANGED <<local, glob, numIdle, task, finished, sorts>>

\* addJob(my_queue.popFront()): the oldest private task.
OfferPush(t) ==
    /\ pc[t] = "offerPush"
    /\ glob' = Append(glob, Head(local[t]))
    /\ local' = [local EXCEPT ![t] = PopFront(@)]
    /\ Goto(t, "process")
    /\ UNCHANGED <<numIdle, task, finished, sorts>>

\* sequential(..., task, my_queue, ...): partition the task, keep its subtasks.
Process(t) ==
    /\ pc[t] = "process"
    /\ local' = [local EXCEPT ![t] = EmplaceSubtasks(@, task[t])]
    /\ finished' = finished \cup {task[t]}
    /\ task' = [task EXCEPT ![t] = NoJob]
    /\ Goto(t, "getJob")
    /\ UNCHANGED <<glob, numIdle, sorts>>

-----------------------------------------------------------------------------
(* The next sort(): all threads have returned to the pool; the primary     *)
(* calls shared_->reset() before the barrier that lets anyone reach        *)
(* processBigTasks, so nobody sees the counter in between.                 *)

NewSort ==
    /\ \A t \in Thread : pc[t] = "done"
    /\ sorts < MaxSorts
    /\ sorts' = sorts + 1
    /\ Reset
    /\ pc' = [t \in Thread |-> "big"]
    /\ finished' = {}
    /\ UNCHANGED <<local, glob, task>>

\* The sorter is not used again.
Terminated ==
    /\ \A t \in Thread : pc[t] = "done"
    /\ sorts = MaxSorts
    /\ UNCHANGED vars

Step(t) ==
    \/ PopLocal(t)   \/ TryPop(t)      \/ SignalIdle(t)
    \/ LoadIdle(t)   \/ ProbeGlobal(t) \/ UnsignalIdle(t)
    \/ OfferLoadIdle(t) \/ OfferProbe(t) \/ OfferPush(t)
    \/ Process(t)    \/ EnterSmallTasks(t)

Next ==
    \/ \E t \in Thread : Step(t)
    \/ \E t \in Thread, j \in Root : QueueTask(t, j)
    \/ NewSort
    \/ Terminated

Spec == Init /\ [][Next]_vars

(* Each thread is run by the operating system again and again, and leaves  *)
(* processBigTasks (BigTasks.tla shows that it can).  Nothing forces a new *)
(* sort or a task.                                                         *)
FairSpec == Spec /\ \A t \in Thread : WF_vars(Step(t))
-----------------------------------------------------------------------------
TypeOK ==
    /\ local \in [Thread -> Seq(Job)]
    /\ glob \in Seq(Job)
    /\ numIdle \in Nat
    /\ pc \in [Thread -> PC]
    /\ task \in [Thread -> Job \cup {NoJob}]
    /\ \A t \in Thread : pc[t] \in Holding => task[t] \in Job
    /\ finished \subseteq Job
    /\ sorts \in Nat

(* m_num_idle_threads is exactly the number of threads that are between    *)
(* their fetch_add and their fetch_sub, or have left getJob with false: a  *)
(* thread that retries is uncounted while it may hold a job.               *)
IdleCount == numIdle = Cardinality({t \in Thread : pc[t] \in Counted})

(* A thread that failed its try_pop has no private task, so counting it    *)
(* idle hides no work: tasks are pushed on a private queue by its owner.   *)
DryIsDry == \A t \in Thread : pc[t] \in Dry => local[t] = <<>>

(* What is in the global queue is never forgotten: whoever pushed it, or   *)
(* somebody else, still has to fail a try_pop before going idle.           *)
GlobalWatched ==
    glob # <<>> => \E t \in Thread : pc[t] \in Holding \cup {"getJob"}

(* No task is forgotten: not in an idle thread's private queue, not in the *)
(* global queue with everybody else on the way out.                        *)
NoTaskForgotten == DryIsDry /\ GlobalWatched

(* getJob answers false only when no task is queued or held anywhere and   *)
(* every thread has come to the scheduler, so that none will appear.       *)
NoWorkAtExit ==
    (\E t \in Thread : pc[t] = "done") =>
        /\ \A t \in Thread : pc[t] \in Dry
        /\ Open = {}

(* popBack, popFront, the concurrent queue and emplace never duplicate a   *)
(* task: each open one is in one place, and none that was processed.       *)
NoRepeat(q) == \A a, b \in DOMAIN q : q[a] = q[b] => a = b
OneOwner ==
    /\ NoRepeat(glob)
    /\ \A t \in Thread :
          /\ NoRepeat(local[t])
          /\ Items(local[t]) \cap (Held(t) \cup Items(glob)) = {}
          /\ Held(t) \cap Items(glob) = {}
          /\ \A u \in Thread \ {t} :
                (Items(local[t]) \cup Held(t)) \cap (Items(local[u]) \cup Held(u)) = {}
    /\ Open \cap finished = {}

(* The scheduler implements the pool of jobs.                              *)
Pool == INSTANCE JobPool WITH
    open <- Open,
    closed <- finished,
    inside <- {t \in Thread : pc[t] # "big"},
    released <- {t \in Thread : pc[t] = "done"}
ImplementsPool == Pool!Spec

(* Every getJob loop comes to an end: no thread spins for ever on a        *)
(* counter that misses somebody, even when others signal, unsignal and     *)
(* retry around it, and also when the sorter is used again.                *)
EverySortEnds == \A t \in Thread : pc[t] = "getJob" ~> pc[t] = "done"
=============================================================================
