------------------------------ MODULE BigTasks ------------------------------
(***************************************************************************)
(* How the parallel sort (parallel.hpp) splits its threads into groups.    *)
(* After the first partitioning step thread 0 queues the buckets: a bucket *)
(* that spans the stripes of two threads or more becomes a big task, with  *)
(* a BigTask entry for each of its threads and a ThreadJoiningThreadPool   *)
(* in the slot of its first thread; a smaller one goes to the private      *)
(* queue of one thread.  The threads of a big task meet in its pool,       *)
(* partition it, and its root queues the buckets in the same way, until    *)
(* every thread has no big task left and goes on to processSmallTasks.     *)
(*                                                                         *)
(* big_tasks, thread_pools and the private queues are plain shared memory. *)
(* What makes them safe is the three meetings of each pool_barrier_, which *)
(* are counted here as Rendezvous allows: the k-th is over when all n      *)
(* members have come k times.                                              *)
(***************************************************************************)
EXTENDS Integers, Sequences, FiniteSets, TaskRanges

CONSTANTS
    T,              \* number of threads
    Size,           \* number of elements of the input
    BaseCase,       \* 2 * kBaseCaseSize: no task for a bucket this small
    SingleLevel,    \* kSingleLevelThreshold: buckets of such a task are sorted
    MaxBuckets      \* bound: buckets of a step that are left to sort

ASSUME SizeAssumption ==
    /\ T \in Nat /\ T > 1
    /\ Size \in Nat /\ Size >= T
    /\ BaseCase \in Nat \ {0} /\ SingleLevel \in Nat /\ MaxBuckets \in Nat

Id == 0 .. T - 1
stripe == Stripe(Size, T)
TaskRange == [begin : 0 .. Size, end : 0 .. Size]

(* A pool is named by the range of the task it was made for; a range is    *)
(* the task of at most one.  The empty range stands for a null pointer.    *)
NoPool == [begin |-> 0, end |-> 0]

VARIABLES
    big,        \* shared_->big_tasks
    slot,       \* shared_->thread_pools
    pools,      \* the pools made so far: [n, arrived, done]
    mine,       \* mine[t]: the partial_thread_pool t holds
    calls,      \* calls[t]: how often t has come to mine[t]'s barrier
    asRoot,     \* asRoot[t]: t entered processBigTaskPrimary for mine[t]
    pc,         \* pc[t]: where thread t is
    queued      \* queued[t]: ranges emplaced on t's seq_task_queue

vars == <<big, slot, pools, mine, calls, asRoot, pc, queued>>

PC == {"partition", "barrier", "loop", "start", "inStart", "func", "inEnd",
       "queue", "release", "inRelease", "small"}

NoTask == [has |-> FALSE, begin |-> 0, end |-> 0, root |-> 0, tid |-> 0]

Init ==
    /\ big = [t \in Id |-> NoTask]
    /\ slot = [t \in Id |-> NoPool]
    /\ pools = [p \in {} |-> [n |-> 0, arrived |-> 0, done |-> FALSE]]
    /\ mine = [t \in Id |-> NoPool]
    /\ calls = [t \in Id |-> 0]
    /\ asRoot = [t \in Id |-> FALSE]
    /\ pc = [t \in Id |-> IF t = 0 THEN "partition" ELSE "barrier"]
    /\ queued = [t \in Id |-> {}]

Goto(t, l) == pc' = [pc EXCEPT ![t] = l]
Pool(t) == pools[mine[t]]

-----------------------------------------------------------------------------
(* What a partitioning step of a task of n elements can leave to do: the   *)
(* non-equality buckets larger than the base case, as disjoint ranges      *)
(* relative to the task.  A bucket is smaller than its task, because the   *)
(* splitters are elements of the task.                                     *)
BucketRange(n) == {r \in [begin : 0 .. n, end : 0 .. n] :
                BaseCase < r.end - r.begin /\ r.end - r.begin < n}

Apart(r, s) == r.end <= s.begin \/ s.end <= r.begin
Disjoint(rs) == \A r, s \in rs : r # s => Apart(r, s)

Buckets(n) ==
    IF n <= SingleLevel
      THEN {{}}
      ELSE {{}} \cup {rs \in {{f[i] : i \in DOMAIN f} : f \in [1 .. MaxBuckets -> BucketRange(n)]} :
                         Disjoint(rs)}

First(offset, r) == ThreadAt(offset + r.begin, stripe)
Last(offset, r)  == ThreadAt(offset + r.end, stripe)

\* Bucket boundaries are relative to the task, tasks to the whole input.
V_Relative(offset, r) == r
Absolute(offset, r) == [begin |-> offset + r.begin, end |-> offset + r.end]

IsBig(offset, r) == Last(offset, r) - First(offset, r) > 1

(* The buckets are queued from right to left, so the entry written last,   *)
(* if two buckets shared a thread, is that of the leftmost one.            *)
Leftmost(rs) == CHOOSE r \in rs : \A s \in rs : r.begin <= s.begin

(* The entries of the group are cleared first.                             *)
V_NoClear(t) == big[t]
Cleared(t) == [big[t] EXCEPT !.has = FALSE]

(* queueTasks(stripe, id, n, ..): the new big_tasks, thread_pools, pools   *)
(* and private queues, for the buckets rs of a task of parentSize elements *)
(* at offset; the slot of the root has been emptied before.                *)
Covers(offset, rs, t) ==
    {r \in rs : IsBig(offset, r) /\ t \in First(offset, r) .. Last(offset, r) - 1}
RootedAt(offset, rs, t) == {r \in rs : IsBig(offset, r) /\ First(offset, r) = t}
Entry(offset, r, t) ==
    [has   |-> TRUE,
     begin |-> Absolute(offset, r).begin,
     end   |-> Absolute(offset, r).end,
     root  |-> First(offset, r),
     tid   |-> t - First(offset, r)]

NewPools(offset, rs) == {Absolute(offset, r) : r \in {x \in rs : IsBig(offset, x)}}
NewPool(p) ==
    [n |-> ThreadAt(p.end, stripe) - ThreadAt(p.begin, stripe), arrived |-> 0, done |-> FALSE]

Owner(id, n, parentSize, r) == id + OwnerAt(r.begin, r.end, Stripe(parentSize, n))
SmallFor(id, n, parentSize, offset, rs, t) ==
    {Absolute(offset, r) :
        r \in {x \in rs : ~IsBig(offset, x) /\ Owner(id, n, parentSize, x) = t}}

QueueTasks(id, n, parentSize, offset, rs, emptied) ==
    /\ big' = [t \in Id |->
                  IF Covers(offset, rs, t) # {}
                    THEN Entry(offset, Leftmost(Covers(offset, rs, t)), t)
                    ELSE IF t \in id .. id + n - 1 THEN Cleared(t) ELSE big[t]]
    /\ slot' = [t \in Id |->
                  IF RootedAt(offset, rs, t) # {}
                    THEN Absolute(offset, Leftmost(RootedAt(offset, rs, t)))
                    ELSE emptied[t]]
    /\ pools' = [p \in DOMAIN pools \cup NewPools(offset, rs) |->
                  IF p \in NewPools(offset, rs) THEN NewPool(p) ELSE pools[p]]
    /\ queued' = [t \in Id |->
                  queued[t] \cup SmallFor(id, n, parentSize, offset, rs, t)]

-----------------------------------------------------------------------------
(* parallelSortPrimary and parallelSortSecondary                           *)

QueueTop ==
    /\ pc[0] = "partition"
    /\ \E rs \in Buckets(Size) : QueueTasks(0, T, Size, 0, rs, slot)
    /\ Goto(0, "barrier")
    /\ UNCHANGED <<mine, calls, asRoot>>

V_NoTopBarrier == TRUE
TopBarrier == pc[0] # "partition"

PassTopBarrier(t) ==
    /\ pc[t] = "barrier"
    /\ TopBarrier
    /\ Goto(t, "loop")
    /\ UNCHANGED <<big, slot, pools, mine, calls, asRoot, queued>>

-----------------------------------------------------------------------------
(* processBigTasks: the root and the others take the pool of the task.     *)

TakePool(t) ==
    /\ pc[t] = "loop"
    /\ big[t].has
    /\ mine' = [mine EXCEPT ![t] = slot[big[t].root]]
    /\ calls' = [calls EXCEPT ![t] = 0]
    /\ asRoot' = [asRoot EXCEPT ![t] = big[t].root = t]
    /\ Goto(t, "start")
    /\ UNCHANGED <<big, slot, pools, queued>>

NoBigTask(t) ==
    /\ pc[t] = "loop"
    /\ ~big[t].has
    /\ Goto(t, "small")
    /\ UNCHANGED <<big, slot, pools, mine, calls, asRoot, queued>>

-----------------------------------------------------------------------------
(* ThreadJoiningThreadPool: the root is in run() and release_threads(),    *)
(* the others in join(); all meet at pool_barrier_.  What a thread does up *)
(* to its next call of barrier(), that call included, is one action.       *)

\* t comes to the barrier; d is the value of done_ from now on.
Come(t, d) ==
    /\ calls' = [calls EXCEPT ![t] = @ + 1]
    /\ pools' = [pools EXCEPT ![mine[t]].arrived = @ + 1, ![mine[t]].done = d]

MeetingOver(t) == Pool(t).arrived >= calls[t] * Pool(t).n

ComeStart(t) ==
    /\ pc[t] = "start"
    /\ Come(t, Pool(t).done)
    /\ Goto(t, "inStart")
    /\ UNCHANGED <<big, slot, mine, asRoot, queued>>

\* if (done_) break;
LeaveStart(t) ==
    /\ pc[t] = "inStart"
    /\ MeetingOver(t)
    /\ IF Pool(t).done
         THEN Goto(t, "loop") /\ mine' = [mine EXCEPT ![t] = NoPool]
         ELSE Goto(t, "func") /\ UNCHANGED mine
    /\ UNCHANGED <<big, slot, pools, calls, asRoot, queued>>

\* func_: the thread's part of the partitioning of the task.
Func(t) ==
    /\ pc[t] = "func"
    /\ Come(t, Pool(t).done)
    /\ Goto(t, "inEnd")
    /\ UNCHANGED <<big, slot, mine, asRoot, queued>>

\* run() returns to the root; the others go round the loop of main().
V_RootGoesOn(t) == asRoot[t] \/ MeetingOver(t)
EndOver(t) == MeetingOver(t)

LeaveEnd(t) ==
    /\ pc[t] = "inEnd"
    /\ EndOver(t)
    /\ IF asRoot[t]
         THEN Goto(t, "queue") /\ UNCHANGED <<calls, pools>>
         ELSE Goto(t, "inStart") /\ Come(t, Pool(t).done)
    /\ UNCHANGED <<big, slot, mine, asRoot, queued>>

V_KeepSlot(t) == slot
EmptySlot(t) == [slot EXCEPT ![t] = NoPool]

\* The root's pool moves to tp_trash, and the buckets are queued.
Queue(t) ==
    /\ pc[t] = "queue"
    /\ \E rs \in Buckets(big[t].end - big[t].begin) :
          QueueTasks(t, Pool(t).n, big[t].end - big[t].begin, big[t].begin, rs,
                     EmptySlot(t))
    /\ Goto(t, "release")
    /\ UNCHANGED <<mine, calls, asRoot>>

\* release_threads()
ComeRelease(t) == Come(t, TRUE)

Release(t) ==
    /\ pc[t] = "release"
    /\ ComeRelease(t)
    /\ Goto(t, "inRelease")
    /\ UNCHANGED <<big, slot, mine, asRoot, queued>>

LeaveRelease(t) ==
    /\ pc[t] = "inRelease"
    /\ MeetingOver(t)
    /\ mine' = [mine EXCEPT ![t] = NoPool]
    /\ Goto(t, "loop")
    /\ UNCHANGED <<big, slot, pools, calls, asRoot, queued>>

Terminated ==
    /\ \A t \in Id : pc[t] = "small"
    /\ UNCHANGED vars

Step(t) ==
    \/ PassTopBarrier(t) \/ TakePool(t) \/ NoBigTask(t)
    \/ ComeStart(t) \/ LeaveStart(t) \/ Func(t) \/ LeaveEnd(t)
    \/ Queue(t) \/ Release(t) \/ LeaveRelease(t)

Next ==
    \/ QueueTop
    \/ \E t \in Id : Step(t)
    \/ Terminated

Spec == Init /\ [][Next]_vars

(* The threads keep running and every partitioning step terminates.        *)
FairSpec == Spec /\ WF_vars(QueueTop) /\ \A t \in Id : WF_vars(Step(t))

-----------------------------------------------------------------------------
TypeOK ==
    /\ big \in [Id -> [has : BOOLEAN, begin : 0 .. Size, end : 0 .. Size, root : Id, tid : Id]]
    /\ DOMAIN pools \subseteq TaskRange
    /\ slot \in [Id -> DOMAIN pools \cup {NoPool}]
    /\ \A p \in DOMAIN pools :
          pools[p] \in [n : 2 .. T, arrived : 0 .. 3 * T, done : BOOLEAN]
    /\ mine \in [Id -> DOMAIN pools \cup {NoPool}]
    /\ calls \in [Id -> 0 .. 3]
    /\ asRoot \in [Id -> BOOLEAN]
    /\ pc \in [Id -> PC]
    /\ queued \in [Id -> SUBSET TaskRange]

Members(root) == {u \in Id : big[u].has /\ big[u].root = root}

(* A thread that looks for its task finds its group complete: the members  *)
(* are consecutive threads, numbered from the root, that agree on the      *)
(* range, and the slot of the root still holds a pool made for just as     *)
(* many threads, which is not done.                                        *)
GroupComplete ==
    \A t \in Id : pc[t] = "loop" /\ big[t].has =>
        LET root == big[t].root
            p == slot[root]
        IN  /\ p # NoPool /\ ~pools[p].done
            /\ Members(root) = root .. root + pools[p].n - 1
            /\ big[t].tid = t - root
            /\ big[t].begin = big[root].begin /\ big[t].end = big[root].end

(* While a root rewrites the entries, the slots and the private queues of  *)
(* its group, every other member is held between its part of the task and  *)
(* the meeting that only release_threads completes.                        *)
RootQueuesAlone ==
    \A t \in Id : pc[t] = "queue" =>
        \A u \in (t + 1) .. (t + Pool(t).n - 1) :
            /\ mine[u] = mine[t]
            /\ pc[u] \in {"inEnd", "inStart"}

(* A thread in func_ works on the range its root's entry names: the entry  *)
(* is read through a reference, by all members, while they work.           *)
FuncReadsItsTask ==
    \A t \in Id : pc[t] = "func" =>
        /\ big[t].has
        /\ mine[big[t].root] = mine[t]
        /\ slot[big[t].root] = mine[t]
        /\ big[big[t].root].begin = big[t].begin
        /\ big[big[t].root].end = big[t].end

(* What the threads of a group read without a lock holds still: the two    *)
(* together, for the root that writes and for the members that read.       *)
GroupDataStable == RootQueuesAlone /\ FuncReadsItsTask

(* A task is put on a thread's private queue by another thread only while  *)
(* that thread is held in a barrier: never once it schedules small tasks.  *)
QueueOfHeldThread ==
    [][\A t \in Id : queued'[t] # queued[t] =>
          pc[t] \in {"partition", "barrier", "queue", "inEnd", "inStart"}]_vars

(* When all threads have gone on, every pool was released after its three  *)
(* meetings (~Impl asserts done_), and no slot holds a forgotten task.     *)
AllPoolsDone ==
    (\A t \in Id : pc[t] = "small") =>
        /\ \A p \in DOMAIN pools : pools[p].done /\ pools[p].arrived = 3 * pools[p].n
        /\ \A t \in Id : slot[t] = NoPool

(* Ranges on private queues never overlap: no element is sorted by two     *)
(* threads.                                                                *)
QueuedDisjoint ==
    /\ Disjoint(UNION {queued[t] : t \in Id})
    /\ \A t, u \in Id : t # u => queued[t] \cap queued[u] = {}

(* No pool waits for a member that waits elsewhere.                        *)
AllReachSmallTasks == <>(\A t \in Id : pc[t] = "small")
=============================================================================
