---------------------------- MODULE InPlaceTasks ----------------------------
(***************************************************************************)
(* The driver of IPS4o (ips4o/parallel.hpp): all threads partition the big *)
(* tasks together, one after the other, and then share out the small tasks *)
(* by an atomic index.  The stack of big tasks is a plain vector that the  *)
(* primary thread, 0, changes and all threads read; the barriers around    *)
(* and inside the partitioning step are all that keeps them in step.       *)
(*                                                                         *)
(* A partitioning step (InPlacePartition) is one action that all threads   *)
(* take together, with any outcome its progress allows.  Places count from *)
(* 0; a task is a record of its first place and the one behind its last.   *)
(***************************************************************************)
EXTENDS Integers, Sequences, SequencesExt, FiniteSets

CONSTANTS
    NumThreads,             \* of the thread pool
    NumBuckets,             \* of every partitioning step, a power of two
    kBlockSize, kMinParallelBlocksPerThread, kBaseCaseSize, kSingleLevelThreshold,
    Sizes,                  \* the sizes of the arrays that are sorted
    MaxSorts                \* bound: how often the sorter is used

ASSUME TasksAssumption ==
    /\ NumThreads \in Nat \ {0, 1}
    /\ NumBuckets \in Nat \ {0, 1} /\ NumBuckets % 2 = 0
    /\ kBlockSize \in Nat \ {0} /\ kMinParallelBlocksPerThread \in Nat \ {0}
    /\ kBaseCaseSize \in Nat \ {0} /\ kSingleLevelThreshold \in Nat
    /\ Sizes \subseteq Nat \ {0} /\ MaxSorts \in Nat

VARIABLES
    n,              \* end - begin of the sort that runs
    sorts,          \* uses of the sorter so far
    bigTasks, smallTasks,
    smallTaskIndex,
    outcome,        \* what partition returned: [start, equal], start = bucket_start
    task,           \* task[t]: the big task thread t has read
    index,          \* index[t]: my_index
    final,          \* final[p]: how often place p was brought into order (2: or more)
    pc

vars == <<n, sorts, bigTasks, smallTasks, smallTaskIndex, outcome, task, index, final, pc>>

Thread == 0 .. NumThreads - 1
Bucket == 0 .. NumBuckets - 1
Size(k) == k.end - k.begin
Places(k) == k.begin .. k.end - 1
NoTask == [begin |-> 0, end |-> 0]
NoOutcome == [start |-> [b \in 0 .. NumBuckets |-> 0], equal |-> FALSE]

Ordered(P) == [p \in DOMAIN final |-> IF p \in P THEN IF final[p] = 0 THEN 1 ELSE 2 ELSE final[p]]
Goto(t, l) == pc' = [pc EXCEPT ![t] = l]

Init ==
    /\ n = 0 /\ sorts = 0
    /\ bigTasks = <<>> /\ smallTasks = <<>> /\ smallTaskIndex = 0
    /\ outcome = NoOutcome
    /\ task = [t \in Thread |-> NoTask]
    /\ index = [t \in Thread |-> 0]
    /\ final = <<>>
    /\ pc = [t \in Thread |-> "idle"]
-----------------------------------------------------------------------------
(* ParallelSorter::operator() *)

\* numThreadsFor gives all threads or one.
InParallel(size) == size \div kBlockSize >= kMinParallelBlocksPerThread * NumThreads

Sort(size) ==
    /\ \A t \in Thread : pc[t] = "idle"
    /\ sorts < MaxSorts /\ sorts' = sorts + 1
    /\ n' = size
    /\ IF InParallel(size)
       THEN /\ bigTasks' = Append(bigTasks, [begin |-> 0, end |-> size])
            /\ final' = [p \in 0 .. size - 1 |-> 0]
            /\ pc' = [t \in Thread |-> IF t = 0 THEN "start" ELSE "loop"]
       ELSE /\ final' = [p \in 0 .. size - 1 |-> 1]     \* sequential(begin, end)
            /\ UNCHANGED <<bigTasks, pc>>
    /\ UNCHANGED <<smallTasks, smallTaskIndex, outcome, task, index>>
-----------------------------------------------------------------------------
(* parallelPrimary and parallelSecondary *)

Start ==
    /\ pc[0] = "start"
    /\ smallTasks' = <<>> /\ smallTaskIndex' = 0
    /\ Goto(0, "loop")
    /\ UNCHANGED <<n, sorts, bigTasks, outcome, task, index, final>>

\* const auto task = shared.big_tasks.back()
ReadTask(t) ==
    /\ pc[t] = "loop"
    /\ task' = [task EXCEPT ![t] = Last(bigTasks)]
    /\ Goto(t, "partition")
    /\ UNCHANGED <<n, sorts, bigTasks, smallTasks, smallTaskIndex, outcome, index, final>>

\* Buckets of a task; with equality buckets the odd ones but the last are those,
\* and only those may be as large as the task.
IsEquality(o, b) == o.equal /\ b % 2 = 1 /\ b # NumBuckets - 1
BucketSize(o, b) == o.start[b + 1] - o.start[b]
Outcomes(k) ==
    {o \in [start : [0 .. NumBuckets -> 0 .. Size(k)], equal : BOOLEAN] :
        /\ o.start[0] = 0 /\ o.start[NumBuckets] = Size(k)
        /\ \A b \in Bucket :
            /\ o.start[b] <= o.start[b + 1]
            /\ BucketSize(o, b) = Size(k) => IsEquality(o, b)}
BucketTask(k, o, b) == [begin |-> k.begin + o.start[b], end |-> k.begin + o.start[b + 1]]

\* What writeMargins sorts, and equality buckets, are in order after the step.
LastLevel(k) == Size(k) <= kSingleLevelThreshold
InOrder(k, o) ==
    UNION {Places(BucketTask(k, o, b)) : b \in
        {c \in Bucket : LastLevel(k) \/ BucketSize(o, c) <= 2 * kBaseCaseSize \/ IsEquality(o, c)}}

\* partition<true>: its barriers let nobody leave before all have come.
Partition ==
    /\ \A t \in Thread : pc[t] = "partition"
    /\ \E o \in Outcomes(task[0]) :
        /\ outcome' = o
        /\ final' = Ordered(InOrder(task[0], o))
    /\ pc' = [t \in Thread |-> IF t = 0 THEN "queue" ELSE "meet"]
    /\ UNCHANGED <<n, sorts, bigTasks, smallTasks, smallTaskIndex, task, index>>

LargerOf(x, y) == IF x < y THEN y ELSE x
maxSequentialSize ==
    LargerOf(n \div NumThreads, NumThreads * kMinParallelBlocksPerThread * kBlockSize)

\* "Skip equality buckets"
V_LastSkipped(o) == {b \in Bucket : o.equal => b % 2 = 0}
Queueable(o) == {b \in Bucket : ~IsEquality(o, b)}
Subtasks(k, o) == IF LastLevel(k) THEN {} ELSE Queueable(o)

IsBig(k) == Size(k) > maxSequentialSize
IsSmall(k) == ~IsBig(k) /\ Size(k) > 2 * kBaseCaseSize

\* The tasks of buckets B, in the order of the buckets.
Nth(B, i) == CHOOSE b \in B : Cardinality({c \in B : c < b}) = i - 1
TasksOf(k, o, B) == [i \in 1 .. Cardinality(B) |-> BucketTask(k, o, Nth(B, i))]

\* The orders by size, "larger ones first"; any order of tasks of one size.
Shuffled(tasks) ==
    {[i \in DOMAIN tasks |-> tasks[f[i]]] : f \in Bijection(DOMAIN tasks, DOMAIN tasks)}
LargerFirst(tasks) ==
    {s \in Shuffled(tasks) : \A i, j \in DOMAIN s : i < j => Size(s[i]) >= Size(s[j])}

\* pop_back, queueTask for the buckets, and the sort of the small ones at the end.
Queue ==
    LET k == task[0]
        new == Subtasks(k, outcome)
        big == Front(bigTasks)
                  \o TasksOf(k, outcome, {b \in new : IsBig(BucketTask(k, outcome, b))})
        small == smallTasks
                  \o TasksOf(k, outcome, {b \in new : IsSmall(BucketTask(k, outcome, b))})
    IN
    /\ pc[0] = "queue"
    /\ bigTasks' = big
    /\ smallTasks' \in IF big = <<>> THEN LargerFirst(small) ELSE {small}
    /\ outcome' = NoOutcome                             \* shared.reset()
    /\ Goto(0, "meet")
    /\ UNCHANGED <<n, sorts, smallTaskIndex, task, index, final>>

V_NoBarrier == \E t \in Thread : pc[t] = "meet"
AllMeet == \A t \in Thread : pc[t] = "meet"
Barrier ==
    /\ AllMeet
    /\ pc' = [t \in Thread |-> IF pc[t] = "meet" THEN "check" ELSE pc[t]]
    /\ UNCHANGED <<n, sorts, bigTasks, smallTasks, smallTaskIndex, outcome, task, index, final>>

\* while (!shared.big_tasks.empty())
Check(t) ==
    /\ pc[t] = "check"
    /\ Goto(t, IF bigTasks = <<>> THEN "fetch" ELSE "loop")
    /\ UNCHANGED <<n, sorts, bigTasks, smallTasks, smallTaskIndex, outcome, task, index, final>>
-----------------------------------------------------------------------------
(* processSmallTasks *)

V_FetchAdd == smallTaskIndex
FetchAdd == smallTaskIndex + 1
Fetch(t) ==
    /\ pc[t] = "fetch"
    /\ index' = [index EXCEPT ![t] = smallTaskIndex]
    /\ smallTaskIndex' = FetchAdd
    /\ Goto(t, IF smallTaskIndex < Len(smallTasks) THEN "sort" ELSE "idle")
    /\ UNCHANGED <<n, sorts, bigTasks, smallTasks, outcome, task, final>>

SortTask(t) ==
    /\ pc[t] = "sort"
    /\ final' = Ordered(Places(smallTasks[index[t] + 1]))
    /\ Goto(t, "fetch")
    /\ UNCHANGED <<n, sorts, bigTasks, smallTasks, smallTaskIndex, outcome, task, index>>
-----------------------------------------------------------------------------
Step(t) == ReadTask(t) \/ Check(t) \/ Fetch(t) \/ SortTask(t)
Together == Partition \/ Barrier
Primary == Start \/ Queue
Terminated == sorts = MaxSorts /\ (\A t \in Thread : pc[t] = "idle") /\ UNCHANGED vars

Next ==
    \/ \E size \in Sizes : Sort(size)
    \/ Start \/ Partition \/ Queue \/ Barrier
    \/ \E t \in Thread : ReadTask(t) \/ Check(t) \/ Fetch(t) \/ SortTask(t)
    \/ Terminated

\* Every thread keeps running, and a partitioning step ends (StepEnds of
\* InPlacePartition).  Nothing forces another sort.
Spec == Init /\ [][Next]_vars
FairSpec == Spec /\ WF_vars(Together) /\ WF_vars(Primary) /\ \A t \in Thread : WF_vars(Step(t))
-----------------------------------------------------------------------------
TaskType == [begin : Nat, end : Nat]
Locations == {"idle", "start", "loop", "partition", "queue", "meet", "check", "fetch", "sort"}

\* The types; a thread that sorts has a task to sort.
TypeOK ==
    /\ n \in Nat /\ sorts \in 0 .. MaxSorts
    /\ bigTasks \in Seq(TaskType) /\ smallTasks \in Seq(TaskType) /\ smallTaskIndex \in Nat
    /\ task \in [Thread -> TaskType]
    /\ pc \in [Thread -> Locations]
    /\ \A t \in Thread : pc[t] = "sort" => index[t] < Len(smallTasks)

\* Threads in the partitioning step have read the same task, the one still on
\* top of the stack, although back() and empty() are read without a lock while
\* the primary thread pops and pushes.
SameTask ==
    \A t \in Thread : pc[t] = "partition" => bigTasks # <<>> /\ task[t] = Last(bigTasks)

\* Outside of queueTask every place is accounted for exactly once: in order, or
\* part of one big task, of one small task to come, or of one in a thread's
\* hands.  The thresholds of writeMargins and of queueTask leave no gap.
EachPlaceOnce ==
    pc[0] # "queue" /\ sorts > 0 =>
        \A p \in 0 .. n - 1 :
            final[p]
            + Cardinality({i \in DOMAIN bigTasks : p \in Places(bigTasks[i])})
            + Cardinality({i \in DOMAIN smallTasks :
                  /\ p \in Places(smallTasks[i])
                  /\ pc[0] # "start"
                  /\ \/ i - 1 >= smallTaskIndex
                     \/ \E t \in Thread : pc[t] = "sort" /\ index[t] = i - 1})
            = 1

\* Every sort ends.
EverySortEnds == []<>(\A t \in Thread : pc[t] = "idle")
=============================================================================
