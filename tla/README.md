# PS⁴o: a verification development

This directory holds TLA+ models of the parallel super scalar samplesort in
`include/ps4o/`, the TLC configurations that check them on small instances, and
theorems about them checked by TLAPS. The repository also carries `ips4o/`, the
in-place variant, from which much of PS⁴o was derived; the parts that differ,
its partitioning step and its driver, are modelled as well.

To check a module: `tlc -config X.cfg M`. To check the proofs of one: `tlapm
MProofs.tla`.

## The system

`parallel::sort` makes a thread pool and a `ParallelSorter`, tests whether the
input is sorted, and then runs one job on all threads of the pool:

1. **Partitioning step** (`partition<true>`). One thread samples and builds the
   classifier, every thread classifies its stripe and counts its buckets,
   thread 0 computes the bucket boundaries, every thread scatters its stripe
   into the other array, and the threads share out the finished buckets.
2. **Queueing** (`queueTasks`, thread 0). A bucket that covers the stripes of
   two threads or more becomes a *big task* with a `ThreadJoiningThreadPool` for
   those threads. A smaller one goes to the private queue of one thread.
3. **Big tasks** (`processBigTasks`). The threads of a big task join its pool,
   partition it, and its root queues the buckets in the same way, for fewer
   threads. A thread leaves the loop when it has no big task.
4. **Small tasks** (`processSmallTasks`). Each thread sorts from its private
   queue with sequential partitioning steps, which queue further tasks there. A
   global queue and a counter of idle threads balance the load and detect the
   end.

| Part | State | Operations | What is hard | What makes it correct |
|---|---|---|---|---|
| Scheduler, PrivateQueue (`scheduler.hpp`) | private queues, concurrent queue, idle counter | `getJob`, `offerJob`, `addJob`, `reset`, `emplace` | termination detection over relaxed atomics, checks and actions in separate steps | nobody leaves while work remains, every task is done once, all leave |
| Barrier, Sync (`synchronization.hpp`) | mutex, condition variable, two counts, a flag | `barrier`, `single`, `setNumThreads` | reuse of the barrier, spurious and late wake-ups, the function run without the lock | all attend before any leaves, the function runs once, nobody is left asleep |
| StdThreadPool (`thread_pool.hpp`) | plain members, the pool barrier, the workers | `operator()`, destructor | publication through the barrier only, jobs narrower than the pool | each job once on each of its threads, no write while somebody may read, clean shutdown |
| ThreadJoiningThreadPool, big tasks (`thread_pool.hpp`, `parallel.hpp`) | `big_tasks`, `thread_pools`, private queues, one pool per task | `queueTasks`, `processBigTask*`, `run`, `join`, `release_threads` | nested groups, a table rewritten by roots and read by reference | groups are complete and disjoint, tables are rewritten only while readers are held, no deadlock |
| Partitioning step (`partitioning.hpp`, `local_classification.hpp`) | both arrays, the counts and write positions, `bucket_start_save` | classify, prefix sums, scatter, finish buckets | stripes and buckets do not align; two arrays swap roles by level | boundaries exact, a permutation, every bucket in the right array, sorted |
| Classifier, sampling | splitter tree, splitters | `selectSample`, `build`, `classify` | padding by duplicates, equality buckets, byte-sized bucket numbers | an element's bucket is its rank among the splitters |
| Sequential sort, base cases | two arrays, recursion | `sequential`, `sequential_rec`, `insertionSort`, `sortedCaseSort` | the level that ends in the base case, which array a range is in | sorted permutation in the input array |
| Parallel sorter, entry points | thread pool, shared and local data | construction, `operator()`, `isSorted`, `sort`, `make_sorter` | reuse of a sorter, choice of the number of threads | sorts, or leaves sorted input alone |
| Memory (`memory.hpp`) | allocations, `SharedData`, `LocalData`, `BigTask` | construction, `reset` | what `reset` does not reset | no state of one step leaks into the next |
| IPS⁴o block permutation (`ips4o/`) | packed read/write pointers, reader counts, swap buffers | `decRead`, `incWrite`, `stopRead`, `isReading`, `permuteBlocks` | a writer next to a reader of the same bucket, the overflow block | each block ends in its bucket, no block is overwritten unread |
| IPS⁴o empty blocks, margins, buffers, driver | block ranges, partial blocks, task index | `moveEmptyBlocks`, `writeMargins`, the task loop | threads that fill holes across stripe borders | full blocks precede empty ones; margins are complete |

IPS⁴o sorts without a second array. Its partitioning step classifies into
buffers of one block per bucket, which flush full blocks back into the stripe;
moves the empty blocks to the ends of the buckets; permutes the blocks, all
threads at once; and fills in what does not fill a block (the margins). All
threads partition every large task together and share out the small ones by an
atomic index.

`PROJECT.json` lists the parts with their status and the hazards with the
properties that cover them.

## The modules

| Module | Models | Notes |
|---|---|---|
| `JobPool` | what a scheduler promises: a pool of jobs, done once, closed when empty | abstract |
| `Scheduler` | `scheduler.hpp`, the loop of `processSmallTasks` | implements `JobPool` |
| `Rendezvous` | what `barrier()` and `single()` promise | abstract |
| `Barrier` | `synchronization.hpp` | implements `Rendezvous` |
| `ThreadPool` | `StdThreadPool` | uses `Rendezvous` for its barrier |
| `TaskRanges` | the arithmetic of stripes in `queueTasks` and `partition` | no state |
| `BigTasks` | `queueTasks`, `processBigTasks`, `ThreadJoiningThreadPool` | uses `TaskRanges` |
| `Partition` | `partition<true>`, `parallelClassification`, `distributeElements` | uses `TaskRanges` |
| `Classifier` | `classifier.hpp`, the choice of splitters in `sampling.hpp`, the arithmetic of `config.hpp` | no state |
| `SequentialSort` | `sequential.hpp`, `partition<false>`, `base_case.hpp`, `selectSample`, the entry points for small input | extends `Classifier` |
| `BlockPermutation` | IPS⁴o: `block_permutation.hpp`, `bucket_pointers.hpp` | part of the next |
| `InPlacePartition` | IPS⁴o: the whole of `partition` (`local_classification.hpp`, `buffers.hpp`, `empty_block_movement.hpp`, `cleanup_margins.hpp`) | extends `BlockPermutation` |
| `InPlaceTasks` | IPS⁴o: `parallel.hpp` | the partitioning step is one action |
| `SchedulerProofs`, `BarrierProofs`, `ThreadPoolProofs`, `BigTasksProofs`, `PartitionProofs`, `InPlaceTasksProofs` | theorems about the module named | TLAPS |
| `BlockPermutationProofs` | theorems about `InPlacePartition` up to the end of the block permutation | TLAPS, used by the next |
| `InPlacePartitionProofs` | theorems about the elements of a whole step, and its types | TLAPS |
| `MCScheduler`, `MCBarrier`, `MCPartition`, `MCSequential`, `MCInPlace` | constants for TLC | `ThreadPool`, `BigTasks` and `InPlaceTasks` are run directly |

Operators called `V_...` are what a plausible mistake would make of the
definition that follows them. No specification uses one; `PROJECT.json` pairs
each property with one that breaks it.

**How the modules correspond to the code.** In every module `pc[t]` stands for
the place of thread `t` in its C++ function, and an action is what the thread
does from there to the next access that another thread can overtake.

*Scheduler.* One action is one access to the idle counter or to the concurrent
queue, and the accesses of `getJob` and `offerJob` follow the order of the
source. `local[t]` is the private queue, `glob` the concurrent queue (assumed
linearisable), `numIdle` the counter; `Subtasks[j]` is what `sequential(j)`
emplaces. Which tasks exist is a parameter: a forest, because a range is made
by one partitioning step. The counter's relaxed accesses are taken as
sequentially consistent.

*Barrier.* A section under the mutex is one action. The predicate is tested with
the lock held, before sleeping and after each wake-up. `cv_.notify_all()` runs
after the unlock and is a step of its own. `setNumThreads` happens when, as its
comment demands, nobody is at the barrier.

*ThreadPool.* The plain members `func_`, `num_threads_`, `done_` are written by
the owner in the action that brings it to the barrier. The barrier is used
through the promises of `Rendezvous`.

*BigTasks.* `big`, `slot`, `queued` are `big_tasks`, `thread_pools` and the
private queues; `pools` holds every pool made, with the number of calls of its
barrier. The k-th meeting is over when all n members have come k times. What a
partitioning step leaves to queue is any set of at most two disjoint ranges
smaller than the task and larger than the base case.

*Partition.* `src` and `tmp` are `begin` and `begin_tmp`; an element is the
number of its first place. The counters are added up as sums over threads
(`OfThreads`) and buckets (`InBuckets`). Scattering a stripe is one action, each
piece of work that finishes a bucket is another: a range of places to be sorted,
to be moved if the caller sorts the other array, or, as a shared part of an
equality bucket, to be moved in any case. `todo[t]` is the list of pieces,
computed by `PlainWork` and `EqualWork` from the boundaries as the code computes
its first and last bucket; pieces without places do nothing and are skipped
(`Pending`). Sorting a piece puts the k-th of its elements at its k-th place
(`IsKth`). `LastLeafAssumption` is what the classifier guarantees of the bucket
before the last: with equality buckets no element is in it. `Trivial` says
whether a moved element leaves its value behind, as a number does and a
`std::string` does not. The classifier's answers are the constant `Jobs`.

*Classifier, SequentialSort.* The recursion is a stack of frames; a frame has
the array and range it was called for, whether the result stays there
(`in_input_array`), its bucket table, and the place `at` it has come to.
`local` is the data all frames share: the classifier, `num_buckets_` and the
bucket table of `LocalData`. Sorting the sample pushes a frame on the same
array, which uses and must give back the same classifier. `selectSample` may
make any swap, so every possible sample is tried. The tree is the array the
C++ fills, walked as `classify` does; `Reference` is what it should amount to,
the rank among the splitters. Inputs small enough for a base case, and the
tests for sorted and reversed input, are in the entry actions. `arr.B` is the
memory allocated for the call; places without an object hold `Gone`, so moving
from one leaves its trace in the result.

*BlockPermutation, InPlacePartition.* An element is the number of its bucket.
`ptr[b]` and `reading[b]` are a `BucketPointers`; its read pointer, its write
pointer with the other one, and its count of readers are changed by one action
each, in the order of the source, and reading, looking at and writing a block
are actions between them. Work on a thread's own stripe (classification) or own
bucket (a margin) is one action; blocks are moved into another stripe one
stretch at a time. The packed pointer never carries from one half to the other,
the write pointer being non-negative. `input.trivial` tells whether a moved-from
place keeps its value where the code can see it again. With one thread the
module is `partition<false>`, whose pointers are set by
`sequentialClassification`.

*InPlaceTasks.* `bigTasks` is the vector the primary thread pops and pushes
while the others call `back()` and `empty()`; each of those calls is an action.
A partitioning step, which nobody leaves before all have come, is one action
with any bucket table in which only an equality bucket is as large as the task.
`final[p]` counts how often place `p` was brought into order.

## The runs

| Run | Instance | What it shows |
|---|---|---|
| `scheduler` | 3 threads, 6 tasks in 2 trees, 2 sorts | the idle counter is exact, a counted thread has no work, a queued task is always still watched, nobody leaves early, the scheduler implements `JobPool`, every sort ends |
| `barrier` | teams out of 4 threads, 3 calls, 2 teams | no thread is lapped, none sleeps through its release, `Rendezvous` is implemented, every call returns |
| `thread_pool` | 4 threads, jobs of any width | each job runs once on each of its threads, the owner writes alone, all calls and the destructor return (`PoolEnds`) |
| `big_tasks` | 4 threads, 8 elements, up to two buckets per step | groups are complete when their members look, what they read of the table is stable (`GroupDataStable`), private queues are filled only for held threads, everyone reaches the small tasks |
| `partition` | 3 threads, 6 elements, 8 buckets, every distribution with equality buckets | boundaries and final placement are right, a bucket is sorted by one thread alone |
| `in_place` | 1 to 3 threads, 6 inputs of 14 to 29 elements in blocks of 4 | full blocks precede empty ones when the permutation starts, no block is touched by two threads at once, the overflow block is the one foreseen, each element reaches its bucket, nobody waits for good |
| `sequential` | 12 inputs of up to 16 keys, every entry point, every sample | the tree is the rank, the nested sort of the sample gives the classifier back, the result is a sorted permutation in the right array, every call starts only calls on smaller ranges |
| `in_place_tasks` | 3 threads, 2 sorts of 2 or 7 elements, 4 buckets, any outcome of a step | all threads partition the same task, each place is sorted exactly once, every sort ends |
| `partition_shared` | the same, equality buckets | **violation**: an equality bucket is moved twice |
| `partition_second_level` | the same, sorting in the temporary array's direction | **violation**: parts of an equality bucket end in the wrong array |
| `partition_empty_stripe` | 4 threads, 5 elements | **violation**: a thread without elements contributes old counts |
| `in_place_strings` | 3 threads, 14 elements whose move empties the source | **violation**: two threads move the same margin out, and it is lost |

**Why the bounds are enough to see the interesting cases.** Three threads are
the least for which a task can be taken by another thread between the look at
the global queue and the pop while a third goes idle. Six tasks let a queue hold
three, so that the offer, the back and the front differ. Two sorts exercise the
reset. Two teams of the barrier with different numbers of threads exercise
`setNumThreads`, and three calls each let a kind of call follow each kind. Four
threads with eight elements let a big task split once more into a group of two.
Six elements on three threads and eight buckets let an equality bucket start in
one stripe, cover another and end in a third, and leave any bucket empty; on the
last level five of the buckets are used, and four without equality buckets,
where ownership does not depend on the sizes. With equality buckets, number
`num_buckets_ - 2` is left empty, as the classifier leaves it: an element of the
last leaf is greater than the last splitter, hence not less than it.

For IPS⁴o, blocks of four elements keep partial blocks apart from full and empty
ones, and the six inputs are chosen by case: one thread with a partial last
block; two threads whose stripes share a bucket; an overflow; a bucket that
starts in the first of three stripes and ends in the last, so that the middle
thread reserves for the first; areas of two threads that end in one block. The
driver's two sizes lie on either side of `numThreadsFor`, seven elements allow a
big task inside a big task, and two sorts reuse the sorter.

For the sequential sort, base cases of one element, up to eight buckets and
equality buckets from two equal splitters on make ranges of two levels fit into
ten elements. Nine and ten elements are more than the single-level threshold of
eight. The splitters of a range of fewer than sixteen elements are taken from its
sample at steps of one; the input of sixteen keys has a step of two, a sample of
seven (`kOversampling` is 50 percent for that; the default of 20 takes a step of
two from 1024 elements on). The inputs have sorted, reversed, nearly equal and distinct keys; two and
more threads test for sorted input with a descent at a stripe's end.
`ProgressAssumption` names what a configuration needs for the recursion to
shrink: a step that is not on the last level must be able to enable equality
buckets. The defaults (threshold 5, 16 buckets or more on the first of two
levels) satisfy it; a configuration without equality buckets does not, and
sorting many equal keys with it recurses for ever.

Type invariants are among the invariants of `scheduler`, `barrier`, `partition`
and `in_place`. The other modules define `TypeOK` too; it says less there than
the properties checked, and was only checked while the modules were written.

**Fairness.** The liveness properties assume weak fairness of each thread's
steps: the operating system keeps running every thread, user comparisons and
partitioning steps terminate, and the mutex is obtained eventually. There is no
strong fairness, and no fairness of spurious wake-ups. `Partition` has no
liveness property. In `InPlacePartition` and `InPlaceTasks` the passing of a
barrier is an action of all threads, weakly fair as they are: the barrier's own
promise is `Barrier`'s `EveryCallReturns`, and `InPlaceTasks` relies on
`StepEnds` for its partitioning step. `SequentialSort` assumes no fairness: it
cannot deadlock before it is done, and `RecursionShrinks` bounds every branch of
the recursion, so it ends if it runs. Deadlock is checked in every run: each
specification says explicitly where it may stop.

**The violations.** All four lie in partitioning steps with few or equal
elements.

* *Moved twice* (`partitioning.hpp:281-286`). The test for a last bucket without
  an equality partner has the wrong parity. The loop over pairs then moves the
  equality bucket after the thread's last bucket, which is shared and was moved
  in parts. For types whose move leaves the value, the same values are written
  twice, and run `partition` shows that the result is still right. For others,
  elements are moved from after their destruction. In the run's trace the bucket
  lies in all three stripes, and the thread of the first is to move its own part
  of it and the whole bucket.
* *Wrong array* (`partitioning.hpp:216-226, 244-253`). The parts of a shared
  equality bucket are moved without asking `in_input_array`. On the second
  level the elements leave the array that is being sorted.
* *Lost margin* (`ips4o/cleanup_margins.hpp:61-79`). `saveMargins` walks down from
  the thread's last bucket to the one that reaches into the last block, also
  past the thread's own first bucket. If the areas of two neighbouring threads
  end in the same block, both move that bucket's excess elements to their swap
  buffers; the owner of the bucket writes its copy back, the other forgets its
  own. With numbers both copies are the same (run `in_place`). With elements
  that a move empties, whoever comes second saves empty ones. It takes unused
  buckets between the two ends, as with few distinct keys.
* *Old counts* (`local_classification.hpp:110-121`). Only a thread with elements
  clears its counters before they are summed.

## The proofs

Every theorem holds for all values of the constants that satisfy the named
assumptions of its module: any finite set of threads, any input, any thresholds.
The assumptions are evaluated by TLC in the runs.

| Module | Theorem | Statement |
|---|---|---|
| `SchedulerProofs` | `TypeCorrect` | `[]TypeOK`; the counter never drops below zero |
| | `IdleCountExact` | `[]IdleCount`: the counter is the number of threads between their `fetch_add` and `fetch_sub`, or gone |
| | `NothingForgotten` | `[]NoTaskForgotten`: a counted thread has an empty private queue, and a task in the global queue is watched |
| | `ExitIsRight` | `[]NoWorkAtExit`: `getJob` returns false only when nothing is queued or held |
| | `TasksHaveOneOwner` | `[]OneOwner`: no task is in two places, none comes back |
| | `SchedulerImplementsPool` | `ImplementsPool`: every step is one of `JobPool` or changes nothing of it |
| `BarrierProofs` | `TypeCorrect`, `HitCountRight` | `[]TypeOK`, `[]HitCount`: the count is exact, also across a change of the team |
| | `NoThreadLaps` | `[]NoLapping`: one flag bit is enough |
| | `WakeupComes` | `[]NoLostWakeup` |
| | `BarrierImplementsMeetings` | `ImplementsMeetings`: every step, spurious wake-ups included, is one of `Rendezvous` or changes nothing of it |
| `ThreadPoolProofs` | `TypeCorrect`, `JobsRunOnce` | `[]TypeOK`, `[]JobsComplete`: each job has run once on each thread asked for when the call returns |
| | `TeamIsRight` | `[]TeamMatches` |
| | `WritesAreAlone` | `WritesAlone`: the plain members are written while no worker can read them |
| `BigTasksProofs` | `GroupsComplete` | `[]GroupComplete`: who looks for its big task finds the whole group and its pool |
| | `GroupDataHoldsStill` | `[]GroupDataStable`: tables are rewritten only while their readers are held |
| | `PoolsReleased` | `[]AllPoolsDone` |
| | `QueuedRangesDisjoint` | `[]QueuedDisjoint`: no element is on two private queues |
| | `QueuesOfHeldThreads` | `QueueOfHeldThread` |
| `PartitionProofs` | `TypesHold`, `BoundariesExact` | `[]TypeOK`, `[]BoundariesRight` |
| | `ScatterIsStable` | every scattered element is at its rank by bucket and old place, whatever the order of the threads |
| | `NobodyInterferes` | `[]SortedAlone`: who sorts a bucket has it for himself |
| | `PlacementHolds` | `[]Placement`: every bucket ends in the array its user expects |
| `InPlaceTasksProofs` | `TasksAgree` | `[]SameTask` |
| | `StackChangesAlone` | the vector of big tasks changes only while nobody else can look at it |
| | `PlacesOnce` | `[]EachPlaceOnce`: no place is forgotten between the lists of tasks, and none is sorted by two threads |
| `BlockPermutationProofs` | `PhasesHold` | the invariant of the step, from classification to the end of the permutation |
| | `FullFirst` | `[]FullBlocksFirst`: after the movement of empty blocks every bucket has its full blocks first |
| | `NoBlockShared` | `[]BlocksExclusive` |
| | `OneOverflow` | `[]OverflowForeseen` |
| | `NoBlockOutside` | `permuteBlocks` stays inside the array |
| `InPlacePartitionProofs` | `StepPartitions` | `[]Partitioned`: each element ends in its bucket and no place is left out, if no two threads move the same margin out (`MovesOnce`) |
| | `CopiesPartition` | `[]Partitioned` for one thread, and for elements a move leaves behind, on no condition |
| | `WidePartition` | `[]Partitioned` for all other steps in which each thread but the first owns a block of elements |
| | `StepOrders` | the elements end up where sorting them by bucket would have put them |
| | `TypesOfStep` | `[]TypeOK`: no buffer, swap block or overflow block ever holds more than `kBlockSize` elements |

**Scheduler.** The invariant `IInv` is `TypeOK`, `IdleCount`, `NoTaskForgotten`
(that is `DryIsDry` and `GlobalWatched`), `OfferHasTwo` and `Quiet`.
`NoWorkAtExit` alone is not inductive. That a thread may leave rests on the
counter being exact and on counted threads being dry, so that a full counter
empties all private queues. That the global queue is empty as well needs
`GlobalWatched`: who pushed a task keeps one for itself (`OfferHasTwo`: the
offer was made from a queue of two or more) and will look again before it counts
itself idle; who finds the counter full after it looked has the task watched by
somebody else. `Quiet` keeps what the first thread found when it left true for
the others. For the refinement, `OInv` adds `OneOwner` and `ParentFirst` (a task
is opened after the task that emplaces it was processed), which is where the
forest is needed: a task that is taken is then open in the pool, and one that is
emplaced is new to it.

**Barrier.** `NoLapping` and `NoLostWakeup` support each other: `SameMeeting`
says that who is inside sleeps on the flag of the current meeting or of the one
before it; a thread behind by one has its notification on the way, and the flag
it compares has flipped once only because the next meeting cannot end without
it. `HitCount` turns the count under the lock into that argument. `OneFunc` and
`RunOnce` are `single()`: the function's runner is the last to come, and nobody
can come again before it has.

**ThreadPool.** The barrier is used through `Rendezvous`, which `Barrier`
implements. `OwnerPhase` and `WorkerPhase` say at which of the two meetings of a
job each thread is; that a worker has left the second meeting of a job means
that the owner has come to it, so that no member it writes afterwards is read
under the old job.

**BigTasks.** A pool is named by the range of its task, so that pools that exist
at the same time never share a thread (`TeamsApart`, from the arithmetic of the
stripes). `Pools` and `Rounds` tie the number of calls of each pool's barrier to
the places its threads are at, `Entries` and `Membership` tie `big_tasks` and
`thread_pools` to the pools, `Top` covers the first step, `Ranges` says that
what is queued or still to be partitioned is disjoint. The central step is
`QueueTasks`: the root may rewrite the entries of its group, as all others are
held by its pool (`Rounds`), and no entry outside the group is touched, for the
new tasks lie inside the old. The lemmas on `Stripe`, `ThreadAt` and `Owner` are
proved for any number of buckets; run `big_tasks` leaves two.

**Partition.** Four invariants, each using those before it. `CountInv`: sums of
counters are numbers of elements, so `bucket_start_save` is exact and a thread's
write position is the rank of its first element. `WorkInv`: every piece left to
do is the sorting of one bucket that its thread owns and whose elements may
differ, or a move inside a bucket of equal elements (`RightPiece`), from which
`SortedAlone` follows. `ScatterInv`: ranks are a bijection, so the scattered
elements are where they belong and nobody overwrites another. `PlaceInv`: every
bucket's elements stay in its places, and a bucket is finished, in somebody's
list, or, if it is an equality bucket, moved up to what is still in a list. Sums
over finite sets are defined in the community modules by recursion; `SumAdds`
derives what the proofs need by an induction that is a statement of first order,
over the smaller subsets of a finite set.

Two hypotheses stand in the theorems, and each is the complement of a violation
the runs show. `NothingStale`: no thread contributes old counters, because
counters start at zero or every thread has elements; without it run
`partition_empty_stripe` refutes `BoundariesRight`. `Trivial`, in
`PlacementHolds`: a moved element leaves its value behind; without it an
equality bucket that is moved twice is lost, and one that is moved on the second
level ends in the wrong array (run `partition_second_level`).
`LastLeafAssumption` is needed where the parity test for the last bucket would
otherwise give a thread work on its neighbour's bucket.

**InPlacePartition up to the permutation.** `PhaseInv` has one part for each
phase up to the margins. `ClassInv` is the classification: a stripe is untouched
or done (`StripeDone`: full blocks of one bucket each, then nothing),
`bucketStart` counts what the stripes that are done held, and each bucket has an
element that is in no full block, since a buffer is flushed by the next element
only. For a stripe, `FlushRoom` shows by counting that the flushed blocks take
fewer places than have been read.

`MoveInv` is the movement of empty blocks, where threads fill the holes of the
same bucket without waiting for each other. Once the sizes are known, the places
of a bucket that were flushed (`Fulls`) and the others (`Holes`) are fixed. The
invariant says that the place with k - 1 holes before it gets what the k-th last
full place held, by whichever thread and whenever: `Filled` gives the places
that hold elements from the write pointers of all threads alone, and `LoopOK`
ties a thread's `read_from_thread` and `elements_reserved` to its write pointer
(the full places from there on, and what is reserved there, are as many as the
holes before the write pointer). `ReservedIs` shows that what a thread counts as
reserved is the holes to the left of its stripe; `InTurn` and `OnlyTaker` that
no two threads take the same place; `Written` and `FilledHole` that what was
filled is never taken, so that it does not matter when a thread reads. When all
threads are through, the holes filled are those that lie before the number of
full places, and the places taken are the full ones behind it (`Compact`), which
is `FullBlocksFirst`. That theorem is what the permutation starts from.

**The block permutation.** `PermInv` has eight parts. `Pointers`: what lies
between a bucket's pointers is full and unread. `Threads` and `Pairs`: what each
thread's block is to the pointers, and that no two threads have the same one; a
writer below the read pointer still meets readers who came before it moved, and
for these it waits, which `Counts` (the number of readers is exact) makes right.
`Room` counts blocks: those written to a bucket, unread for it and carried to it
together never exceed its elements, so that a write pointer stays in the
bucket's area, but for one block of the last area that is cut off by the end of
the array; that is the overflow block. It holds for any interleaving of the
atomic accesses. `Begins` derives it from `FullBlocksFirst` when the threads
meet.

**The elements of a step.** `Partitioned` speaks of the end of the step only; its
invariant, `Account`, says for each moment where the elements of each bucket are.
`ClassAccount` and `MoveAccount`: in the full blocks of the array and in the
buffers. `PermAccount`: also in the hands of the threads and in the overflow
block (`Taken` counts all those blocks). That nothing is forgotten when the
threads stop looking needs an invariant of its own, `Progress`: blocks that a
bucket's pointers have passed are settled or about to be, and every thread goes
once around all buckets, so no unread block is left (`AllWritten`).

From then on each bucket is accounted for by itself (`MarginInv`). Its blocks lie
behind its first border of a block, its buffers and the overflow block hold the
rest, and the last block may reach beyond the bucket's end (`BlocksLeft`,
`Excess`). `OnlyLastMissing`, `LeftBehind` and `MarginSlots` do the arithmetic of
`writeMargins`: the elements that come from the three possible sources are just
as many as the places of the bucket that no block covers, the head before the
first block and the tail behind the last one. A bucket is `Pending` until its
thread has written its margin, and `FilledBy` its elements afterwards; buckets are
written by different threads in any order, and the hard part is that they do not
disturb each other. An excess element lies where another bucket's head will be
written. If both buckets are the same thread's, it writes them from left to right
and takes the elements first (`OwnMargin`); if they are not, the thread to the
left saved them before the barrier (`CrossingNeeded`, `MarginExtent`). So
`OtherMargins` and `WriteKeepsPending` hold for any order.

The one hypothesis is `MovesOnce`: no two threads have saved the margin of the
same bucket from elements that a move empties. It is what the violation *lost
margin* breaks, and all that stands between the step and `Partitioned`: run
`in_place_strings` refutes `Partitioned` where it fails. Two theorems say which
inputs need not care. In `CopiesPartition` a moved element keeps its value, so the
second copy is as good as the first, or there is no second thread. In
`WidePartition` each thread but the first, except those whose range ends with the
last bucket, owns buckets of at least a block of elements, so that the ends of two
areas never lie in one block. The bounds of the margins (`MarginBase`) hold
without the hypothesis, which is what makes `WidePartition` more than a
restatement: `WideMoves` derives `MovesOnce` from them.

`StepOrders` ties `Partitioned` to the input. That `bucketStart` counts the
elements in smaller buckets holds from classification on (`ClassedHolds`), so the
elements of bucket i fill the places that all elements in order would give them.

`TypesOfStep` is about the C++ buffers, which are memory for one block each. A
buffer is flushed by the next element only when it is full, so what is left in one
at the end of a stripe is at most a block (`BufferFits`, which counts flushes
among the elements of one bucket), a swap or overflow block is one block of the
array, and what `saveMargins` puts into a swap buffer is less than one
(`SaveTypes`).

**InPlaceTasks.** A sort goes through three phases, `Reading`, `Queueing` and
`Sharing`, and a change of the vector falls into the second (or between two
sorts). `AInv` adds the accounts: `Once(p)` says who has place `p`, `Indices`
that the atomic index starts at zero and is beyond every task in a thread's
hands, which makes those tasks different ones, and `Dividing` what holds between
the step and the queueing of its buckets, where the places of the task are still
the stack's and already partly in order. That a step divides its task among the
buckets is `Divides`. The two lists are sequences in the order of the buckets
(`TasksOf`), the small one sorted in the end in any order that puts larger tasks
first; `Listed`, `Joined`, `Popped` and `Moved` count the tasks with a given place
through those operations.

`PlacesOnce` has one hypothesis, `SortedIsSmall`: a bucket that `writeMargins`
sorts, of up to `2 * kBaseCaseSize` elements, is not larger than
`max_sequential_size`. Two tests decide on the same buckets: `writeMargins` sorts
by the former bound, and `queueTask` asks for the latter first. A configuration
in which the latter is smaller would partition sorted buckets once more. The
defaults satisfy it for any element type and number of threads: a task that is
divided once more has over 16 * 2^8 elements, to be divided by the number of
threads, the other bound is four blocks a thread, and one of the two is always
32 or more.

**Only model-checked.** The liveness properties (fairness is beyond TLAPS); the
properties of `SequentialSort` and what `Classifier` computes: that the descent
through the tree is the rank, and that sorting a sample of the sample ends in
order, are inductions over the recursion. The violations are counterexamples and
stay with TLC.

## Not modelled

* Memory orderings weaker than sequential consistency. The comments at the
  atomics of `bucket_pointers.hpp` are about them.
* The concurrent queue's inside (TBB, external).
* Allocation and exceptions: the sort has no handlers, and an exception of the
  comparison is outside its contract. Destructors and object lifetimes, except
  as `Gone`.
* The OpenMP pools, whose state is OpenMP's; `Sync::critical`, which nothing
  calls; the dummy pools of builds without threads.
* `ips4o/sequential.hpp`: its recursion over `partition<false>` is the sorting of
  a small task in `InPlaceTasks`. The IPS⁴o copies of the classifier, sampling,
  base case, barrier and thread pool differ from the PS⁴o headers in details
  that no property here tells apart, and are not modelled twice.
* IPS⁴o stripes without elements (`ips4o/local_classification.hpp:123-126`).
  `InputsAssumption` of `InPlacePartition` asks for a block per thread. Tasks
  that `queueTask` leaves to all threads have more, and so has the first one by
  `numThreadsFor` as long as four blocks of 2 KB, its least for a thread, hold an
  element. With elements over 8 KB, whose blocks are of one element, there can
  be fewer elements than threads; what the threads without any then do is
  not covered, by the runs or the theorems. (`Partition`, the PS⁴o step, does
  have empty stripes.)
* Which sample a step of `Partition` or `InPlacePartition` draws: there the
  outcome of classification is the input. `SequentialSort` has the real one.
* The oracle's width. `Stored` keeps a bucket number modulo 256, as the array of
  bytes does, but a step of more than 256 buckets, which only a `kLogBuckets` of
  8 with equality buckets has, is beyond TLC.
* Forwarding overloads of `sort` and `make_sorter`; build files and the example.

## Plan

The models are complete for what is listed above as modelled, and every safety
property a passing run checks is a theorem, except those of `SequentialSort`.
`ClassifiedByRank` and `SortsInput` need induction over data. `ClassifierFree`,
the stack discipline of the shared classifier, and `RecursionShrinks` depend less
on what the recursion computes and are what to prove next.
