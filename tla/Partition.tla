----------------------------- MODULE Partition -----------------------------
(***************************************************************************)
(* One parallel partitioning step (partitioning.hpp, Sorter::partition     *)
(* <true>).  The classifier is built; each thread classifies and counts    *)
(* its stripe, thread 0 turns the counts into bucket boundaries and write  *)
(* positions, each thread scatters its stripe to the other array, and then *)
(* the threads finish the buckets: small ones are sorted, equality buckets *)
(* need nothing, and what is finished goes to the array the caller sorts.  *)
(*                                                                         *)
(* An element is the number of its place before the step.  The step reads  *)
(* the array src (begin) and writes the array tmp (begin_tmp).  What a     *)
(* thread does between two barriers to places nobody else uses is one      *)
(* action; each bucket it finishes is an action of its own.                *)
(***************************************************************************)
EXTENDS Integers, Sequences, FiniteSets, FiniteSetsExt, TaskRanges

CONSTANTS
    T,              \* number of threads
    N,              \* number of elements
    NumBuckets,     \* num_buckets_, equality buckets included
    Jobs,           \* the steps tried: [bucketOf, equal, inInput, lastLevel]
    BaseCase,       \* 2 * kBaseCaseSize
    Stale,          \* what bucket_size[b] may hold before it is written
    Trivial         \* moving an element leaves its value behind

ASSUME PartitionAssumption ==
    /\ T \in Nat \ {0, 1} /\ N \in Nat \ {0} /\ BaseCase \in Nat
    /\ NumBuckets \in Nat \ {0} /\ NumBuckets % 2 = 0
    /\ Stale \subseteq Nat /\ Trivial \in BOOLEAN

Thread == 0 .. T - 1
Pos == 0 .. N - 1
Bucket == 0 .. NumBuckets - 1
Gone == -1          \* raw memory, or an element that was moved away

ASSUME JobsAssumption ==
    Jobs \subseteq [bucketOf : [Pos -> Bucket], equal : BOOLEAN,
                    inInput : BOOLEAN, lastLevel : BOOLEAN]

\* An element of the last leaf is larger than the last splitter, which is
\* the copy it is compared with: it is never in the bucket before the last.
ASSUME LastLeafAssumption ==
    \A j \in Jobs : j.equal => \A p \in Pos : j.bucketOf[p] # NumBuckets - 2

VARIABLES
    job,        \* the step: the classifier's answers and the flags
    pc,         \* pc[t]: the phase thread t is in
    size,       \* size[t][b]: bucket_size of thread t, local and shared
    start,      \* start[t][b]: bucket_start of thread t
    save,       \* bucket_start_save
    src, tmp,   \* the two arrays
    todo        \* todo[t]: what t has yet to finish, in order

vars == <<job, pc, size, start, save, src, tmp, todo>>

myStripe == Stripe(N, T)
MyBegin(t) == Min({t * myStripe, N})
MyEnd(t) == Min({(t + 1) * myStripe, N})
Mine(t) == MyBegin(t) .. MyEnd(t) - 1

Init ==
    /\ job \in Jobs
    /\ pc = [t \in Thread |-> "classify"]
    /\ \E s \in Stale : size = [t \in Thread |-> [b \in Bucket |-> s]]
    /\ start = [t \in Thread |-> [b \in Bucket |-> 0]]
    /\ save = [b \in 0 .. NumBuckets |-> 0]
    /\ src = [p \in Pos |-> p]
    /\ tmp = [p \in Pos |-> Gone]
    /\ todo = [t \in Thread |-> <<>>]

Goto(t, l) == pc' = [pc EXCEPT ![t] = l]

-----------------------------------------------------------------------------
(* parallelClassification                                                  *)

V_AddToOld(t) == [b \in Bucket |->
    size[t][b] + Cardinality({p \in Mine(t) : job.bucketOf[p] = b})]

\* classifyLocally, which clears the counters first.
Counted(t) == [b \in Bucket |->
    Cardinality({p \in Mine(t) : job.bucketOf[p] = b})]

\* if (begin < end): a thread with an empty stripe keeps its counters.
Classify(t) ==
    /\ pc[t] = "classify"
    /\ size' = IF Mine(t) = {} THEN size ELSE [size EXCEPT ![t] = Counted(t)]
    /\ Goto(t, "classified")
    /\ UNCHANGED <<job, start, save, src, tmp, todo>>

OfThreads(ts, b) == SumFunctionOnSet([t \in Thread |-> size[t][b]], ts)
InBuckets(bs) == SumFunctionOnSet([b \in Bucket |-> OfThreads(Thread, b)], bs)

StartOf(t, b) == InBuckets(0 .. b - 1) + OfThreads(0 .. t - 1, b)

\* Thread 0, between the two barriers.
PrefixSums ==
    /\ \A t \in Thread : pc[t] = "classified"
    /\ start' = [t \in Thread |-> [b \in Bucket |-> StartOf(t, b)]]
    /\ save' = [b \in 0 .. NumBuckets |-> InBuckets(0 .. b - 1)]
    /\ pc' = [t \in Thread |-> "scatter"]
    /\ UNCHANGED <<job, size, src, tmp, todo>>

-----------------------------------------------------------------------------
(* distributeElements: ++bs[*oracle] after each element.                   *)

Target(t, p) ==
    start[t][job.bucketOf[p]]
    + Cardinality({r \in Mine(t) : r < p /\ job.bucketOf[r] = job.bucketOf[p]})

\* The array a once the elements of the places ps were moved away.
Vacated(a, ps) == [p \in Pos |-> IF ~Trivial /\ p \in ps THEN Gone ELSE a[p]]

Scatter(t) ==
    /\ pc[t] = "scatter"
    /\ tmp' = [q \in Pos |->
                  IF \E p \in Mine(t) : Target(t, p) = q
                    THEN src[CHOOSE p \in Mine(t) : Target(t, p) = q]
                    ELSE tmp[q]]
    /\ src' = Vacated(src, Mine(t))
    /\ Goto(t, "scattered")
    /\ UNCHANGED <<job, size, start, save, todo>>

-----------------------------------------------------------------------------
(* Who finishes what.  A piece of work is a range of places, to be sorted  *)
(* ("sort", if it is small), moved if the caller sorts the array src       *)
(* ("move"), or moved in any case ("shared").                              *)

Work(kind, lo, hi) == [kind |-> kind, lo |-> lo, hi |-> hi]
SortAndMove(b) == Work("sort", save[b], save[b + 1])
Move(b) == Work("move", save[b], save[b + 1])

IsEqualityBucket(b) == b % 2 = 1 /\ b < NumBuckets - 2

\* sort_and_move(i) for i = lo, lo + 1, .. below hi
SortAll(lo, hi) ==
    [i \in 1 .. (IF lo < hi THEN hi - lo ELSE 0) |-> SortAndMove(lo + i - 1)]

\* sort_and_move(i); move(i + 1) for i = lo, lo + 2, .. below hi
PairsFrom(lo, hi) ==
    [i \in 1 .. (IF lo < hi THEN 2 * ((hi - lo + 1) \div 2) ELSE 0) |->
        IF i % 2 = 1 THEN SortAndMove(lo + i - 1) ELSE Move(lo + i - 1)]

\* Without equality buckets every thread gets as many buckets.
PlainWork(t) ==
    LET perThread == (NumBuckets + T - 1) \div T
    IN  SortAll(Min({t * perThread, NumBuckets}), Min({(t + 1) * perThread, NumBuckets}))

FirstBucket(t) == Max({b \in 0 .. NumBuckets : save[b] <= MyBegin(t)})
LastBucket(t) ==
    Min({b \in FirstBucket(t) .. NumBuckets : save[b] >= MyEnd(t)})

V_KeepFirst(t) == FirstBucket(t)

\* The first bucket that begins in t's stripe, or an equality bucket's next.
FirstFull(t) ==
    LET b == FirstBucket(t)
    IN  IF IsEqualityBucket(b) \/ MyBegin(t) > save[b] THEN b + 1 ELSE b

\* The parts of equality buckets that lie in t's stripe.
SharedFirst(t) ==
    LET b == FirstBucket(t)
    IN  IF IsEqualityBucket(b)
          THEN <<Work("shared", MyBegin(t), Min({MyEnd(t), save[b + 1]}))>>
          ELSE <<>>

SharesLast(t) == FirstFull(t) < LastBucket(t) /\ IsEqualityBucket(LastBucket(t) - 1)

SharedLast(t) ==
    IF SharesLast(t)
      THEN <<Work("shared", save[LastBucket(t) - 1], MyEnd(t))>>
      ELSE <<>>

\* The remaining buckets first .. last - 1.
FullBuckets(first, last) ==
    LET moveFirst == IsEqualityBucket(first)
        first2 == IF moveFirst THEN first + 1 ELSE first
        sortLast == first2 < last /\ last % 2 = 0 /\ first2 < NumBuckets - 2
        last2 == IF sortLast THEN last - 1 ELSE last
        endEqb == Min({last2, NumBuckets - 2})
    IN  (IF moveFirst THEN <<Move(first)>> ELSE <<>>)
        \o (IF sortLast THEN <<SortAndMove(last - 1)>> ELSE <<>>)
        \o PairsFrom(first2, endEqb)
        \o SortAll(endEqb, last2)

EqualWork(t) ==
    LET last == IF SharesLast(t) THEN LastBucket(t) - 1 ELSE LastBucket(t)
    IN  SharedFirst(t) \o SharedLast(t)
        \o (IF FirstFull(t) < last THEN FullBuckets(FirstFull(t), last) ELSE <<>>)

V_NoBarrier == TRUE
AllScattered == \A u \in Thread : pc[u] # "scatter"

\* shared_->sync.barrier(), and the buckets of thread t.
DivideBuckets(t) ==
    /\ pc[t] = "scattered"
    /\ AllScattered
    /\ todo' = [todo EXCEPT ![t] = IF job.equal THEN EqualWork(t) ELSE PlainWork(t)]
    /\ Goto(t, "finish")
    /\ UNCHANGED <<job, size, start, save, src, tmp>>

-----------------------------------------------------------------------------
\* An element's key decreases with its place, so that scattering sorts nothing.
Before(x, y) == x > y

\* The k-th element, from 0, of those at the places ps of the array a.
IsKth(a, ps, k, x) ==
    /\ Cardinality({q \in ps : Before(a[q], x)}) <= k
    /\ k < Cardinality({q \in ps : ~Before(x, a[q])})

\* The array a with the piece w sorted.
SortedOn(a, w) ==
    LET ps == w.lo .. w.hi - 1
    IN  [p \in Pos |-> IF p \in ps
                         THEN CHOOSE x \in {a[q] : q \in ps} : IsKth(a, ps, p - w.lo, x)
                         ELSE a[p]]

SortedNow(w) == job.lastLevel \/ w.hi - w.lo <= BaseCase

\* Whether the piece leaves tmp.
Leaves(w) ==
    \/ w.kind = "shared"
    \/ w.kind = "move" /\ job.inInput
    \/ w.kind = "sort" /\ job.inInput /\ SortedNow(w)

\* Sorting or moving an empty bucket does nothing.
HasPlaces(w) == w.lo < w.hi
Pending(t) == {i \in DOMAIN todo[t] : HasPlaces(todo[t][i])}

FinishPiece(t) ==
    /\ pc[t] = "finish"
    /\ Pending(t) # {}
    /\ LET w  == todo[t][Min(Pending(t))]
           ps == w.lo .. w.hi - 1
           a  == IF w.kind = "sort" /\ SortedNow(w) THEN SortedOn(tmp, w) ELSE tmp
       IN  IF Leaves(w)
             THEN /\ src' = [p \in Pos |-> IF p \in ps THEN a[p] ELSE src[p]]
                  /\ tmp' = Vacated(a, ps)
             ELSE tmp' = a /\ UNCHANGED src
    /\ todo' = [todo EXCEPT ![t] = SubSeq(@, Min(Pending(t)) + 1, Len(@))]
    /\ UNCHANGED <<job, pc, size, start, save>>

\* Everybody is at the last barrier; local_.reset() follows.
AllDone == \A t \in Thread : pc[t] = "finish" /\ Pending(t) = {}

Terminated == AllDone /\ UNCHANGED vars

Step(t) ==
    Classify(t) \/ Scatter(t) \/ DivideBuckets(t) \/ FinishPiece(t)

Next == PrefixSums \/ (\E t \in Thread : Step(t)) \/ Terminated

Spec == Init /\ [][Next]_vars

-----------------------------------------------------------------------------
PC == {"classify", "classified", "scatter", "scattered", "finish"}

TypeOK ==
    /\ job.bucketOf \in [Pos -> Bucket]
    /\ pc \in [Thread -> PC]
    /\ size \in [Thread -> [Bucket -> Nat]]
    /\ start \in [Thread -> [Bucket -> 0 .. N]]
    /\ save \in [0 .. NumBuckets -> 0 .. N]
    /\ src \in [Pos -> Pos \cup {Gone}] /\ tmp \in [Pos -> Pos \cup {Gone}]
    /\ \A t \in Thread : \A i \in DOMAIN todo[t] :
          LET w == todo[t][i] IN HasPlaces(w) => w.lo \in Pos /\ w.hi - 1 \in Pos

Elements(b) == {p \in Pos : job.bucketOf[p] = b}
Places(b) == save[b] .. save[b + 1] - 1
Summed == \A t \in Thread : pc[t] \notin {"classify", "classified"}

(* The boundaries a partitioning step hands to its caller, who queues or   *)
(* sorts the ranges between them, are those of the elements it was given.  *)
BoundariesRight ==
    Summed =>
        /\ save[0] = 0 /\ save[NumBuckets] = N
        /\ \A b \in Bucket : save[b + 1] - save[b] = Cardinality(Elements(b))

Overlap(v, w) == (v.lo .. v.hi - 1) \cap (w.lo .. w.hi - 1) # {}

(* Whoever sorts a bucket has it for himself: no other thread has yet to   *)
(* move, or to sort, any part of it.                                       *)
SortedAlone ==
    \A t, u \in Thread : t # u =>
        \A i \in DOMAIN todo[t], j \in DOMAIN todo[u] :
            todo[t][i].kind = "sort" => ~Overlap(todo[t][i], todo[u][j])

(* A bucket that will be partitioned again is complete in tmp, where the   *)
(* next step expects it.  Every other bucket is finished: complete in the  *)
(* array the caller sorts, and in order unless all its elements are equal. *)
Continues(b) ==
    /\ ~job.lastLevel
    /\ save[b + 1] - save[b] > BaseCase
    /\ ~(job.equal /\ IsEqualityBucket(b))

InOrder(a, b) == \A p \in Places(b) : p - 1 \in Places(b) => Before(a[p - 1], a[p])

Placement ==
    AllDone => \A b \in Bucket :
        LET a == IF job.inInput /\ ~Continues(b) THEN src ELSE tmp
        IN  /\ {a[p] : p \in Places(b)} = Elements(b)
            /\ Continues(b) \/ (job.equal /\ IsEqualityBucket(b)) \/ InOrder(a, b)

(* "Process remaining buckets.  Buckets are not shared."  (partitioning    *)
(* .hpp:260): no place is finished twice.                                  *)
BucketsNotShared ==
    \A t, u \in Thread : \A i \in DOMAIN todo[t], j \in DOMAIN todo[u] :
        <<t, i>> # <<u, j>> => ~Overlap(todo[t][i], todo[u][j])
=============================================================================
