-------------------------- MODULE InPlacePartition --------------------------
(***************************************************************************)
(* One partitioning step of IPS4o (ips4o/partitioning.hpp, partition):     *)
(* classification into buffers that flush full blocks back to the stripe,  *)
(* movement of empty blocks, block permutation (BlockPermutation), and the *)
(* margins, the ends of buckets that do not fill a block.  With one thread *)
(* it is partition<false>, with more partition<true>.                      *)
(*                                                                         *)
(* Between two barriers a thread's work on its own stripe or its own       *)
(* bucket is one action; blocks moved between stripes and single accesses  *)
(* of the permutation are actions of their own.  A barrier lets all pass   *)
(* at once.                                                                *)
(***************************************************************************)
EXTENDS BlockPermutation, FiniteSets, FiniteSetsExt, SequencesExt

CONSTANT Inputs     \* the steps tried

ASSUME InputsAssumption ==
    \A i \in Inputs :
        /\ i.threads \in Nat \ {0} /\ i.buckets \in Nat \ {0} /\ i.trivial \in BOOLEAN
        /\ i.labels \in Seq(0 .. i.buckets - 1)
        /\ Len(i.labels) >= i.threads * BlockSize  \* numThreadsFor: a block per thread

VARIABLES
    buffers,        \* buffers[t][b]: elements in the buffer of t for bucket b
    firstBlock,     \* first_block of every thread
    firstEmpty,     \* first_empty_block of every thread
    move,           \* move[t]: the locals of moveEmptyBlocks
    saved,          \* saved[t]: what saveMargins returned, [bucket, count]
    sharedOverflow  \* shared_->overflow: the thread whose block it is, or -1

vars == <<input, a, bucketStart, ptr, reading, swap, overflow, me, pc,
          buffers, firstBlock, firstEmpty, move, saved, sharedOverflow>>
mvars == <<buffers, firstBlock, firstEmpty, move, saved, sharedOverflow>>

NoMove == [bucket |-> -1, from |-> 0, reserved |-> 0, write |-> 0, end |-> 0]

Init ==
    /\ input \in Inputs
    /\ a = [p \in 0 .. N - 1 |-> input.labels[p + 1]]
    /\ bucketStart = [b \in 0 .. NumBuckets |-> 0]
    /\ ptr = [b \in Bucket |-> [w |-> 0, r |-> 0]]
    /\ reading = [b \in Bucket |-> 0]
    /\ swap = [t \in Thread |-> <<<<>>, <<>>>>]
    /\ overflow = [t \in Thread |-> <<>>]
    /\ me = [t \in Thread |-> AtStart(t)]
    /\ pc = [t \in Thread |-> "classify"]
    /\ buffers = [t \in Thread |-> [b \in Bucket |-> 0]]
    /\ firstBlock = [t \in Thread |-> 0]
    /\ firstEmpty = [t \in Thread |-> 0]
    /\ move = [t \in Thread |-> NoMove]
    /\ saved = [t \in Thread |-> [bucket |-> -1, count |-> 0]]
    /\ sharedOverflow = -1

\* All threads wait at the barrier after phase "from" and pass it together.
Barrier(from, to) ==
    /\ \A t \in Thread : pc[t] = from
    /\ pc' = [t \in Thread |-> to]

-----------------------------------------------------------------------------
(* Local classification *)

StripeAt(t) == Align((2 * t * N + T) \div (2 * T))  \* i * elements_per_thread + 0.5
MyBegin(t) == IF T = 1 THEN 0 ELSE StripeAt(t)
MyEnd(t) == IF T = 1 THEN N ELSE Min({StripeAt(t + 1), N})

\* The elements of bucket b in stripe t up to place p.
Rank(t, b, p) == Cardinality({q \in MyBegin(t) .. p : a[q] = b})

\* A full buffer is flushed by the next element for it.
V_Flushes(t, p) == (Rank(t, a[p], p) - 1) % BlockSize = 0
Flushes(t, p) == LET r == Rank(t, a[p], p) IN r > 1 /\ (r - 1) % BlockSize = 0
Mine(t) == MyBegin(t) .. MyEnd(t) - 1
Flushed(t) == {p \in Mine(t) : Flushes(t, p)}

\* The k-th flush, from 0, writes the k-th block of the stripe.
FlushAt(t, k) == CHOOSE p \in Flushed(t) : Cardinality({q \in Flushed(t) : q < p}) = k

BucketSize(t, b) == Rank(t, b, MyEnd(t) - 1)
Buffered(t, b) ==
    BucketSize(t, b) - BlockSize * Cardinality({p \in Flushed(t) : a[p] = b})

\* bucket_start_[i + 1] += the elements of buckets 0 .. i
AddSizes(t) ==
    [i \in 0 .. NumBuckets |-> bucketStart[i] + Cardinality({p \in Mine(t) : a[p] < i})]

Classify(t) ==
    LET empty == MyBegin(t) + BlockSize * Cardinality(Flushed(t)) IN
    /\ pc[t] = "classify"
    /\ firstBlock' = [firstBlock EXCEPT ![t] = MyBegin(t)]
    /\ firstEmpty' = [firstEmpty EXCEPT ![t] = empty]
    /\ bucketStart' = AddSizes(t)
    /\ buffers' = [buffers EXCEPT ![t] = [b \in Bucket |-> Buffered(t, b)]]
    /\ a' = [p \in DOMAIN a |->
               IF p \notin Mine(t) THEN a[p]
               ELSE IF p < empty THEN a[FlushAt(t, (p - MyBegin(t)) \div BlockSize)] ELSE Gone]
    /\ Goto(t, "classified")
    /\ UNCHANGED <<input, ptr, reading, swap, overflow, me, move, saved, sharedOverflow>>
-----------------------------------------------------------------------------
(* Movement of empty blocks *)

BlockStart(b) == Align(bucketStart[b])

\* Buckets that start in the stripe of t: RangeStart(t) .. RangeEnd(t) - 1.
RangeStart(t) == Min({b \in 0 .. NumBuckets : BlockStart(b) >= MyBegin(t)})
RangeEnd(t) ==
    IF t = T - 1 THEN NumBuckets
    ELSE Min({b \in RangeStart(t) .. NumBuckets : b = NumBuckets \/ BlockStart(b) >= MyEnd(t)})
Overlaps(t) == BlockStart(RangeEnd(t)) > MyEnd(t)

\* Full blocks, in elements, that the stripes S have in bucket b after classification.
Area(b) == BlockStart(b) .. BlockStart(b + 1) - 1
FlushedBy(S) == UNION {firstBlock[u] .. firstEmpty[u] - 1 : u \in S}
FlushedIn(b, S) == Cardinality(Area(b) \cap FlushedBy(S))
FirstEmptyInBucket(b) == BlockStart(b) + FlushedIn(b, Thread)

\* "Threads to our left will move this many blocks".
V_NoReserve(t, b) == 0
Reserved(t, b) ==
    IF MyBegin(t) > BlockStart(b)
    THEN MyBegin(t) - BlockStart(b) - FlushedIn(b, 0 .. t - 1)
    ELSE 0

\* read_from_thread, one past the last stripe with blocks of the bucket.
ReadFrom(t, b) ==
    Max({t} \cup {u \in t + 1 .. T - 1 : BlockStart(b + 1) > firstBlock[u]}) + 1

\* Case 1: a bucket inside the stripe, full up to the stripe's first empty block.
FullUpTo(t, b) == Max({BlockStart(b), Min({firstEmpty[t], BlockStart(b + 1)})})
PtrAt(b, stop) == [w |-> BlockStart(b), r |-> stop - BlockSize]

StartMove(t) ==
    LET last == RangeEnd(t) - 1 IN
    /\ pc[t] = "move"
    /\ ptr' = [b \in Bucket |->
                 IF b \in RangeStart(t) .. (IF Overlaps(t) THEN last - 1 ELSE last)
                 THEN PtrAt(b, FullUpTo(t, b)) ELSE ptr[b]]
    /\ IF Overlaps(t)
       THEN /\ move' = [move EXCEPT ![t] =
                 [bucket |-> last, from |-> ReadFrom(t, last), reserved |-> Reserved(t, last),
                  write |-> Max({firstEmpty[t], BlockStart(last)}),
                  end |-> Min({FirstEmptyInBucket(last), MyEnd(t)})]]
            /\ Goto(t, "moveBlocks")
       ELSE move' = move /\ Goto(t, "moved")
    /\ UNCHANGED <<input, a, bucketStart, reading, swap, overflow, me,
                   buffers, firstBlock, firstEmpty, saved, sharedOverflow>>

\* One turn of the loop: take blocks from the next stripe to the left, or skip
\* it when threads to our left have reserved all it has.
MoveBlocks(t) ==
    LET m == move[t]
        from == m.from - 1
        readEnd == Min({firstEmpty[from], BlockStart(m.bucket + 1)})
        range == readEnd - firstBlock[from]
        read == readEnd - m.reserved
        size == Min({range - m.reserved, m.end - m.write})
    IN
    /\ pc[t] = "moveBlocks"
    /\ m.write < m.end
    /\ IF m.reserved >= range
       THEN /\ move' = [move EXCEPT ![t].from = from, ![t].reserved = @ - range]
            /\ UNCHANGED a
       ELSE /\ move' = [move EXCEPT ![t].from = from, ![t].reserved = 0, ![t].write = @ + size]
            /\ a' = [p \in DOMAIN a |->
                       IF p \in m.write .. m.write + size - 1 THEN a[read - size + p - m.write]
                       ELSE IF p \in read - size .. read - 1 THEN Gone ELSE a[p]]
    /\ UNCHANGED <<input, bucketStart, ptr, reading, swap, overflow, me, pc,
                   buffers, firstBlock, firstEmpty, saved, sharedOverflow>>

EndMove(t) ==
    LET b == move[t].bucket IN
    /\ pc[t] = "moveBlocks"
    /\ move[t].write >= move[t].end
    /\ ptr' = IF MyBegin(t) <= BlockStart(b)
              THEN [ptr EXCEPT ![b] = PtrAt(b, FirstEmptyInBucket(b))] ELSE ptr
    /\ move' = [move EXCEPT ![t] = NoMove]
    /\ Goto(t, "moved")
    /\ UNCHANGED <<input, a, bucketStart, reading, swap, overflow, me,
                   buffers, firstBlock, firstEmpty, saved, sharedOverflow>>

\* sequentialClassification sets all pointers by the one first empty block.
SetPointers(t) ==
    /\ pc[t] = "classified" /\ T = 1
    /\ ptr' = [b \in Bucket |-> PtrAt(b, FullUpTo(t, b))]
    /\ Goto(t, "moved")
    /\ UNCHANGED <<input, a, bucketStart, reading, swap, overflow, me, mvars>>
-----------------------------------------------------------------------------
(* Permutation and margins *)

PermuteBlocks(t) == PermuteStep(t) /\ UNCHANGED mvars

Publish(t) ==
    /\ pc[t] = "permuted"
    /\ sharedOverflow' = IF overflow[t] # <<>> THEN t ELSE sharedOverflow
    /\ Goto(t, IF T = 1 THEN "margins" ELSE "published")
    /\ me' = [me EXCEPT ![t].bucket = IF T = 1 THEN 0 ELSE @]
    /\ UNCHANGED <<input, a, bucketStart, ptr, reading, swap, overflow,
                   buffers, firstBlock, firstEmpty, move, saved>>

bucketsPerThread == (NumBuckets + T - 1) \div T
FirstBucket(t) == Min({NumBuckets, t * bucketsPerThread})
LastBucket(t) == Min({NumBuckets, (t + 1) * bucketsPerThread})

\* The bucket that reaches into the last block of the area of t from before it.
LastInBlock(t, start) ==
    Max({b \in 0 .. LastBucket(t) - 1 : bucketStart[b] <= start})

\* Save what lies behind the end of that bucket if its last block was written.
SaveMargins(t) ==
    LET tail == bucketStart[LastBucket(t)]
        end == Align(tail)
        b == LastInBlock(t, end - BlockSize)
        excess == bucketStart[b + 1] .. end - 1
        needed == tail # end /\ end <= N /\ ptr[b].w >= end
    IN
    /\ pc[t] = "save"
    /\ IF needed
       THEN /\ saved' = [saved EXCEPT ![t] = [bucket |-> b, count |-> Cardinality(excess)]]
            /\ swap' = [swap EXCEPT ![t][1] =
                          [k \in 1 .. Cardinality(excess) |-> a[bucketStart[b + 1] + k - 1]]]
            /\ a' = IF input.trivial THEN a
                    ELSE [p \in DOMAIN a |-> IF p \in excess THEN Gone ELSE a[p]]
       ELSE UNCHANGED <<saved, swap, a>>
    /\ me' = [me EXCEPT ![t].bucket = FirstBucket(t)]
    /\ Goto(t, "saved")
    /\ UNCHANGED <<input, bucketStart, ptr, reading, overflow,
                   buffers, firstBlock, firstEmpty, move, sharedOverflow>>
-----------------------------------------------------------------------------
(* writeMargins: bucket i gets what its blocks do not hold *)

TakesOverflow(i) == i = OverflowBucket /\ sharedOverflow # -1
TakesSwap(t, i) == i = saved[t].bucket /\ saved[t].count > 0
V_Excess(i) == {}
Excess(i) ==
    IF ptr[i].w > bucketStart[i + 1] /\ bucketStart[i + 1] - bucketStart[i] > BlockSize
    THEN bucketStart[i + 1] .. ptr[i].w - 1 ELSE {}

\* The first source is one of three, then come the buffers of all threads.
FirstSource(t, i) ==
    CASE TakesOverflow(i) -> overflow[sharedOverflow]
      [] ~TakesOverflow(i) /\ TakesSwap(t, i) -> swap[t][1]
      [] OTHER -> [k \in 1 .. Cardinality(Excess(i)) |-> a[bucketStart[i + 1] + k - 1]]
\* Elements of bucket i in the buffers of all threads.
InBuffers(i) == SumFunctionOnSet([u \in Thread |-> buffers[u][i]], Thread)
FromBuffers(i) == [k \in 1 .. InBuffers(i) |-> i]

\* They fill the head of the bucket and go on behind its written blocks; the
\* overflow block was counted as written and is not there.
HeadRoom(i) == BlockStart(i) - bucketStart[i]
TailAt(i) == IF TakesOverflow(i) THEN ptr[i].w - BlockSize ELSE ptr[i].w
Slot(i, k) == IF k <= HeadRoom(i) THEN bucketStart[i] + k - 1 ELSE TailAt(i) + k - HeadRoom(i) - 1

WriteMargin(t) ==
    LET i == me[t].bucket
        source == FirstSource(t, i) \o FromBuffers(i)
        taken == IF TakesOverflow(i) \/ TakesSwap(t, i) THEN {} ELSE Excess(i)
    IN
    /\ pc[t] = "margins" /\ i < LastBucket(t)
    /\ a' = [p \in DOMAIN a |->
               LET K == {k \in DOMAIN source : Slot(i, k) = p}
               IN  IF K # {} THEN source[CHOOSE k \in K : TRUE]
                   ELSE IF p \in taken THEN Gone ELSE a[p]]
    /\ buffers' = [u \in Thread |-> [buffers[u] EXCEPT ![i] = 0]]
    /\ overflow' = IF TakesOverflow(i) THEN [overflow EXCEPT ![sharedOverflow] = <<>>]
                   ELSE overflow
    /\ swap' = IF ~TakesOverflow(i) /\ TakesSwap(t, i) THEN [swap EXCEPT ![t][1] = <<>>] ELSE swap
    /\ me' = [me EXCEPT ![t].bucket = i + 1]
    /\ UNCHANGED <<input, bucketStart, ptr, reading, pc,
                   firstBlock, firstEmpty, move, saved, sharedOverflow>>

EndMargins(t) ==
    /\ pc[t] = "margins" /\ me[t].bucket >= LastBucket(t)
    /\ Goto(t, "done")
    /\ UNCHANGED <<input, a, bucketStart, ptr, reading, swap, overflow, me, mvars>>
-----------------------------------------------------------------------------
Barriers ==
    /\ \/ T > 1 /\ Barrier("classified", "move")
       \/ Barrier("moved", "pick")
       \/ Barrier("published", "save")
       \/ Barrier("saved", "margins")
    /\ UNCHANGED <<input, a, bucketStart, ptr, reading, swap, overflow, me, mvars>>

Step(t) ==
    \/ Classify(t) \/ SetPointers(t) \/ StartMove(t) \/ MoveBlocks(t) \/ EndMove(t)
    \/ PermuteBlocks(t) \/ Publish(t)
    \/ SaveMargins(t) \/ WriteMargin(t) \/ EndMargins(t)

Done == \A t \in Thread : pc[t] = "done"
Stop == Done /\ UNCHANGED vars

Next == Barriers \/ (\E t \in Thread : Step(t)) \/ Stop

\* Every thread keeps running.  Threads of the largest team; idle ones have no step.
MaxThread == Max({i.threads : i \in Inputs})
Fairness ==
    /\ WF_vars(Barriers)
    /\ \A t \in 0 .. MaxThread - 1 : WF_vars(t \in Thread /\ Step(t))
Spec == Init /\ [][Next]_vars /\ Fairness
-----------------------------------------------------------------------------
Element == Bucket \cup {Gone}
Locations == {"classify", "classified", "move", "moveBlocks", "moved", "pick", "decRead", "read",
              "stopRead", "noBlock", "incWrite", "wait", "write", "look", "permuted",
              "published", "save", "saved", "margins", "done"}

\* The types of what the threads share, and of their buffers and swap blocks:
\* in particular no buffer or block ever holds more than kBlockSize elements
\* and the count of readers stays within the number of threads.
TypeOK ==
    /\ a \in [0 .. N - 1 -> Element]
    /\ bucketStart \in [0 .. NumBuckets -> 0 .. N]
    /\ \A b \in Bucket : reading[b] \in 0 .. T /\ ptr[b].w % BlockSize = 0 /\ ptr[b].r % BlockSize = 0
    /\ \A t \in Thread :
        /\ pc[t] \in Locations
        /\ \A b \in Bucket : buffers[t][b] \in 0 .. BlockSize
        /\ \A block \in {swap[t][1], swap[t][2], overflow[t]} :
            block \in Seq(Element) /\ Len(block) <= BlockSize

\* "All buckets must consist of full blocks followed by empty blocks"
\* (empty_block_movement.hpp:47-48) when the permutation starts, the pointers
\* of each bucket telling where it begins and where its last full block ends;
\* and each bucket has more elements than the full blocks of it hold, because
\* only the next element flushes a buffer (local_classification.hpp:59-64).
FullBlocksOf(c) == {p \in 0 .. N - 1 : p % BlockSize = 0 /\ a[p] = c}
BlocksThenEmpty(b, stop) ==
    \A p \in Area(b) :
        IF p < stop THEN p < N /\ a[p] \in Bucket /\ a[p] = a[p - (p % BlockSize)]
        ELSE p < N => a[p] = Gone
FullBlocksFirst ==
    (\A t \in Thread : pc[t] = "moved") =>
        /\ \A b, c \in 0 .. NumBuckets :
             b <= c => bucketStart[b] \in 0 .. N /\ bucketStart[b] <= bucketStart[c]
        /\ \A b \in Bucket : \E stop \in BlockStart(b) .. BlockStart(b + 1) :
             stop % BlockSize = 0 /\ ptr[b] = PtrAt(b, stop) /\ BlocksThenEmpty(b, stop)
        /\ \A c \in Bucket :
             \/ FullBlocksOf(c) = {}
             \/ BlockSize * Cardinality(FullBlocksOf(c)) < bucketStart[c + 1] - bucketStart[c]

\* When all threads are through, every element has come to its bucket: no place
\* was left out or filled from a wrong source, and nothing was lost to a place
\* an element had already been moved away from.
Partitioned ==
    Done => \A p \in 0 .. N - 1 :
        a[p] # Gone /\ p \in bucketStart[a[p]] .. bucketStart[a[p] + 1] - 1

\* Every thread gets through the step: no writer waits for a reader that never
\* stops, none waits at a barrier for good.
StepEnds == <>Done
=============================================================================
