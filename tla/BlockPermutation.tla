-------------------------- MODULE BlockPermutation --------------------------
(***************************************************************************)
(* The block permutation of IPS4o (block_permutation.hpp with the atomics  *)
(* of bucket_pointers.hpp).  Every bucket is a run of full blocks followed *)
(* by empty ones; its packed pointer holds the next block to write and the *)
(* last block to read.  Threads pick blocks up at the read pointers, put   *)
(* them down at the write pointers, and change places with wrong blocks    *)
(* they meet there.  One action per atomic access: a writer that finds its *)
(* block behind the read pointer must still wait for those who read it.    *)
(*                                                                         *)
(* An element is the number of its bucket.  A place or a swap block whose  *)
(* element was moved away holds Gone.                                      *)
(***************************************************************************)
EXTENDS Integers, Sequences

CONSTANT BlockSize      \* kBlockSize

ASSUME BlockAssumption == BlockSize \in Nat \ {0}

VARIABLES
    input,          \* the step: [threads, buckets, labels, trivial]
    a,              \* a[p]: the element at begin_ + p
    bucketStart,    \* bucket_start_
    ptr,            \* ptr[b]: the pointers w and r of bucket b
    reading,        \* reading[b]: num_reading_ of bucket b
    swap,           \* swap[t]: the two swap blocks of t, empty or full
    overflow,       \* overflow[t]: the overflow block of t, empty or full
    me,             \* me[t]: the local variables of permuteBlocks
    pc

pvars == <<input, a, bucketStart, ptr, reading, swap, overflow, me, pc>>

T == input.threads
N == Len(input.labels)
NumBuckets == input.buckets
Thread == 0 .. T - 1
Bucket == 0 .. NumBuckets - 1
Gone == -1

Goto(t, l) == pc' = [pc EXCEPT ![t] = l]

\* alignToNextBlock
Align(x) == ((x + BlockSize - 1) \div BlockSize) * BlockSize
Places(p) == p .. p + BlockSize - 1
BlockAt(p) == [k \in 1 .. BlockSize |-> a[p + k - 1]]
WithBlock(p, block) ==
    [q \in DOMAIN a |-> IF q \in Places(p) THEN block[q - p + 1] ELSE a[q]]
Vacated(p) == WithBlock(p, [k \in 1 .. BlockSize |-> Gone])

\* "the last bucket that has more than one full block", -1 if there is none.
V_OverflowBucket ==
    LET Large == {b \in Bucket : bucketStart[b + 1] - bucketStart[b] > BlockSize}
    IN  IF Large = {} THEN -1 ELSE CHOOSE b \in Large : \A c \in Large : c >= b
OverflowBucket ==
    LET Large == {b \in Bucket : bucketStart[b + 1] - bucketStart[b] > BlockSize}
    IN  IF Large = {} THEN -1 ELSE CHOOSE b \in Large : \A c \in Large : c <= b

\* "Not allowed to write to this offset, to avoid overflow"
MaxOffset == Align(N + 1) - BlockSize

StartBucket(t) == ((t * NumBuckets) \div T) % NumBuckets
AtStart(t) == [bucket |-> StartBucket(t), left |-> NumBuckets, at |-> 0,
               dest |-> 0, current |-> 1]
-----------------------------------------------------------------------------
(* classifyAndReadBlock *)

\* decRead, first access: "Must not be moved after the following fetch_sub".
StartRead(t) ==
    LET b == me[t].bucket IN
    /\ pc[t] = "pick"
    /\ reading' = [reading EXCEPT ![b] = @ + 1]
    /\ Goto(t, "decRead")
    /\ UNCHANGED <<input, a, bucketStart, ptr, swap, overflow, me>>

\* decRead, second access: both pointers are read and one is moved at once.
DecRead(t) ==
    LET b == me[t].bucket IN
    /\ pc[t] = "decRead"
    /\ ptr' = [ptr EXCEPT ![b].r = @ - BlockSize]
    /\ me' = [me EXCEPT ![t].at = ptr[b].r]
    /\ Goto(t, IF ptr[b].r < ptr[b].w THEN "noBlock" ELSE "read")
    /\ UNCHANGED <<input, a, bucketStart, reading, swap, overflow>>

ReadBlock(t) ==
    /\ pc[t] = "read"
    /\ swap' = [swap EXCEPT ![t][1] = BlockAt(me[t].at)]
    /\ a' = Vacated(me[t].at)
    /\ Goto(t, "stopRead")
    /\ UNCHANGED <<input, bucketStart, ptr, reading, overflow, me>>

\* stopRead after a block was read; its first element names its bucket.
StopRead(t) ==
    /\ pc[t] = "stopRead"
    /\ reading' = [reading EXCEPT ![me[t].bucket] = @ - 1]
    /\ me' = [me EXCEPT ![t].dest = swap[t][1][1], ![t].current = 1, ![t].at = 0]
    /\ Goto(t, "incWrite")
    /\ UNCHANGED <<input, a, bucketStart, ptr, swap, overflow>>

\* stopRead when there was none, and the next round of permuteBlocks.
V_StillReading(b) == reading[b]
OneLess(b) == reading[b] - 1
NextBucket(t) ==
    LET b == me[t].bucket IN
    /\ pc[t] = "noBlock"
    /\ reading' = [reading EXCEPT ![b] = OneLess(b)]
    /\ me' = [me EXCEPT ![t].bucket = (b + 1) % NumBuckets, ![t].left = @ - 1, ![t].at = 0]
    /\ Goto(t, IF me[t].left = 1 THEN "permuted" ELSE "pick")
    /\ UNCHANGED <<input, a, bucketStart, ptr, swap, overflow>>
-----------------------------------------------------------------------------
(* swapBlock *)

Held(t) == swap[t][me[t].current]
WithoutHeld(t) == [swap EXCEPT ![t][me[t].current] = <<>>]

\* incWrite; the block written to is empty, out of bounds, or taken.
IncWrite(t) ==
    LET b == me[t].dest
        w == ptr[b].w
        empty == w > ptr[b].r
    IN
    /\ pc[t] = "incWrite"
    /\ ptr' = [ptr EXCEPT ![b].w = @ + BlockSize]
    /\ IF empty /\ w >= MaxOffset
       THEN /\ overflow' = [overflow EXCEPT ![t] = Held(t)]
            /\ swap' = WithoutHeld(t)
            /\ Goto(t, "pick")
            /\ UNCHANGED me
       ELSE /\ me' = [me EXCEPT ![t].at = w]
            /\ Goto(t, IF empty THEN "wait" ELSE "look")
            /\ UNCHANGED <<overflow, swap>>
    /\ UNCHANGED <<input, a, bucketStart, reading>>

\* while (bp.isReading()) {}
V_NoWait(b) == TRUE
NobodyReads(b) == reading[b] = 0
WaitForReaders(t) ==
    /\ pc[t] = "wait"
    /\ NobodyReads(me[t].dest)
    /\ Goto(t, "write")
    /\ UNCHANGED <<input, a, bucketStart, ptr, reading, swap, overflow, me>>

WriteBlock(t) ==
    /\ pc[t] = "write"
    /\ a' = WithBlock(me[t].at, Held(t))
    /\ swap' = WithoutHeld(t)
    /\ me' = [me EXCEPT ![t].at = 0]
    /\ Goto(t, "pick")
    /\ UNCHANGED <<input, bucketStart, ptr, reading, overflow>>

\* The block at the write pointer stays if it belongs there; else it is swapped.
LookAtBlock(t) ==
    LET found == a[me[t].at]
        other == 3 - me[t].current
    IN
    /\ pc[t] = "look"
    /\ Goto(t, "incWrite")
    /\ IF found = me[t].dest
       THEN me' = [me EXCEPT ![t].at = 0] /\ UNCHANGED <<a, swap>>
       ELSE /\ swap' = [WithoutHeld(t) EXCEPT ![t][other] = BlockAt(me[t].at)]
            /\ a' = WithBlock(me[t].at, Held(t))
            /\ me' = [me EXCEPT ![t].dest = found, ![t].current = other, ![t].at = 0]
    /\ UNCHANGED <<input, bucketStart, ptr, reading, overflow>>

PermuteStep(t) ==
    \/ StartRead(t) \/ DecRead(t) \/ ReadBlock(t) \/ StopRead(t) \/ NextBucket(t)
    \/ IncWrite(t) \/ WaitForReaders(t) \/ WriteBlock(t) \/ LookAtBlock(t)
-----------------------------------------------------------------------------
\* No block is read, looked at or written by two threads at once, although a
\* block is handed from one thread to the next by nothing but the pointers
\* and the count of readers (bucket_pointers.hpp:103-105).
BlocksExclusive ==
    \A t, u \in Thread :
        t # u /\ pc[t] \in {"read", "look", "write"} /\ pc[u] \in {"read", "look", "write"}
            => me[t].at # me[u].at

\* At most one block of the step goes to an overflow block, it is full, and it
\* belongs to the bucket that computeOverflowBucket foresaw.
OverflowForeseen ==
    \A t \in Thread : overflow[t] # <<>> =>
        /\ overflow[t] = [k \in 1 .. BlockSize |-> OverflowBucket]
        /\ \A u \in Thread \ {t} : overflow[u] = <<>>
=============================================================================
