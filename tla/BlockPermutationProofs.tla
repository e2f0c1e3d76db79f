----------------------- MODULE BlockPermutationProofs -----------------------
(***************************************************************************)
(* Why the block permutation of IPS4o is safe, for any number of threads,  *)
(* buckets and elements and any order of the threads' steps: it begins     *)
(* with every bucket's full blocks first, no block is read, looked at or   *)
(* written by two threads at once, none lies outside the array, and at     *)
(* most one block goes to an overflow block, that of the bucket            *)
(* computeOverflowBucket foresaw.                                          *)
(*                                                                         *)
(* The argument for the permutation counts blocks.  A bucket's write       *)
(* pointer moves only for a block of the bucket that no pointer has passed *)
(* yet, so it never leaves the bucket's own area; within it, readers come  *)
(* from the right, writers from the left, and where they meet a writer     *)
(* waits for the readers.  What a write pointer has passed is a block of   *)
(* its bucket, or about to become one, and no thread leaves a bucket that  *)
(* has blocks to be moved: so when all are through, every full block is    *)
(* where it belongs.                                                       *)
(*                                                                         *)
(* What it starts from is proved phase by phase.  Classification leaves    *)
(* the full blocks of every stripe at its beginning and the sizes of all   *)
(* buckets (ClassInv).  From then on the places of a bucket that hold full *)
(* blocks and those that do not are fixed, and the k-th place to be filled *)
(* gets what the k-th last full place held, whichever thread moves it and  *)
(* when (MoveInv): the threads need no agreement but the sizes.  So the    *)
(* full blocks come first when all threads are through (FullBlocksFirst).  *)
(***************************************************************************)
EXTENDS InPlacePartition, FiniteSetTheorems, TLAPS

-----------------------------------------------------------------------------
(* Whole blocks                                                            *)

IsBlock(p) == p \in Int /\ p % BlockSize = 0

(* Facts about multiples of the block size that the provers do not find in *)
(* a larger context.                                                       *)
LEMMA Multiple == \A x \in Int : x % BlockSize = 0 <=> x = BlockSize * (x \div BlockSize)
  BY BlockAssumption DEF BlockAssumption

LEMMA IsMultiple == \A x \in Int : (BlockSize * x) % BlockSize = 0
  BY BlockAssumption DEF BlockAssumption

(* One block after and before a block is a block.                          *)
LEMMA NextBlock ==
    ASSUME NEW p, IsBlock(p)
    PROVE  IsBlock(p + BlockSize) /\ IsBlock(p - BlockSize)
  <1>1. BlockSize \in Nat \ {0} /\ p \in Int /\ p \div BlockSize \in Int
    BY BlockAssumption DEF BlockAssumption, IsBlock
  <1>2. p = BlockSize * (p \div BlockSize)
    BY <1>1, Multiple DEF IsBlock
  <1>3. p + BlockSize = BlockSize * (p \div BlockSize + 1)
    BY <1>1, <1>2
  <1>4. p - BlockSize = BlockSize * (p \div BlockSize - 1)
    BY <1>1, <1>2
  <1>5. QED
    BY <1>1, <1>3, <1>4, IsMultiple DEF IsBlock

(* Different blocks do not overlap.                                        *)
LEMMA BlocksApart ==
    ASSUME NEW p, NEW q, IsBlock(p), IsBlock(q), p < q
    PROVE  p + BlockSize <= q
  <1> DEFINE i == p \div BlockSize
             j == q \div BlockSize
  <1>1. BlockSize \in Nat \ {0} /\ p \in Int /\ q \in Int /\ i \in Int /\ j \in Int
    BY BlockAssumption DEF BlockAssumption, IsBlock
  <1>2. p = BlockSize * i /\ q = BlockSize * j
    BY <1>1, Multiple DEF IsBlock
  <1> HIDE DEF i, j
  <1>3. i < j
    BY <1>1, <1>2
  <1>4. BlockSize * (i + 1) <= BlockSize * j
    BY <1>1, <1>3
  <1>5. BlockSize * (i + 1) = BlockSize * i + BlockSize
    BY <1>1
  <1>6. QED
    BY <1>1, <1>2, <1>4, <1>5

(* alignToNextBlock goes to the next block border, at most one block       *)
(* ahead.                                                                  *)
LEMMA AlignRight ==
    ASSUME NEW x \in Nat
    PROVE  IsBlock(Align(x)) /\ Align(x) \in Nat /\ x <= Align(x) /\ Align(x) < x + BlockSize
  <1>1. BlockSize \in Nat \ {0}
    BY BlockAssumption DEF BlockAssumption
  <1>2. ((x + BlockSize - 1) \div BlockSize) * BlockSize \in Nat
        /\ x <= ((x + BlockSize - 1) \div BlockSize) * BlockSize
        /\ ((x + BlockSize - 1) \div BlockSize) * BlockSize < x + BlockSize
    BY <1>1
  <1>3. (x + BlockSize - 1) \div BlockSize \in Int
    BY <1>1
  <1>4. Align(x) = BlockSize * ((x + BlockSize - 1) \div BlockSize)
    BY <1>1, <1>3 DEF Align
  <1>5. QED
    BY <1>1, <1>2, <1>3, <1>4, IsMultiple DEF Align, IsBlock

(* alignToNextBlock keeps the order.                                       *)
LEMMA AlignMonotone ==
    ASSUME NEW x \in Nat, NEW y \in Nat, x <= y
    PROVE  Align(x) <= Align(y)
  <1>1. /\ IsBlock(Align(x)) /\ Align(x) \in Nat /\ Align(x) < x + BlockSize
        /\ IsBlock(Align(y)) /\ Align(y) \in Nat /\ y <= Align(y)
        /\ BlockSize \in Nat
    BY AlignRight, BlockAssumption DEF BlockAssumption
  <1>2. SUFFICES ASSUME Align(y) < Align(x) PROVE FALSE
    BY <1>1
  <1>3. Align(y) + BlockSize <= Align(x)
    BY <1>1, <1>2, BlocksApart
  <1>4. QED
    BY <1>1, <1>3

-----------------------------------------------------------------------------
(* The invariant                                                           *)

Size(b) == bucketStart[b + 1] - bucketStart[b]
AreaStart(b) == Align(bucketStart[b])
AreaEnd(b) == Align(bucketStart[b + 1])

(* The blocks of the area of bucket b.                                     *)
Within(p, b) == IsBlock(p) /\ AreaStart(b) <= p /\ p + BlockSize <= AreaEnd(b)

(* The partitioning step: the buckets in order, from 0 to N.               *)
Shape ==
    /\ T \in Nat \ {0} /\ NumBuckets \in Nat \ {0} /\ N \in Nat
    /\ \A b \in 0 .. NumBuckets : bucketStart[b] \in 0 .. N
    /\ \A b, c \in 0 .. NumBuckets : b <= c => bucketStart[b] <= bucketStart[c]

Permuting == {"pick", "decRead", "read", "stopRead", "noBlock",
              "incWrite", "wait", "write", "look", "permuted", "published"}
Locals == [bucket : Bucket, left : Int, at : Int, dest : Int, current : 1 .. 2]
Types ==
    /\ DOMAIN a = 0 .. N - 1
    /\ ptr \in [Bucket -> [w : Int, r : Int]]
    /\ DOMAIN reading = Bucket
    /\ DOMAIN swap = Thread /\ \A t \in Thread : DOMAIN swap[t] = 1 .. 2
    /\ DOMAIN overflow = Thread
    /\ me \in [Thread -> Locals]
    /\ pc \in [Thread -> Permuting]

(* A block full of elements of one bucket.                                 *)
FullBlock(p) ==
    /\ IsBlock(p) /\ 0 <= p /\ p + BlockSize <= N
    /\ a[p] \in Bucket /\ \A q \in Places(p) : a[q] = a[p]
BlockOf(c) == [k \in 1 .. BlockSize |-> c]

(* The blocks between the pointers are unread and full.                    *)
Between(b, p) == IsBlock(p) /\ ptr[b].w <= p /\ p <= ptr[b].r
Pointers ==
    \A b \in Bucket :
        /\ IsBlock(ptr[b].w) /\ IsBlock(ptr[b].r)
        /\ AreaStart(b) <= ptr[b].w /\ ptr[b].r + BlockSize <= AreaEnd(b)
        /\ \A p : Between(b, p) => FullBlock(p)

(* A reader's block is right of the read pointer, a writer's left of the   *)
(* write pointer, and of two that met there right of the read pointer too. *)
Writing == {"look", "wait", "write"}
ThreadOK(t) ==
    LET at == me[t].at
        b == me[t].bucket
        d == me[t].dest
    IN  /\ pc[t] = "read" => Within(at, b) /\ at > ptr[b].r /\ FullBlock(at)
        /\ pc[t] = "stopRead" => swap[t][1][1] \in Bucket /\ swap[t][1] = BlockOf(swap[t][1][1])
        /\ pc[t] \in Writing \cup {"incWrite"} => d \in Bucket /\ Held(t) = BlockOf(d)
        /\ pc[t] \in Writing => Within(at, d) /\ at + BlockSize <= ptr[d].w
        /\ pc[t] = "look" => FullBlock(at)
        /\ pc[t] \in {"wait", "write"} => at > ptr[d].r /\ at < MaxOffset
Threads == \A t \in Thread : ThreadOK(t)

PairOK(t, u) ==
    /\ pc[t] = "read" /\ pc[u] = "read" /\ me[t].bucket = me[u].bucket =>
          me[t].at # me[u].at
    /\ pc[t] \in Writing /\ pc[u] \in Writing /\ me[t].dest = me[u].dest =>
          me[t].at # me[u].at
    /\ pc[t] = "read" /\ pc[u] = "look" /\ me[t].bucket = me[u].dest =>
          me[u].at < me[t].at
    /\ pc[t] = "read" /\ pc[u] = "write" => me[t].bucket # me[u].dest
Pairs == \A t, u \in Thread : t # u => PairOK(t, u)

Readers(b) == {t \in Thread : pc[t] \in {"decRead", "read", "stopRead", "noBlock"}
                              /\ me[t].bucket = b}
Counts == \A b \in Bucket : reading[b] = Cardinality(Readers(b))

(* The blocks of bucket c that the write pointer of c has not moved for:   *)
(* those no pointer has passed, and those a thread carries or will pick up *)
(* from the place it has reserved.                                         *)
Unread(c) == {p \in 0 .. N - 1 : a[p] = c /\ \E b \in Bucket : Between(b, p)}
Carries(t, c) ==
    \/ pc[t] \in {"read", "look"} /\ a[me[t].at] = c
    \/ pc[t] = "stopRead" /\ swap[t][1][1] = c
    \/ pc[t] = "incWrite" /\ me[t].dest = c
Carriers(c) == {t \in Thread : Carries(t, c)}
Left(c) == Cardinality(Unread(c)) + Cardinality(Carriers(c))

(* A bucket has room for the blocks written and the blocks left, and more  *)
(* elements than they hold.                                                *)
Taken(c) == ptr[c].w - AreaStart(c) + BlockSize * Left(c)
SameTaken == \A c \in Bucket : Taken(c)' = Taken(c)
Room == \A c \in Bucket : Taken(c) = 0 \/ Taken(c) < Size(c)

Overflows ==
    \A t \in Thread : overflow[t] # <<>> =>
        /\ OverflowBucket \in Bucket /\ overflow[t] = BlockOf(OverflowBucket)
        /\ ptr[OverflowBucket].w > MaxOffset
        /\ \A u \in Thread \ {t} : overflow[u] = <<>>

PermInv ==
    /\ Shape /\ Types /\ Pointers /\ Threads /\ Pairs /\ Counts /\ Room /\ Overflows

-----------------------------------------------------------------------------
(* The areas of the buckets                                                *)

(* The block size is positive.                                             *)
LEMMA Sizes == BlockSize \in Nat /\ BlockSize > 0
  BY BlockAssumption DEF BlockAssumption

(* The blocks of a bucket: their area lies in the array, rounded up, and   *)
(* starts at most one block late.                                          *)
LEMMA Areas ==
    ASSUME Shape, NEW b \in Bucket
    PROVE  /\ b \in 0 .. NumBuckets /\ b + 1 \in 0 .. NumBuckets
           /\ bucketStart[b] \in 0 .. N /\ bucketStart[b + 1] \in 0 .. N
           /\ bucketStart[b] <= bucketStart[b + 1]
           /\ IsBlock(AreaStart(b)) /\ AreaStart(b) \in Nat
           /\ IsBlock(AreaEnd(b)) /\ AreaEnd(b) \in Nat /\ AreaEnd(b) <= Align(N)
           /\ AreaStart(b) < bucketStart[b] + BlockSize
           /\ bucketStart[b + 1] <= AreaEnd(b)
           /\ Align(N) \in Nat
  <1>1. b \in 0 .. NumBuckets /\ b + 1 \in 0 .. NumBuckets /\ b <= b + 1 /\ N \in Nat
    BY DEF Shape, Bucket
  <1>2. /\ bucketStart[b] \in 0 .. N /\ bucketStart[b + 1] \in 0 .. N
        /\ bucketStart[b] <= bucketStart[b + 1]
    BY <1>1 DEF Shape
  <1>3. bucketStart[b] \in Nat /\ bucketStart[b + 1] \in Nat /\ bucketStart[b + 1] <= N
    BY <1>1, <1>2
  <1>4. QED
    BY <1>1, <1>2, <1>3, AlignRight, AlignMonotone DEF AreaStart, AreaEnd

(* The areas of two buckets do not overlap.                                *)
LEMMA AreasApart ==
    ASSUME Shape, NEW b \in Bucket, NEW c \in Bucket, b # c
    PROVE  AreaEnd(b) <= AreaStart(c) \/ AreaEnd(c) <= AreaStart(b)
  <1>1. \A x, y \in Bucket : x < y => bucketStart[x + 1] <= bucketStart[y]
    BY DEF Shape, Bucket
  <1>2. \A x, y \in Bucket : x < y => AreaEnd(x) <= AreaStart(y)
    <2> SUFFICES ASSUME NEW x \in Bucket, NEW y \in Bucket, x < y
                 PROVE  AreaEnd(x) <= AreaStart(y)
      OBVIOUS
    <2>1. bucketStart[x + 1] \in Nat /\ bucketStart[y] \in Nat
      BY Areas DEF Shape
    <2>2. QED
      BY <1>1, <2>1, AlignMonotone DEF AreaStart, AreaEnd
  <1>3. b < c \/ c < b
    BY DEF Bucket, Shape
  <1>4. QED
    BY <1>2, <1>3

(* A block is in the area of one bucket only.                              *)
LEMMA OneArea ==
    ASSUME Shape, NEW b \in Bucket, NEW c \in Bucket, NEW p, Within(p, b), Within(p, c)
    PROVE  b = c
  <1>1. p \in Int /\ AreaStart(b) <= p /\ p + BlockSize <= AreaEnd(b)
        /\ AreaStart(c) <= p /\ p + BlockSize <= AreaEnd(c)
    BY DEF Within, IsBlock
  <1>2. /\ AreaStart(b) \in Nat /\ AreaEnd(b) \in Nat /\ AreaStart(c) \in Nat /\ AreaEnd(c) \in Nat
    BY Areas
  <1>3. QED
    BY <1>1, <1>2, Sizes, AreasApart

(* What is unread between the pointers is in the area of the bucket, and   *)
(* full.                                                                   *)
LEMMA BetweenWithin ==
    ASSUME Shape, Types, Pointers, NEW b \in Bucket, NEW p, Between(b, p)
    PROVE  Within(p, b) /\ FullBlock(p)
  <1>1. /\ ptr[b].w \in Int /\ ptr[b].r \in Int /\ p \in Int
        /\ AreaStart(b) <= ptr[b].w /\ ptr[b].r + BlockSize <= AreaEnd(b)
        /\ ptr[b].w <= p /\ p <= ptr[b].r
    BY DEF Types, Locals, Pointers, Between, IsBlock
  <1>2. AreaStart(b) \in Nat /\ AreaEnd(b) \in Nat
    BY Areas
  <1>3. AreaStart(b) <= p /\ p + BlockSize <= AreaEnd(b)
    BY <1>1, <1>2, Sizes
  <1>4. QED
    BY <1>3 DEF Within, Between, Pointers

(* A block in the hands of a thread is not between the pointers.           *)
LEMMA NotBetween ==
    ASSUME PermInv, NEW t \in Thread, pc[t] \in {"read", "look", "write"}, NEW b \in Bucket
    PROVE  ~Between(b, me[t].at)
  <1> DEFINE at == me[t].at
             x == IF pc[t] = "read" THEN me[t].bucket ELSE me[t].dest
  <1>1. x \in Bucket /\ Within(at, x) /\ at \in Int
        /\ (at > ptr[x].r \/ at + BlockSize <= ptr[x].w)
    BY DEF PermInv, Types, Locals, Threads, ThreadOK, Writing, Within, IsBlock
  <1>2. SUFFICES ASSUME Between(b, at) PROVE FALSE
    OBVIOUS
  <1>3. b = x
    BY <1>1, <1>2, BetweenWithin, OneArea DEF PermInv
  <1>4. ptr[x].w \in Int /\ ptr[x].r \in Int
    BY <1>1 DEF PermInv, Types, Locals
  <1>5. QED
    BY <1>1, <1>2, <1>3, <1>4, Sizes DEF Between

(* Two threads never have the same block in their hands.                   *)
LEMMA HandsApart ==
    ASSUME PermInv, NEW t \in Thread, NEW u \in Thread, t # u,
           pc[t] \in {"read", "look", "write"}, pc[u] \in {"read", "look", "write"}
    PROVE  me[t].at # me[u].at
  <1> DEFINE Of(v) == IF pc[v] = "read" THEN me[v].bucket ELSE me[v].dest
  <1>1. ASSUME NEW v \in Thread, pc[v] \in {"read", "look", "write"}
        PROVE  Of(v) \in Bucket /\ Within(me[v].at, Of(v)) /\ me[v].at \in Int
    BY <1>1 DEF PermInv, Types, Locals, Threads, ThreadOK, Writing
  <1>2. CASE Of(t) # Of(u)
    BY <1>1, <1>2, OneArea DEF PermInv
  <1>3. CASE Of(t) = Of(u)
    <2>1. PairOK(t, u) /\ PairOK(u, t)
      BY DEF PermInv, Pairs
    <2>2. CASE pc[t] = "read" /\ pc[u] = "read"
      BY <1>3, <2>1, <2>2 DEF PairOK
    <2>3. CASE pc[t] = "read" /\ pc[u] # "read"
      BY <1>1, <1>3, <2>1, <2>3 DEF PairOK
    <2>4. CASE pc[t] # "read" /\ pc[u] = "read"
      BY <1>1, <1>3, <2>1, <2>4 DEF PairOK
    <2>5. CASE pc[t] # "read" /\ pc[u] # "read"
      BY <1>3, <2>1, <2>5 DEF PairOK, Writing
    <2>6. QED
      BY <2>2, <2>3, <2>4, <2>5
  <1>4. QED
    BY <1>2, <1>3

(* A bucket whose write pointer comes to the last block of the array with  *)
(* a block in hand is the last that has more than a block of elements.     *)
LEMMA LastBlock ==
    ASSUME Shape, NEW b \in Bucket, NEW w, IsBlock(w), AreaStart(b) <= w, w + BlockSize <= AreaEnd(b),
           w >= MaxOffset, w - AreaStart(b) + BlockSize < Size(b)
    PROVE  OverflowBucket = b /\ w = MaxOffset
  <1> DEFINE Large == {x \in Bucket : bucketStart[x + 1] - bucketStart[x] > BlockSize}
             A == Align(N)
             A1 == Align(N + 1)
  <1>1. N \in Nat /\ NumBuckets \in Nat \ {0} /\ BlockSize \in Nat /\ BlockSize > 0 /\ w \in Int
    BY Sizes DEF Shape, IsBlock
  <1>2. /\ A \in Nat /\ A1 \in Nat /\ IsBlock(A) /\ IsBlock(A1)
        /\ N <= A /\ A < N + BlockSize /\ N + 1 <= A1 /\ A <= A1
    BY <1>1, AlignRight, AlignMonotone
  <1>3. /\ AreaStart(b) \in Nat /\ AreaEnd(b) \in Nat /\ AreaEnd(b) <= A
        /\ bucketStart[b] \in Nat /\ bucketStart[b + 1] \in Nat
    BY Areas
  <1>4. A1 = A /\ AreaEnd(b) = A /\ w = A - BlockSize
    <2>1. w >= A1 - BlockSize
      BY <1>1, <1>2 DEF MaxOffset
    <2>2. QED
      BY <1>1, <1>2, <1>3, <2>1
  <1>5. b \in Large
    BY <1>1, <1>3 DEF Size
  <1>6. ASSUME NEW c \in Large, b < c
        PROVE  FALSE
    <2>1. /\ bucketStart[c + 1] \in Nat /\ bucketStart[c + 1] <= N /\ bucketStart[c] \in Nat
      BY <1>1, Areas
    <2>2. bucketStart[b + 1] <= bucketStart[c]
      BY <1>6 DEF Shape, Bucket
    <2>3. AreaEnd(b) < bucketStart[b + 1] + BlockSize
      BY <1>3, AlignRight DEF AreaEnd
    <2>4. QED
      BY <1>1, <1>2, <1>3, <1>4, <2>1, <2>2, <2>3
  <1>7. \A c \in Large : c <= b
    BY <1>1, <1>6 DEF Bucket
  <1>8. Large \subseteq Int
    BY <1>1 DEF Bucket
  <1> HIDE DEF Large
  <1>9. (CHOOSE x \in Large : \A c \in Large : c <= x) = b
    <2>1. \A x \in Large : (\A c \in Large : c <= x) => x = b
      BY <1>5, <1>7, <1>8
    <2>2. QED
      BY <1>5, <1>7, <2>1
  <1>10. OverflowBucket = b
    <2>1. OverflowBucket = IF Large = {} THEN -1
                           ELSE CHOOSE x \in Large : \A c \in Large : c <= x
      BY DEF OverflowBucket, Large
    <2>2. QED
      BY <1>5, <1>9, <2>1
  <1>11. w = MaxOffset
    BY <1>1, <1>2, <1>4 DEF MaxOffset
  <1>12. QED
    BY <1>10, <1>11

-----------------------------------------------------------------------------
(* What a step leaves alone                                                *)

(* All that comes from the input and the boundaries stays the same while   *)
(* they do.                                                                *)
LEMMA SameShape ==
    ASSUME input' = input, bucketStart' = bucketStart
    PROVE  /\ T' = T /\ N' = N /\ NumBuckets' = NumBuckets
           /\ Thread' = Thread /\ Bucket' = Bucket
           /\ MaxOffset' = MaxOffset /\ OverflowBucket' = OverflowBucket
           /\ \A b : Size(b)' = Size(b) /\ AreaStart(b)' = AreaStart(b) /\ AreaEnd(b)' = AreaEnd(b)
           /\ \A b, p : Within(p, b)' <=> Within(p, b)
           /\ Shape => Shape'
  <1>1. T' = T /\ N' = N /\ NumBuckets' = NumBuckets
    BY DEF T, N, NumBuckets
  <1>2. Thread' = Thread /\ Bucket' = Bucket
    BY <1>1 DEF Thread, Bucket
  <1>3. MaxOffset' = MaxOffset
    BY <1>1 DEF MaxOffset
  <1>4. OverflowBucket' = OverflowBucket
    BY <1>2 DEF OverflowBucket
  <1>5. \A b : Size(b)' = Size(b) /\ AreaStart(b)' = AreaStart(b) /\ AreaEnd(b)' = AreaEnd(b)
    BY DEF Size, AreaStart, AreaEnd
  <1>6. \A b, p : Within(p, b)' <=> Within(p, b)
    BY <1>5 DEF Within
  <1>7. Shape => Shape'
    BY <1>1 DEF Shape
  <1>8. QED
    BY <1>1, <1>2, <1>3, <1>4, <1>5, <1>6, <1>7

(* Putting a block into the place in a thread's hands changes no other.    *)
LEMMA PutBlock ==
    ASSUME PermInv, NEW t \in Thread, pc[t] \in {"read", "look", "write"}, NEW block,
           a' = WithBlock(me[t].at, block), input' = input
    PROVE  /\ DOMAIN a' = DOMAIN a
           /\ \A p : FullBlock(p) /\ p # me[t].at => FullBlock(p)' /\ a'[p] = a[p]
           /\ \A p \in 0 .. N - 1 : IsBlock(p) /\ p # me[t].at => a'[p] = a[p]
  <1> DEFINE at == me[t].at
  <1>1. at \in Int /\ IsBlock(at) /\ N \in Nat /\ BlockSize \in Nat /\ BlockSize > 0
        /\ DOMAIN a = 0 .. N - 1
    BY Sizes DEF PermInv, Shape, Types, Locals, Threads, ThreadOK, Writing, Within
  <1> HIDE DEF at
  <1>2. DOMAIN a' = DOMAIN a /\ \A q \in DOMAIN a : q \notin Places(at) => a'[q] = a[q]
    BY DEF WithBlock, at
  <1>3. ASSUME NEW p, IsBlock(p), p # at, NEW q \in Places(p)
        PROVE  q \notin Places(at)
    <2>1. p + BlockSize <= at \/ at + BlockSize <= p
      <3>1. p < at \/ at < p
        BY <1>1, <1>3 DEF IsBlock
      <3>2. QED
        BY <1>1, <1>3, <3>1, BlocksApart
    <2>2. QED
      BY <1>1, <1>3, <2>1 DEF Places, IsBlock
  <1>4. \A p \in 0 .. N - 1 : IsBlock(p) /\ p # at => a'[p] = a[p]
    <2>1. \A p \in 0 .. N - 1 : p \in Places(p)
      BY <1>1 DEF Places
    <2>2. QED
      BY <1>1, <1>2, <1>3, <2>1
  <1>5. ASSUME NEW p, FullBlock(p), p # at
        PROVE  FullBlock(p)' /\ a'[p] = a[p]
    <2>1. IsBlock(p) /\ p \in Int /\ 0 <= p /\ p + BlockSize <= N
          /\ a[p] \in Bucket /\ \A q \in Places(p) : a[q] = a[p]
      BY <1>5 DEF FullBlock, IsBlock
    <2>2. Places(p) \subseteq DOMAIN a /\ p \in Places(p)
      BY <1>1, <2>1 DEF Places
    <2>3. \A q \in Places(p) : a'[q] = a[q]
      BY <1>2, <1>3, <1>5, <2>1, <2>2
    <2>4. a'[p] = a[p] /\ \A q \in Places(p) : a'[q] = a'[p]
      BY <2>1, <2>2, <2>3
    <2>5. N' = N /\ Bucket' = Bucket
      BY DEF N, NumBuckets, Bucket
    <2>6. QED
      BY <2>1, <2>4, <2>5 DEF FullBlock
  <1>6. QED
    BY <1>2, <1>4, <1>5 DEF at

(* The other threads, when t makes a step.                                 *)
LEMMA OthersOK ==
    ASSUME PermInv, NEW t \in Thread, input' = input, bucketStart' = bucketStart,
           \A u \in Thread \ {t} : pc'[u] = pc[u] /\ me'[u] = me[u] /\ swap'[u] = swap[u],
           \A b \in Bucket : /\ ptr'[b].w \in Int /\ ptr'[b].r \in Int
                             /\ ptr[b].w <= ptr'[b].w /\ ptr'[b].r <= ptr[b].r,
           \A u \in Thread \ {t} : pc[u] \in {"read", "look"} =>
               FullBlock(me[u].at)' /\ a'[me[u].at] = a[me[u].at]
    PROVE  \A u \in Thread \ {t} : ThreadOK(u)' /\ \A c : Carries(u, c)' <=> Carries(u, c)
  <1> SUFFICES ASSUME NEW u \in Thread \ {t}
               PROVE  ThreadOK(u)' /\ \A c : Carries(u, c)' <=> Carries(u, c)
    OBVIOUS
  <1> DEFINE at == me[u].at
             b == me[u].bucket
             d == me[u].dest
  <1>1. /\ ThreadOK(u) /\ b \in Bucket /\ at \in Int
        /\ \A x \in Bucket : ptr[x].w \in Int /\ ptr[x].r \in Int
    BY DEF PermInv, Types, Locals, Threads
  <1>2. pc'[u] = pc[u] /\ me'[u] = me[u] /\ swap'[u] = swap[u]
        /\ \A x \in Bucket : /\ ptr'[x].w \in Int /\ ptr'[x].r \in Int
                             /\ ptr[x].w <= ptr'[x].w /\ ptr'[x].r <= ptr[x].r
    OBVIOUS
  <1>3. pc[u] \in {"read", "look"} => FullBlock(at)' /\ a'[at] = a[at]
    OBVIOUS
  <1>4. Bucket' = Bucket /\ MaxOffset' = MaxOffset
        /\ \A x, p : Within(p, x)' <=> Within(p, x)
    BY SameShape
  <1>5. Held(u)' = Held(u)
    BY <1>2 DEF Held
  <1>6. ThreadOK(u)'
    <2>1. pc[u] = "read" => Within(at, b)' /\ at > ptr'[b].r /\ FullBlock(at)'
      BY <1>1, <1>2, <1>3, <1>4 DEF ThreadOK
    <2>2. pc[u] = "stopRead" =>
             swap'[u][1][1] \in Bucket' /\ swap'[u][1] = BlockOf(swap'[u][1][1])
      BY <1>1, <1>2, <1>4 DEF ThreadOK
    <2>3. pc[u] \in Writing \cup {"incWrite"} => d \in Bucket' /\ Held(u)' = BlockOf(d)
      BY <1>1, <1>4, <1>5 DEF ThreadOK
    <2>4. pc[u] \in Writing => Within(at, d)' /\ at + BlockSize <= ptr'[d].w
      <3>1. pc[u] \in Writing => d \in Bucket /\ Within(at, d) /\ at + BlockSize <= ptr[d].w
        BY <1>1 DEF ThreadOK
      <3>2. QED
        BY <1>1, <1>2, <1>4, <3>1, Sizes
    <2>5. pc[u] = "look" => FullBlock(at)'
      BY <1>3
    <2>6. pc[u] \in {"wait", "write"} => at > ptr'[d].r /\ at < MaxOffset'
      <3>1. pc[u] \in {"wait", "write"} => d \in Bucket /\ at > ptr[d].r /\ at < MaxOffset
        BY <1>1 DEF ThreadOK, Writing
      <3>2. QED
        BY <1>1, <1>2, <1>4, <3>1
    <2>7. QED
      BY <1>2, <2>1, <2>2, <2>3, <2>4, <2>5, <2>6 DEF ThreadOK
  <1>7. ASSUME NEW c
        PROVE  Carries(u, c)' <=> Carries(u, c)
    BY <1>2, <1>3 DEF Carries
  <1>8. QED
    BY <1>6, <1>7

(* To keep two threads off one block it is enough to look at the thread    *)
(* that moves.                                                             *)
LEMMA PairsStep ==
    ASSUME Pairs, NEW t \in Thread, Thread' = Thread,
           \A u \in Thread \ {t} : pc'[u] = pc[u] /\ me'[u] = me[u],
           \A u \in Thread \ {t} : PairOK(t, u)' /\ PairOK(u, t)'
    PROVE  Pairs'
  <1>1. ASSUME NEW u \in Thread, NEW v \in Thread, u # v
        PROVE  PairOK(u, v)'
    <2>1. CASE u = t \/ v = t
      BY <1>1, <2>1
    <2>2. CASE u # t /\ v # t
      BY <1>1, <2>2 DEF Pairs, PairOK
    <2>3. QED
      BY <2>1, <2>2
  <1>2. QED
    BY <1>1 DEF Pairs

-----------------------------------------------------------------------------
(* Counting                                                                *)

(* The sets counted below are finite.                                      *)
LEMMA ThreadsFinite == Shape => IsFiniteSet(Thread)
  <1> SUFFICES ASSUME Shape PROVE IsFiniteSet(Thread)
    OBVIOUS
  <1>1. 0 \in Int /\ T - 1 \in Int
    BY DEF Shape
  <1>2. QED
    BY <1>1, FS_Interval DEF Thread

LEMMA Finite ==
    ASSUME Shape, NEW c
    PROVE  /\ IsFiniteSet(Unread(c)) /\ Cardinality(Unread(c)) \in Nat
           /\ IsFiniteSet(Carriers(c)) /\ Cardinality(Carriers(c)) \in Nat
           /\ IsFiniteSet(Readers(c)) /\ Cardinality(Readers(c)) \in Nat
  <1>1. IsFiniteSet(0 .. N - 1)
    <2>1. 0 \in Int /\ N - 1 \in Int
      BY DEF Shape
    <2>2. QED
      BY <2>1, FS_Interval
  <1>2. Unread(c) \subseteq 0 .. N - 1
    BY DEF Unread
  <1>3. Carriers(c) \subseteq Thread /\ Readers(c) \subseteq Thread
    BY DEF Carriers, Readers
  <1>4. QED
    BY <1>1, <1>2, <1>3, ThreadsFinite, FS_Subset, FS_CardinalityType

(* One thread moves: the number of readers of a bucket changes by that     *)
(* thread.                                                                 *)
LEMMA ReadersStep ==
    ASSUME Shape, NEW t \in Thread, NEW b, Thread' = Thread,
           \A u \in Thread \ {t} : pc'[u] = pc[u] /\ me'[u] = me[u]
    PROVE  Cardinality(Readers(b)') =
             Cardinality(Readers(b))
               + (IF t \in Readers(b)' THEN 1 ELSE 0) - (IF t \in Readers(b) THEN 1 ELSE 0)
  <1>1. \A u \in Thread \ {t} : u \in Readers(b)' <=> u \in Readers(b)
    BY DEF Readers
  <1>2. Readers(b)' \subseteq Thread /\ Readers(b) \subseteq Thread
    BY DEF Readers
  <1>3. IsFiniteSet(Readers(b)) /\ Cardinality(Readers(b)) \in Nat
    BY Finite
  <1>4. CASE t \in Readers(b)' /\ t \in Readers(b)
    <2>1. Readers(b)' = Readers(b)
      BY <1>1, <1>2, <1>4
    <2>2. QED
      BY <1>3, <1>4, <2>1
  <1>5. CASE t \notin Readers(b)' /\ t \notin Readers(b)
    <2>1. Readers(b)' = Readers(b)
      BY <1>1, <1>2, <1>5
    <2>2. QED
      BY <1>3, <1>5, <2>1
  <1>6. CASE t \in Readers(b)' /\ t \notin Readers(b)
    <2>1. Readers(b)' = Readers(b) \cup {t}
      BY <1>1, <1>2, <1>6
    <2>2. QED
      BY <1>3, <1>6, <2>1, FS_AddElement
  <1>7. CASE t \notin Readers(b)' /\ t \in Readers(b)
    <2>1. Readers(b)' = Readers(b) \ {t}
      BY <1>1, <1>2, <1>7
    <2>2. QED
      BY <1>3, <1>7, <2>1, FS_RemoveElement
  <1>8. QED
    BY <1>4, <1>5, <1>6, <1>7

(* One thread moves: the number of blocks carried to a bucket changes by   *)
(* that thread.                                                            *)
LEMMA CarriersStep ==
    ASSUME Shape, NEW t \in Thread, NEW c, Thread' = Thread,
           \A u \in Thread \ {t} : Carries(u, c)' <=> Carries(u, c)
    PROVE  Cardinality(Carriers(c)') =
             Cardinality(Carriers(c))
               + (IF Carries(t, c)' THEN 1 ELSE 0) - (IF Carries(t, c) THEN 1 ELSE 0)
  <1>1. IsFiniteSet(Carriers(c)) /\ Cardinality(Carriers(c)) \in Nat
    BY Finite
  <1>2. /\ Carriers(c)' \subseteq Thread /\ Carriers(c) \subseteq Thread
        /\ \A u \in Thread : u \in Carriers(c) <=> Carries(u, c)
        /\ \A u \in Thread : u \in Carriers(c)' <=> Carries(u, c)'
    BY DEF Carriers
  <1>3. \A u \in Thread \ {t} : u \in Carriers(c)' <=> u \in Carriers(c)
    BY <1>2
  <1>4. CASE t \in Carriers(c)' /\ t \in Carriers(c)
    <2>1. Carriers(c)' = Carriers(c)
      BY <1>2, <1>3, <1>4
    <2>2. QED
      BY <1>1, <1>2, <1>4, <2>1
  <1>5. CASE t \notin Carriers(c)' /\ t \notin Carriers(c)
    <2>1. Carriers(c)' = Carriers(c)
      BY <1>2, <1>3, <1>5
    <2>2. QED
      BY <1>1, <1>2, <1>5, <2>1
  <1>6. CASE t \in Carriers(c)' /\ t \notin Carriers(c)
    <2>1. Carriers(c)' = Carriers(c) \cup {t}
      BY <1>2, <1>3, <1>6
    <2>2. QED
      BY <1>1, <1>2, <1>6, <2>1, FS_AddElement
  <1>7. CASE t \notin Carriers(c)' /\ t \in Carriers(c)
    <2>1. Carriers(c)' = Carriers(c) \ {t}
      BY <1>2, <1>3, <1>7
    <2>2. QED
      BY <1>1, <1>2, <1>7, <2>1, FS_RemoveElement
  <1>8. QED
    BY <1>4, <1>5, <1>6, <1>7

-----------------------------------------------------------------------------
(* A step of one thread, from what it must show                            *)

(* A step of one thread keeps the invariant if it keeps the part about the *)
(* thread itself, what it shares with each other thread, and the counts:   *)
(* pointers only close in on each other, and nobody loses the block it     *)
(* reads.                                                                  *)
LEMMA StepOK ==
    ASSUME PermInv, NEW t \in Thread, input' = input, bucketStart' = bucketStart,
           \A u \in Thread \ {t} : pc'[u] = pc[u] /\ me'[u] = me[u] /\ swap'[u] = swap[u],
           \A b \in Bucket : /\ ptr'[b].w \in Int /\ ptr'[b].r \in Int
                             /\ ptr[b].w <= ptr'[b].w /\ ptr'[b].r <= ptr[b].r,
           \A u \in Thread \ {t} : pc[u] \in {"read", "look"} =>
               FullBlock(me[u].at)' /\ a'[me[u].at] = a[me[u].at],
           Types', Pointers', ThreadOK(t)',
           \A u \in Thread \ {t} : PairOK(t, u)' /\ PairOK(u, t)',
           Counts', \A c \in Bucket : Taken(c)' = Taken(c), Overflows'
    PROVE  PermInv' /\ SameTaken
  <1>1. Shape' /\ Thread' = Thread /\ Bucket' = Bucket
    BY SameShape DEF PermInv
  <1>2. Threads'
    <2>1. \A u \in Thread \ {t} : ThreadOK(u)'
      BY OthersOK
    <2>2. QED
      BY <1>1, <2>1 DEF Threads
  <1>3. Pairs'
    BY <1>1, PairsStep DEF PermInv
  <1>4. Room'
    <2>1. \A c \in Bucket : Taken(c) = 0 \/ Taken(c) < Size(c)
      BY DEF PermInv, Room
    <2>2. \A c : Size(c)' = Size(c)
      BY SameShape
    <2>3. QED
      BY <1>1, <2>1, <2>2 DEF Room
  <1>5. QED
    BY <1>1, <1>2, <1>3, <1>4 DEF PermInv, SameTaken

(* A step that leaves pointers and unread blocks alone keeps the part      *)
(* about pointers.                                                         *)
LEMMA PointersKept ==
    ASSUME PermInv, input' = input, bucketStart' = bucketStart, ptr' = ptr,
           \A b \in Bucket : \A p : Between(b, p) => FullBlock(p)' /\ a'[p] = a[p]
    PROVE  Pointers' /\ \A c : Unread(c)' = Unread(c)
  <1>1. Bucket' = Bucket /\ N' = N
        /\ \A b : AreaStart(b)' = AreaStart(b) /\ AreaEnd(b)' = AreaEnd(b)
    BY SameShape
  <1>2. \A b, p : Between(b, p)' <=> Between(b, p)
    BY DEF Between
  <1>3. Pointers'
    BY <1>1, <1>2 DEF PermInv, Pointers
  <1>4. ASSUME NEW c
        PROVE  Unread(c)' = Unread(c)
    BY <1>1, <1>2 DEF Unread
  <1>5. QED
    BY <1>3, <1>4

(* Such a step, if nobody picks up or puts down a block, takes no room.    *)
LEMMA TakenKept ==
    ASSUME Shape, NEW t \in Thread, NEW c, input' = input, bucketStart' = bucketStart,
           ptr'[c].w = ptr[c].w, Unread(c)' = Unread(c),
           \A u \in Thread \ {t} : Carries(u, c)' <=> Carries(u, c),
           Carries(t, c)' <=> Carries(t, c)
    PROVE  Taken(c)' = Taken(c)
  <1>1. Carriers(c)' = Carriers(c)
    <2>1. Thread' = Thread
      BY SameShape
    <2>2. QED
      BY <2>1 DEF Carriers
  <1>2. Left(c)' = Left(c)
    BY <1>1 DEF Left
  <1>3. AreaStart(c)' = AreaStart(c)
    BY SameShape
  <1>4. QED
    BY <1>2, <1>3 DEF Taken

(* Write pointers only grow, so an overflow stays explained.               *)
LEMMA OverflowsKept ==
    ASSUME PermInv, input' = input, bucketStart' = bucketStart, overflow' = overflow,
           \A b \in Bucket : ptr'[b].w \in Int /\ ptr[b].w <= ptr'[b].w
    PROVE  Overflows'
  <1>1. Thread' = Thread /\ Bucket' = Bucket /\ MaxOffset' = MaxOffset
        /\ OverflowBucket' = OverflowBucket
    BY SameShape
  <1>2. \A b \in Bucket : ptr[b].w \in Int
    BY DEF PermInv, Types, Locals
  <1>3. MaxOffset \in Int
    <2>1. N + 1 \in Nat
      BY DEF PermInv, Shape
    <2>2. QED
      BY <2>1, AlignRight, Sizes DEF MaxOffset
  <1>4. OverflowBucket \in Bucket /\ ptr[OverflowBucket].w > MaxOffset =>
            ptr'[OverflowBucket].w > MaxOffset
    BY <1>2, <1>3
  <1>5. ASSUME NEW t \in Thread, overflow[t] # <<>>
        PROVE  /\ OverflowBucket \in Bucket /\ overflow[t] = BlockOf(OverflowBucket)
               /\ ptr'[OverflowBucket].w > MaxOffset
               /\ \A u \in Thread \ {t} : overflow[u] = <<>>
    BY <1>4, <1>5 DEF PermInv, Overflows
  <1>6. BlockOf(OverflowBucket)' = BlockOf(OverflowBucket)
    BY <1>1 DEF BlockOf
  <1>7. QED
    BY <1>1, <1>5, <1>6 DEF Overflows

(* The steps that leave the pointers and the blocks between them alone.    *)
LEMMA QuietStep ==
    ASSUME PermInv, NEW t \in Thread,
           input' = input, bucketStart' = bucketStart, ptr' = ptr, overflow' = overflow,
           \A u \in Thread \ {t} : pc'[u] = pc[u] /\ me'[u] = me[u] /\ swap'[u] = swap[u],
           \A b \in Bucket : \A p : Between(b, p) => FullBlock(p)' /\ a'[p] = a[p],
           \A u \in Thread \ {t} : pc[u] \in {"read", "look"} =>
               FullBlock(me[u].at)' /\ a'[me[u].at] = a[me[u].at],
           Types', ThreadOK(t)',
           \A u \in Thread \ {t} : PairOK(t, u)' /\ PairOK(u, t)',
           Counts', \A c : Carries(t, c)' <=> Carries(t, c)
    PROVE  PermInv' /\ SameTaken
  <1>1. \A b \in Bucket : /\ ptr'[b].w \in Int /\ ptr'[b].r \in Int
                          /\ ptr[b].w <= ptr'[b].w /\ ptr'[b].r <= ptr[b].r
    <2>1. \A b \in Bucket : ptr[b].w \in Int /\ ptr[b].r \in Int
      BY DEF PermInv, Types, Locals
    <2>2. QED
      BY <2>1
  <1>2. Pointers' /\ \A c : Unread(c)' = Unread(c)
    BY PointersKept
  <1>3. \A u \in Thread \ {t} : \A c : Carries(u, c)' <=> Carries(u, c)
    BY <1>1, OthersOK
  <1>4. \A c \in Bucket : Taken(c)' = Taken(c)
    <2> SUFFICES ASSUME NEW c \in Bucket PROVE Taken(c)' = Taken(c)
      OBVIOUS
    <2>1. Shape /\ ptr'[c].w = ptr[c].w
      BY DEF PermInv
    <2>2. QED
      BY <1>2, <1>3, <2>1, TakenKept
  <1>5. Overflows'
    BY <1>1, OverflowsKept
  <1>6. QED
    BY <1>1, <1>2, <1>4, <1>5, StepOK

(* When the blocks themselves are left alone.                              *)
LEMMA FullKept ==
    ASSUME PermInv, NEW t \in Thread, input' = input, a' = a,
           \A u \in Thread \ {t} : me'[u] = me[u]
    PROVE  /\ \A p : FullBlock(p) => FullBlock(p)'
           /\ \A b \in Bucket : \A p : Between(b, p) => FullBlock(p)' /\ a'[p] = a[p]
           /\ \A u \in Thread \ {t} : pc[u] \in {"read", "look"} =>
               FullBlock(me[u].at)' /\ a'[me[u].at] = a[me[u].at]
  <1>1. N' = N /\ Bucket' = Bucket
    BY DEF N, NumBuckets, Bucket
  <1>2. \A p : FullBlock(p) => FullBlock(p)'
    BY <1>1 DEF FullBlock
  <1>3. \A b \in Bucket : \A p : Between(b, p) => FullBlock(p)
    BY DEF PermInv, Pointers
  <1>4. \A u \in Thread : pc[u] \in {"read", "look"} => FullBlock(me[u].at)
    BY DEF PermInv, Threads, ThreadOK
  <1>5. QED
    BY <1>2, <1>3, <1>4

(* When a thread writes to the block in its hands.                         *)
LEMMA OthersKept ==
    ASSUME PermInv, NEW t \in Thread, pc[t] \in {"read", "look", "write"}, NEW block,
           a' = WithBlock(me[t].at, block), input' = input,
           \A u \in Thread \ {t} : me'[u] = me[u]
    PROVE  /\ \A b \in Bucket : \A p : Between(b, p) => FullBlock(p)' /\ a'[p] = a[p]
           /\ \A u \in Thread \ {t} : pc[u] \in {"read", "look"} =>
               FullBlock(me[u].at)' /\ a'[me[u].at] = a[me[u].at]
  <1>1. \A p : FullBlock(p) /\ p # me[t].at => FullBlock(p)' /\ a'[p] = a[p]
    BY PutBlock
  <1>2. \A b \in Bucket : \A p : Between(b, p) => FullBlock(p) /\ p # me[t].at
    BY NotBetween DEF PermInv, Pointers
  <1>3. \A u \in Thread \ {t} : pc[u] \in {"read", "look"} =>
            FullBlock(me[u].at) /\ me[u].at # me[t].at
    <2>1. \A u \in Thread \ {t} : pc[u] \in {"read", "look"} => FullBlock(me[u].at)
      BY DEF PermInv, Threads, ThreadOK
    <2>2. \A u \in Thread \ {t} : pc[u] \in {"read", "look"} => me[u].at # me[t].at
      BY HandsApart
    <2>3. QED
      BY <2>1, <2>2
  <1>4. QED
    BY <1>1, <1>2, <1>3

(* The count of readers follows the thread that comes or goes.             *)
LEMMA CountsStep ==
    ASSUME PermInv, NEW t \in Thread, Thread' = Thread, Bucket' = Bucket,
           \A u \in Thread \ {t} : pc'[u] = pc[u] /\ me'[u] = me[u],
           \A b \in Bucket : reading'[b] = reading[b]
               + (IF t \in Readers(b)' THEN 1 ELSE 0) - (IF t \in Readers(b) THEN 1 ELSE 0)
    PROVE  Counts'
  <1>1. Shape
    BY DEF PermInv
  <1>2. ASSUME NEW b \in Bucket
        PROVE  reading'[b] = Cardinality(Readers(b)')
    <2>1. reading[b] = Cardinality(Readers(b))
      BY DEF PermInv, Counts
    <2>2. QED
      BY <1>1, <2>1, ReadersStep
  <1>3. QED
    BY <1>2 DEF Counts

(* Nobody comes or goes: the counts of readers are right as before.        *)
LEMMA CountsKept ==
    ASSUME PermInv, NEW t \in Thread, Thread' = Thread, Bucket' = Bucket, reading' = reading,
           \A u \in Thread \ {t} : pc'[u] = pc[u] /\ me'[u] = me[u],
           \A b \in Bucket : t \in Readers(b)' <=> t \in Readers(b)
    PROVE  Counts'
  <1>1. \A b \in Bucket : Readers(b)' = Readers(b)
    BY DEF Readers
  <1>2. QED
    BY <1>1 DEF PermInv, Counts

-----------------------------------------------------------------------------
(* The steps of a reader                                                   *)

(* From here one lemma for each action of permuteBlocks: it keeps the      *)
(* invariant.                                                              *)
LEMMA StartReadStep ==
    ASSUME PermInv, NEW t \in Thread, StartRead(t)
    PROVE  PermInv' /\ SameTaken
  <1> DEFINE b == me[t].bucket
  <1> USE DEF StartRead, Goto
  <1>1. Types /\ Shape
    BY DEF PermInv
  <1>2. b \in Bucket /\ pc[t] = "pick" /\ pc' = [pc EXCEPT ![t] = "decRead"] /\ me' = me
        /\ pc'[t] = "decRead" /\ reading' = [reading EXCEPT ![b] = @ + 1]
    BY <1>1 DEF Types, Locals
  <1>3. Thread' = Thread /\ Bucket' = Bucket /\ N' = N
    BY SameShape
  <1>4. \A u \in Thread \ {t} : pc'[u] = pc[u] /\ me'[u] = me[u] /\ swap'[u] = swap[u]
    BY <1>1 DEF Types, Locals
  <1>5. Types'
    BY <1>1, <1>2, <1>3 DEF Types, Locals, Permuting
  <1>6. ThreadOK(t)' /\ \A c : Carries(t, c)' <=> Carries(t, c)
    BY <1>2 DEF ThreadOK, Carries, Writing
  <1>7. \A u \in Thread \ {t} : PairOK(t, u)' /\ PairOK(u, t)'
    BY <1>2 DEF PairOK, Writing
  <1>8. Counts'
    <2> SUFFICES ASSUME NEW c \in Bucket
                 PROVE  reading'[c] = reading[c]
                     + (IF t \in Readers(c)' THEN 1 ELSE 0) - (IF t \in Readers(c) THEN 1 ELSE 0)
      BY <1>3, <1>4, CountsStep
    <2>1. t \notin Readers(c) /\ (t \in Readers(c)' <=> b = c)
      BY <1>2, <1>3 DEF Readers
    <2>2. reading[c] \in Int
      BY <1>1, Finite DEF PermInv, Counts
    <2>3. reading'[c] = IF b = c THEN reading[c] + 1 ELSE reading[c]
      BY <1>1, <1>2 DEF Types, Locals
    <2>4. QED
      BY <2>1, <2>2, <2>3
  <1>9. QED
    BY <1>4, <1>5, <1>6, <1>7, <1>8, FullKept, QuietStep

LEMMA NextBucketStep ==
    ASSUME PermInv, NEW t \in Thread, NextBucket(t)
    PROVE  PermInv' /\ SameTaken
  <1> DEFINE b == me[t].bucket
  <1> USE DEF NextBucket, Goto
  <1>1. Types /\ Shape
    BY DEF PermInv
  <1>2. b \in Bucket /\ pc[t] = "noBlock" /\ pc'[t] \in {"pick", "permuted"}
        /\ reading' = [reading EXCEPT ![b] = @ - 1]
    BY <1>1 DEF Types, Locals, OneLess
  <1>3. Thread' = Thread /\ Bucket' = Bucket /\ N' = N
    BY SameShape
  <1>4. \A u \in Thread \ {t} : pc'[u] = pc[u] /\ me'[u] = me[u] /\ swap'[u] = swap[u]
    BY <1>1 DEF Types, Locals
  <1>5. Types'
    <2>1. (b + 1) % NumBuckets \in Bucket
      BY <1>1, <1>2 DEF Shape, Bucket
    <2>2. me[t] \in Locals
      BY <1>1 DEF Types, Locals
    <2>3. me' \in [Thread -> Locals]
      BY <1>1, <2>1, <2>2 DEF Types, Locals
    <2>4. pc' \in [Thread -> Permuting]
      BY <1>1 DEF Types, Locals, Permuting
    <2>5. QED
      BY <1>1, <1>3, <2>3, <2>4 DEF Types, Locals
  <1>6. ThreadOK(t)' /\ \A c : Carries(t, c)' <=> Carries(t, c)
    BY <1>2 DEF ThreadOK, Carries, Writing
  <1>7. \A u \in Thread \ {t} : PairOK(t, u)' /\ PairOK(u, t)'
    BY <1>2 DEF PairOK, Writing
  <1>8. Counts'
    <2> SUFFICES ASSUME NEW c \in Bucket
                 PROVE  reading'[c] = reading[c]
                     + (IF t \in Readers(c)' THEN 1 ELSE 0) - (IF t \in Readers(c) THEN 1 ELSE 0)
      BY <1>3, <1>4, CountsStep
    <2>1. t \notin Readers(c)' /\ (t \in Readers(c) <=> b = c)
      BY <1>2, <1>3 DEF Readers
    <2>2. reading[c] \in Int
      BY <1>1, Finite DEF PermInv, Counts
    <2>3. reading'[c] = IF b = c THEN reading[c] - 1 ELSE reading[c]
      BY <1>1, <1>2 DEF Types, Locals
    <2>4. QED
      BY <2>1, <2>2, <2>3
  <1>9. QED
    BY <1>4, <1>5, <1>6, <1>7, <1>8, FullKept, QuietStep

LEMMA StopReadStep ==
    ASSUME PermInv, NEW t \in Thread, StopRead(t)
    PROVE  PermInv' /\ SameTaken
  <1> DEFINE b == me[t].bucket
             d == swap[t][1][1]
  <1> USE DEF StopRead, Goto
  <1>1. Types /\ Shape /\ ThreadOK(t)
    BY DEF PermInv, Threads
  <1>2. b \in Bucket /\ pc[t] = "stopRead" /\ pc'[t] = "incWrite"
        /\ reading' = [reading EXCEPT ![b] = @ - 1]
        /\ me' = [me EXCEPT ![t].dest = d, ![t].current = 1, ![t].at = 0]
        /\ d \in Bucket /\ swap[t][1] = BlockOf(d) /\ swap' = swap
    BY <1>1 DEF Types, Locals, ThreadOK
  <1>3. Thread' = Thread /\ Bucket' = Bucket /\ N' = N
    BY SameShape
  <1>4. \A u \in Thread \ {t} : pc'[u] = pc[u] /\ me'[u] = me[u] /\ swap'[u] = swap[u]
    BY <1>1 DEF Types, Locals
  <1>5. Types' /\ me'[t].dest = d /\ me'[t].current = 1
    <2>1. d \in Int
      BY <1>2 DEF Bucket
    <2>2. me' \in [Thread -> Locals] /\ me'[t].dest = d /\ me'[t].current = 1
      <3>1. me \in [Thread -> Locals] /\ 1 \in 1 .. 2 /\ 0 \in Int
        BY <1>1 DEF Types
      <3>2. me' = [me EXCEPT ![t].dest = d, ![t].current = 1, ![t].at = 0]
        BY <1>2
      <3> HIDE DEF d, StopRead
      <3>3. QED
        BY <2>1, <3>1, <3>2 DEF Locals
    <2>3. pc' \in [Thread -> Permuting]
      BY <1>1 DEF Types, Locals, Permuting
    <2>4. QED
      BY <1>1, <1>3, <2>2, <2>3 DEF Types, Locals
  <1>6. ThreadOK(t)' /\ \A c : Carries(t, c)' <=> Carries(t, c)
    <2>1. Held(t)' = BlockOf(d)
      BY <1>2, <1>5 DEF Held
    <2>2. ThreadOK(t)'
      BY <1>2, <1>3, <1>5, <2>1 DEF ThreadOK, Writing, BlockOf
    <2>3. \A c : Carries(t, c)' <=> Carries(t, c)
      BY <1>2, <1>5 DEF Carries
    <2>4. QED
      BY <2>2, <2>3
  <1>7. \A u \in Thread \ {t} : PairOK(t, u)' /\ PairOK(u, t)'
    BY <1>2 DEF PairOK, Writing
  <1>8. Counts'
    <2> SUFFICES ASSUME NEW c \in Bucket
                 PROVE  reading'[c] = reading[c]
                     + (IF t \in Readers(c)' THEN 1 ELSE 0) - (IF t \in Readers(c) THEN 1 ELSE 0)
      BY <1>3, <1>4, CountsStep
    <2>1. t \notin Readers(c)' /\ (t \in Readers(c) <=> b = c)
      BY <1>2, <1>3 DEF Readers
    <2>2. reading[c] \in Int
      BY <1>1, Finite DEF PermInv, Counts
    <2>3. reading'[c] = IF b = c THEN reading[c] - 1 ELSE reading[c]
      BY <1>1, <1>2 DEF Types, Locals
    <2>4. QED
      BY <2>1, <2>2, <2>3
  <1>9. QED
    BY <1>4, <1>5, <1>6, <1>7, <1>8, FullKept, QuietStep

(* A full block holds elements of one bucket, its own first.               *)
LEMMA BlockAtFull ==
    ASSUME NEW p, FullBlock(p)
    PROVE  BlockAt(p) = BlockOf(a[p]) /\ BlockAt(p)[1] = a[p]
  <1>1. p \in Int /\ BlockSize \in Nat /\ BlockSize > 0
    BY Sizes DEF FullBlock, IsBlock
  <1>2. \A k \in 1 .. BlockSize : p + k - 1 \in Places(p)
    BY <1>1 DEF Places
  <1>3. \A k \in 1 .. BlockSize : a[p + k - 1] = a[p]
    BY <1>2 DEF FullBlock
  <1>4. BlockAt(p) = BlockOf(a[p])
    BY <1>3 DEF BlockAt, BlockOf
  <1>5. 1 \in 1 .. BlockSize
    BY <1>1
  <1>6. QED
    BY <1>4, <1>5 DEF BlockOf

LEMMA ReadBlockStep ==
    ASSUME PermInv, NEW t \in Thread, ReadBlock(t)
    PROVE  PermInv' /\ SameTaken
  <1> DEFINE at == me[t].at
             c0 == a[at]
  <1>1. Types /\ Shape /\ ThreadOK(t)
    BY DEF PermInv, Threads
  <1>2. /\ pc[t] = "read" /\ pc' = [pc EXCEPT ![t] = "stopRead"] /\ pc'[t] = "stopRead"
        /\ swap' = [swap EXCEPT ![t][1] = BlockAt(at)] /\ a' = Vacated(at)
        /\ UNCHANGED <<input, bucketStart, ptr, reading, overflow, me>>
        /\ FullBlock(at)
    BY <1>1 DEF ReadBlock, Goto, Types, ThreadOK
  <1>3. Thread' = Thread /\ Bucket' = Bucket /\ N' = N
    BY <1>2, SameShape
  <1>4. \A u \in Thread \ {t} : pc'[u] = pc[u] /\ me'[u] = me[u] /\ swap'[u] = swap[u]
    BY <1>1, <1>2 DEF Types
  <1>5. BlockAt(at) = BlockOf(c0) /\ BlockAt(at)[1] = c0 /\ c0 \in Bucket
    BY <1>2, BlockAtFull DEF FullBlock
  <1>6. swap'[t][1] = BlockOf(c0) /\ swap'[t][1][1] = c0
    BY <1>1, <1>2, <1>5 DEF Types
  <1>7. Types'
    <2>1. DOMAIN a' = DOMAIN a
      BY <1>2, PutBlock DEF Vacated
    <2>2. DOMAIN swap' = Thread /\ \A u \in Thread : DOMAIN swap'[u] = 1 .. 2
      BY <1>1, <1>2 DEF Types
    <2>3. pc' \in [Thread -> Permuting]
      BY <1>1, <1>2 DEF Types, Permuting
    <2>4. QED
      BY <1>1, <1>2, <1>3, <2>1, <2>2, <2>3 DEF Types, Locals
  <1>8. ThreadOK(t)' /\ \A c : Carries(t, c)' <=> Carries(t, c)
    <2>1. swap'[t][1][1] \in Bucket' /\ swap'[t][1] = BlockOf(swap'[t][1][1])
      BY <1>3, <1>5, <1>6
    <2>2. ThreadOK(t)'
      BY <1>2, <2>1 DEF ThreadOK, Writing
    <2>3. \A c : Carries(t, c)' <=> Carries(t, c)
      BY <1>2, <1>6 DEF Carries
    <2>4. QED
      BY <2>2, <2>3
  <1>9. \A u \in Thread \ {t} : PairOK(t, u)' /\ PairOK(u, t)'
    BY <1>2 DEF PairOK, Writing
  <1>10. Counts'
    <2>1. \A b : t \in Readers(b)' <=> t \in Readers(b)
      BY <1>2, <1>3 DEF Readers
    <2>2. QED
      BY <1>2, <1>3, <1>4, <2>1, CountsKept
  <1>11. /\ \A b \in Bucket : \A p : Between(b, p) => FullBlock(p)' /\ a'[p] = a[p]
         /\ \A u \in Thread \ {t} : pc[u] \in {"read", "look"} =>
               FullBlock(me[u].at)' /\ a'[me[u].at] = a[me[u].at]
    BY <1>2, <1>4, OthersKept DEF Vacated
  <1>12. QED
    BY <1>2, <1>4, <1>7, <1>8, <1>9, <1>10, <1>11, QuietStep

-----------------------------------------------------------------------------
(* The steps of a writer                                                   *)

LEMMA WaitForReadersStep ==
    ASSUME PermInv, NEW t \in Thread, WaitForReaders(t)
    PROVE  PermInv' /\ SameTaken
  <1> DEFINE d == me[t].dest
  <1>1. Types /\ Shape /\ ThreadOK(t)
    BY DEF PermInv, Threads
  <1>2. /\ pc[t] = "wait" /\ pc' = [pc EXCEPT ![t] = "write"] /\ pc'[t] = "write"
        /\ reading[d] = 0 /\ d \in Bucket
        /\ UNCHANGED <<input, a, bucketStart, ptr, reading, swap, overflow, me>>
    BY <1>1 DEF WaitForReaders, NobodyReads, Goto, Types, ThreadOK, Writing
  <1>3. Thread' = Thread /\ Bucket' = Bucket /\ N' = N /\ MaxOffset' = MaxOffset
        /\ \A b, p : Within(p, b)' <=> Within(p, b)
    BY <1>2, SameShape
  <1>4. \A u \in Thread \ {t} : pc'[u] = pc[u] /\ me'[u] = me[u] /\ swap'[u] = swap[u]
    BY <1>1, <1>2 DEF Types
  <1>5. Types'
    <2>1. pc' \in [Thread -> Permuting]
      BY <1>1, <1>2 DEF Types, Permuting
    <2>2. QED
      BY <1>1, <1>2, <1>3, <2>1 DEF Types, Locals
  <1>6. ThreadOK(t)' /\ \A c : Carries(t, c)' <=> Carries(t, c)
    <2>1. Held(t)' = Held(t)
      BY <1>2 DEF Held
    <2>2. ThreadOK(t)'
      BY <1>1, <1>2, <1>3, <2>1 DEF ThreadOK, Writing
    <2>3. \A c : Carries(t, c)' <=> Carries(t, c)
      BY <1>2 DEF Carries
    <2>4. QED
      BY <2>2, <2>3
  <1>7. \A u \in Thread \ {t} : PairOK(t, u)' /\ PairOK(u, t)'
    <2>1. Readers(d) = {}
      <3>1. Cardinality(Readers(d)) = 0
        BY <1>2 DEF PermInv, Counts
      <3>2. QED
        BY <1>1, <3>1, Finite, FS_EmptySet
    <2>2. \A u \in Thread : pc[u] = "read" => me[u].bucket # d
      BY <2>1 DEF Readers
    <2>3. \A u \in Thread \ {t} : PairOK(t, u) /\ PairOK(u, t)
      BY DEF PermInv, Pairs
    <2>4. QED
      BY <1>2, <1>4, <2>2, <2>3 DEF PairOK, Writing
  <1>8. Counts'
    <2>1. \A b : t \in Readers(b)' <=> t \in Readers(b)
      BY <1>2, <1>3 DEF Readers
    <2>2. QED
      BY <1>2, <1>3, <1>4, <2>1, CountsKept
  <1>9. QED
    BY <1>2, <1>4, <1>5, <1>6, <1>7, <1>8, FullKept, QuietStep

LEMMA WriteBlockStep ==
    ASSUME PermInv, NEW t \in Thread, WriteBlock(t)
    PROVE  PermInv' /\ SameTaken
  <1> DEFINE at == me[t].at
  <1>1. Types /\ Shape /\ ThreadOK(t)
    BY DEF PermInv, Threads
  <1>2. /\ pc[t] = "write" /\ pc' = [pc EXCEPT ![t] = "pick"] /\ pc'[t] = "pick"
        /\ swap' = WithoutHeld(t) /\ a' = WithBlock(at, Held(t))
        /\ me' = [me EXCEPT ![t].at = 0]
        /\ UNCHANGED <<input, bucketStart, ptr, reading, overflow>>
    BY <1>1 DEF WriteBlock, Goto, Types
  <1>3. Thread' = Thread /\ Bucket' = Bucket /\ N' = N
    BY <1>2, SameShape
  <1>4. \A u \in Thread \ {t} : pc'[u] = pc[u] /\ me'[u] = me[u] /\ swap'[u] = swap[u]
    BY <1>1, <1>2 DEF Types, WithoutHeld
  <1>5. Types'
    <2>1. DOMAIN a' = DOMAIN a
      BY <1>2, PutBlock
    <2>2. DOMAIN swap' = Thread /\ \A u \in Thread : DOMAIN swap'[u] = 1 .. 2
      BY <1>1, <1>2 DEF Types, WithoutHeld
    <2>3. pc' \in [Thread -> Permuting]
      BY <1>1, <1>2 DEF Types, Permuting
    <2>4. me' \in [Thread -> Locals]
      <3>1. me \in [Thread -> Locals] /\ me' = [me EXCEPT ![t].at = 0]
        BY <1>1, <1>2 DEF Types
      <3>2. QED
        BY <3>1 DEF Locals
    <2>5. QED
      BY <1>1, <1>2, <1>3, <2>1, <2>2, <2>3, <2>4 DEF Types, Locals
  <1>6. ThreadOK(t)' /\ \A c : Carries(t, c)' <=> Carries(t, c)
    BY <1>2 DEF ThreadOK, Carries, Writing
  <1>7. \A u \in Thread \ {t} : PairOK(t, u)' /\ PairOK(u, t)'
    BY <1>2 DEF PairOK, Writing
  <1>8. Counts'
    <2>1. \A b : t \in Readers(b)' <=> t \in Readers(b)
      BY <1>2, <1>3 DEF Readers
    <2>2. QED
      BY <1>2, <1>3, <1>4, <2>1, CountsKept
  <1>9. /\ \A b \in Bucket : \A p : Between(b, p) => FullBlock(p)' /\ a'[p] = a[p]
        /\ \A u \in Thread \ {t} : pc[u] \in {"read", "look"} =>
               FullBlock(me[u].at)' /\ a'[me[u].at] = a[me[u].at]
    BY <1>2, <1>4, OthersKept
  <1>10. QED
    BY <1>2, <1>4, <1>5, <1>6, <1>7, <1>8, <1>9, QuietStep

LEMMA LookAtBlockStep ==
    ASSUME PermInv, NEW t \in Thread, LookAtBlock(t)
    PROVE  PermInv' /\ SameTaken
  <1> DEFINE at == me[t].at
             found == a[at]
             other == 3 - me[t].current
  <1>1. Types /\ Shape /\ ThreadOK(t)
    BY DEF PermInv, Threads
  <1>2. /\ pc[t] = "look" /\ pc' = [pc EXCEPT ![t] = "incWrite"] /\ pc'[t] = "incWrite"
        /\ UNCHANGED <<input, bucketStart, ptr, reading, overflow>>
        /\ FullBlock(at) /\ found \in Bucket /\ me[t].current \in 1 .. 2
        /\ me[t].dest \in Bucket /\ Held(t) = BlockOf(me[t].dest)
    BY <1>1 DEF LookAtBlock, Goto, Types, Locals, ThreadOK, FullBlock, Writing
  <1>3. Thread' = Thread /\ Bucket' = Bucket /\ N' = N
    BY <1>2, SameShape
  <1>4. BlockAt(at) = BlockOf(found)
    BY <1>2, BlockAtFull
  <1>5. /\ me' \in [Thread -> Locals] /\ me'[t].dest = found /\ me'[t].bucket = me[t].bucket
        /\ Held(t)' = BlockOf(found)
        /\ DOMAIN swap' = Thread /\ \A u \in Thread : DOMAIN swap'[u] = 1 .. 2
        /\ \A u \in Thread \ {t} : me'[u] = me[u] /\ swap'[u] = swap[u]
        /\ \/ a' = a
           \/ a' = WithBlock(at, Held(t))
    <2>1. CASE found = me[t].dest
      <3>1. me' = [me EXCEPT ![t].at = 0] /\ UNCHANGED <<a, swap>>
        BY <2>1 DEF LookAtBlock
      <3>2. me \in [Thread -> Locals]
        BY <1>1 DEF Types
      <3>3. /\ me' \in [Thread -> Locals] /\ me'[t].dest = me[t].dest
            /\ me'[t].bucket = me[t].bucket /\ me'[t].current = me[t].current
            /\ \A u \in Thread \ {t} : me'[u] = me[u]
        BY <3>1, <3>2 DEF Locals
      <3>4. Held(t)' = Held(t)
        BY <3>1, <3>3 DEF Held
      <3>5. DOMAIN swap = Thread /\ \A u \in Thread : DOMAIN swap[u] = 1 .. 2
        BY <1>1 DEF Types
      <3>6. QED
        BY <1>2, <2>1, <3>1, <3>3, <3>4, <3>5
    <2>2. CASE found # me[t].dest
      <3>1. /\ swap' = [WithoutHeld(t) EXCEPT ![t][other] = BlockAt(at)]
            /\ a' = WithBlock(at, Held(t))
            /\ me' = [me EXCEPT ![t].dest = found, ![t].current = other, ![t].at = 0]
        BY <2>2 DEF LookAtBlock
      <3>2. me \in [Thread -> Locals] /\ found \in Int /\ other \in 1 .. 2
        BY <1>1, <1>2 DEF Types, Bucket
      <3>3. /\ me' \in [Thread -> Locals] /\ me'[t].dest = found
            /\ me'[t].bucket = me[t].bucket /\ me'[t].current = other
            /\ \A u \in Thread \ {t} : me'[u] = me[u]
        <4> HIDE DEF found, other
        <4>0. me' = [me EXCEPT ![t].dest = found, ![t].current = other, ![t].at = 0]
          BY <3>1
        <4> DEFINE me1 == [me EXCEPT ![t].dest = found]
                   me2 == [me1 EXCEPT ![t].current = other]
        <4>1. me' \in [Thread -> Locals]
          <5>1. me1 \in [Thread -> Locals]
            BY <3>2 DEF Locals
          <5> HIDE DEF me1
          <5>2. me2 \in [Thread -> Locals]
            BY <3>2, <5>1 DEF Locals
          <5>3. me' = [me2 EXCEPT ![t].at = 0]
            BY <4>0 DEF me1
          <5> HIDE DEF me2
          <5>4. QED
            BY <5>2, <5>3 DEF Locals
        <4>2. me'[t].dest = found
          BY <3>2, <4>0 DEF Locals
        <4>3. me'[t].bucket = me[t].bucket /\ me'[t].current = other
          BY <3>2, <4>0 DEF Locals
        <4>4. \A u \in Thread \ {t} : me'[u] = me[u]
          BY <3>2, <4>0
        <4>5. QED
          BY <4>1, <4>2, <4>3, <4>4
      <3>4. /\ DOMAIN swap' = Thread /\ \A u \in Thread : DOMAIN swap'[u] = 1 .. 2
            /\ \A u \in Thread \ {t} : swap'[u] = swap[u]
            /\ swap'[t][other] = BlockAt(at)
        BY <1>1, <3>1, <3>2 DEF Types, WithoutHeld
      <3>5. Held(t)' = swap'[t][other]
        BY <3>3 DEF Held
      <3>6. QED
        BY <1>4, <3>1, <3>3, <3>4, <3>5
    <2>3. QED
      BY <2>1, <2>2
  <1>6. \A u \in Thread \ {t} : pc'[u] = pc[u] /\ me'[u] = me[u] /\ swap'[u] = swap[u]
    BY <1>1, <1>2, <1>5 DEF Types
  <1>7. Types'
    <2>1. DOMAIN a' = DOMAIN a
      BY <1>2, <1>5, PutBlock
    <2>2. pc' \in [Thread -> Permuting]
      BY <1>1, <1>2 DEF Types, Permuting
    <2>3. Locals' = Locals
      BY <1>3 DEF Locals
    <2>4. QED
      BY <1>1, <1>2, <1>3, <1>5, <2>1, <2>2, <2>3 DEF Types
  <1>8. ThreadOK(t)' /\ \A c : Carries(t, c)' <=> Carries(t, c)
    <2>1. ThreadOK(t)'
      BY <1>2, <1>3, <1>5 DEF ThreadOK, Writing
    <2>2. \A c : Carries(t, c)' <=> Carries(t, c)
      BY <1>2, <1>5 DEF Carries
    <2>3. QED
      BY <2>1, <2>2
  <1>9. \A u \in Thread \ {t} : PairOK(t, u)' /\ PairOK(u, t)'
    BY <1>2 DEF PairOK, Writing
  <1>10. Counts'
    <2>1. \A b : t \in Readers(b)' <=> t \in Readers(b)
      BY <1>2, <1>3 DEF Readers
    <2>2. QED
      BY <1>2, <1>3, <1>6, <2>1, CountsKept
  <1>11. /\ \A b \in Bucket : \A p : Between(b, p) => FullBlock(p)' /\ a'[p] = a[p]
         /\ \A u \in Thread \ {t} : pc[u] \in {"read", "look"} =>
               FullBlock(me[u].at)' /\ a'[me[u].at] = a[me[u].at]
    <2>1. CASE a' = a
      BY <1>2, <1>6, <2>1, FullKept
    <2>2. CASE a' = WithBlock(at, Held(t))
      BY <1>2, <1>6, <2>2, OthersKept
    <2>3. QED
      BY <1>5, <2>1, <2>2
  <1>12. QED
    BY <1>2, <1>6, <1>7, <1>8, <1>9, <1>10, <1>11, QuietStep

-----------------------------------------------------------------------------
(* The steps that move a pointer                                           *)

(* A pointer moves over one block, or over none where it crossed the other. *)
LEMMA PointerMoves ==
    ASSUME PermInv, NEW b \in Bucket, NEW p, Between(b, p),
           input' = input, bucketStart' = bucketStart, a' = a,
           \A x \in Bucket : \A q : Between(x, q)' <=> Between(x, q) /\ ~(x = b /\ q = p),
           NEW c \in Bucket
    PROVE  Cardinality(Unread(c)') = Cardinality(Unread(c)) - (IF c = a[p] THEN 1 ELSE 0)
  <1>1. Shape /\ Types /\ Pointers /\ Bucket' = Bucket /\ N' = N
    BY SameShape DEF PermInv
  <1>2. FullBlock(p) /\ p \in 0 .. N - 1
    <2>1. FullBlock(p)
      BY <1>1, BetweenWithin
    <2>2. p \in Int /\ 0 <= p /\ p + BlockSize <= N /\ N \in Int
      BY <1>1, <2>1 DEF FullBlock, IsBlock, Shape
    <2>3. QED
      BY <2>1, <2>2, Sizes
  <1>3. p \in Unread(c) <=> c = a[p]
    BY <1>2 DEF Unread
  <1>4. \A x \in Bucket : Between(x, p) => x = b
    BY <1>1, BetweenWithin, OneArea
  <1>5. Unread(c)' = Unread(c) \ {p}
    <2>1. \A q : (\E x \in Bucket : Between(x, q)') <=> (\E x \in Bucket : Between(x, q)) /\ q # p
      BY <1>4
    <2>2. Unread(c)' = {q \in 0 .. N - 1 : a[q] = c /\ \E x \in Bucket : Between(x, q)'}
      BY <1>1 DEF Unread
    <2>3. QED
      BY <2>1, <2>2 DEF Unread
  <1>6. IsFiniteSet(Unread(c)) /\ Cardinality(Unread(c)) \in Nat
    BY <1>1, Finite
  <1>7. CASE c = a[p]
    BY <1>3, <1>5, <1>6, <1>7, FS_RemoveElement
  <1>8. CASE c # a[p]
    <2>1. Unread(c)' = Unread(c)
      BY <1>3, <1>5, <1>8
    <2>2. QED
      BY <1>6, <1>8, <2>1
  <1>9. QED
    BY <1>7, <1>8

(* A pair of pointers that leaves the same blocks between them changes no  *)
(* count of unread blocks.                                                 *)
LEMMA PointersCross ==
    ASSUME input' = input, bucketStart' = bucketStart, a' = a,
           \A x \in Bucket : \A q : Between(x, q)' <=> Between(x, q)
    PROVE  \A c : Unread(c)' = Unread(c)
  <1>1. Bucket' = Bucket /\ N' = N
    BY SameShape
  <1>2. QED
    BY <1>1 DEF Unread

(* The unread blocks are counted by a number after the step too.           *)
LEMMA UnreadCounted ==
    ASSUME Shape, input' = input, bucketStart' = bucketStart, NEW c
    PROVE  Cardinality(Unread(c)') \in Nat
  <1>1. N' = N
    BY SameShape
  <1>2. Unread(c)' \subseteq 0 .. N - 1
    BY <1>1 DEF Unread
  <1>3. IsFiniteSet(0 .. N - 1)
    <2>1. 0 \in Int /\ N - 1 \in Int
      BY DEF Shape
    <2>2. QED
      BY <2>1, FS_Interval
  <1>4. QED
    BY <1>2, <1>3, FS_Subset, FS_CardinalityType

(* How the number of blocks on their way to a bucket changes in a step of  *)
(* one thread.                                                             *)
LEMMA LeftStep ==
    ASSUME PermInv, NEW t \in Thread, NEW c, input' = input, bucketStart' = bucketStart,
           \A u \in Thread \ {t} : Carries(u, c)' <=> Carries(u, c)
    PROVE  /\ Left(c) \in Nat /\ Cardinality(Unread(c)) \in Nat
           /\ Carries(t, c) => Left(c) >= 1
           /\ Left(c)' = Cardinality(Unread(c)') + (Left(c) - Cardinality(Unread(c)))
                           + (IF Carries(t, c)' THEN 1 ELSE 0) - (IF Carries(t, c) THEN 1 ELSE 0)
  <1>1. Shape /\ Thread' = Thread
    BY SameShape DEF PermInv
  <1>2. /\ Cardinality(Unread(c)) \in Nat /\ Cardinality(Carriers(c)) \in Nat
        /\ IsFiniteSet(Carriers(c))
    BY <1>1, Finite
  <1>3. Left(c) = Cardinality(Unread(c)) + Cardinality(Carriers(c))
        /\ Left(c)' = Cardinality(Unread(c)') + Cardinality(Carriers(c)')
    BY DEF Left
  <1>4. Cardinality(Carriers(c)') = Cardinality(Carriers(c))
               + (IF Carries(t, c)' THEN 1 ELSE 0) - (IF Carries(t, c) THEN 1 ELSE 0)
    BY <1>1, CarriersStep
  <1>5. ASSUME Carries(t, c)
        PROVE  Cardinality(Carriers(c)) >= 1
    <2>1. t \in Carriers(c)
      BY <1>5 DEF Carriers
    <2>2. Cardinality(Carriers(c)) # 0
      BY <1>2, <2>1, FS_EmptySet
    <2>3. QED
      BY <1>2, <2>2
  <1>6. Left(c) \in Nat /\ (Carries(t, c) => Left(c) >= 1)
    BY <1>2, <1>3, <1>5
  <1>7. Left(c)' = Cardinality(Unread(c)') + (Left(c) - Cardinality(Unread(c)))
                     + (IF Carries(t, c)' THEN 1 ELSE 0) - (IF Carries(t, c) THEN 1 ELSE 0)
    <2> DEFINE x == Cardinality(Unread(c)')
    <2>1. x \in Nat
      BY <1>1, UnreadCounted
    <2> HIDE DEF x
    <2>2. Left(c)' = x + Cardinality(Carriers(c)')
      BY <1>3 DEF x
    <2>3. Left(c)' = x + (Left(c) - Cardinality(Unread(c)))
                     + (IF Carries(t, c)' THEN 1 ELSE 0) - (IF Carries(t, c) THEN 1 ELSE 0)
      <3> DEFINE y == Cardinality(Unread(c))
                 z == Cardinality(Carriers(c))
      <3>1. y \in Nat /\ z \in Nat /\ Left(c) = y + z
        BY <1>2, <1>3
      <3>2. Left(c)' = x + (z + (IF Carries(t, c)' THEN 1 ELSE 0) - (IF Carries(t, c) THEN 1 ELSE 0))
        BY <1>4, <2>2
      <3> HIDE DEF y, z
      <3>3. Left(c)' = x + (Left(c) - y)
                     + (IF Carries(t, c)' THEN 1 ELSE 0) - (IF Carries(t, c) THEN 1 ELSE 0)
        <4>1. CASE Carries(t, c)' /\ Carries(t, c)
          BY <2>1, <3>1, <3>2, <4>1
        <4>2. CASE Carries(t, c)' /\ ~Carries(t, c)
          BY <2>1, <3>1, <3>2, <4>2
        <4>3. CASE ~Carries(t, c)' /\ Carries(t, c)
          BY <2>1, <3>1, <3>2, <4>3
        <4>4. CASE ~Carries(t, c)' /\ ~Carries(t, c)
          BY <2>1, <3>1, <3>2, <4>4
        <4>5. QED
          BY <4>1, <4>2, <4>3, <4>4
      <3>4. QED
        BY <3>3 DEF y
    <2>4. QED
      BY <2>3 DEF x
  <1>8. QED
    BY <1>2, <1>6, <1>7

LEMMA DecReadStep ==
    ASSUME PermInv, NEW t \in Thread, DecRead(t)
    PROVE  PermInv' /\ SameTaken
  <1> SUFFICES ASSUME NEW b, NEW r, NEW w, b = me[t].bucket, r = ptr[b].r, w = ptr[b].w
               PROVE  PermInv' /\ SameTaken
    OBVIOUS
  <1>1. Types /\ Shape /\ ThreadOK(t) /\ Pointers
    BY DEF PermInv, Threads
  <1>2. /\ pc[t] = "decRead" /\ b \in Bucket
        /\ pc'[t] = (IF r < w THEN "noBlock" ELSE "read")
        /\ ptr' = [ptr EXCEPT ![b].r = @ - BlockSize]
        /\ me' = [me EXCEPT ![t].at = r]
        /\ UNCHANGED <<input, a, bucketStart, reading, swap, overflow>>
    BY <1>1 DEF DecRead, Goto, Types, Locals
  <1>3. Thread' = Thread /\ Bucket' = Bucket /\ N' = N /\ BlockSize \in Nat /\ BlockSize > 0
        /\ \A x, p : Within(p, x)' <=> Within(p, x)
    BY <1>2, SameShape, Sizes
  <1>a. \A x : AreaStart(x)' = AreaStart(x) /\ AreaEnd(x)' = AreaEnd(x)
    BY <1>2, SameShape
  <1>4. \A u \in Thread \ {t} : pc'[u] = pc[u] /\ me'[u] = me[u] /\ swap'[u] = swap[u]
    BY <1>1, <1>2 DEF Types, DecRead, Goto
  <1>5. /\ \A x \in Bucket : ptr[x].w \in Int /\ ptr[x].r \in Int
        /\ \A x \in Bucket : ptr'[x].w = ptr[x].w
        /\ ptr'[b].r = r - BlockSize /\ \A x \in Bucket \ {b} : ptr'[x].r = ptr[x].r
        /\ r \in Int /\ w \in Int /\ IsBlock(r) /\ IsBlock(w)
    BY <1>1, <1>2 DEF Types, Pointers
  <1>6. Types' /\ me'[t].at = r /\ me'[t].bucket = b
    <2>1. me \in [Thread -> Locals] /\ ptr \in [Bucket -> [w : Int, r : Int]]
      BY <1>1 DEF Types
    <2>2. me' \in [Thread -> Locals] /\ me'[t].at = r /\ me'[t].bucket = b
      BY <1>2, <1>5, <2>1 DEF Locals
    <2>3. ptr' \in [Bucket -> [w : Int, r : Int]]
      BY <1>2, <1>3, <1>5, <2>1
    <2>4. pc' \in [Thread -> Permuting]
      BY <1>1 DEF DecRead, Goto, Types, Permuting
    <2>5. Locals' = Locals
      BY <1>3 DEF Locals
    <2>6. QED
      BY <1>1, <1>2, <1>3, <2>2, <2>3, <2>4, <2>5 DEF Types
  <1>7. \A x \in Bucket : /\ ptr'[x].w \in Int /\ ptr'[x].r \in Int
                          /\ ptr[x].w <= ptr'[x].w /\ ptr'[x].r <= ptr[x].r
    BY <1>3, <1>5
  <1>8. \A x \in Bucket : \A q : Between(x, q)' <=> Between(x, q) /\ ~(x = b /\ q = r)
    <2> SUFFICES ASSUME NEW x \in Bucket, NEW q, IsBlock(q)
                 PROVE  Between(x, q)' <=> Between(x, q) /\ ~(x = b /\ q = r)
      BY DEF Between
    <2>1. CASE x # b
      BY <1>5, <2>1 DEF Between
    <2>2. CASE x = b
      <3>1. q \in Int
        BY DEF IsBlock
      <3>2. q <= r - BlockSize <=> q <= r /\ q # r
        <4>1. q < r => q + BlockSize <= r
          BY <1>5, BlocksApart
        <4>2. QED
          BY <1>3, <1>5, <3>1, <4>1
      <3>3. QED
        BY <1>5, <2>2, <3>2 DEF Between
    <2>3. QED
      BY <2>1, <2>2
  <1>9. Pointers'
    <2> SUFFICES ASSUME NEW x \in Bucket
                 PROVE  /\ IsBlock(ptr'[x].w) /\ IsBlock(ptr'[x].r)
                        /\ AreaStart(x) <= ptr'[x].w /\ ptr'[x].r + BlockSize <= AreaEnd(x)
                        /\ \A p : Between(x, p)' => FullBlock(p)'
      BY <1>3, <1>a DEF Pointers
    <2>1. \A p : Between(x, p)' => FullBlock(p)'
      BY <1>2, <1>4, <1>8, FullKept
    <2>2. /\ IsBlock(ptr[x].w) /\ IsBlock(ptr[x].r)
          /\ AreaStart(x) <= ptr[x].w /\ ptr[x].r + BlockSize <= AreaEnd(x)
      BY <1>1 DEF Pointers
    <2>3. IsBlock(ptr'[x].r)
      BY <1>5, <2>2, NextBlock
    <2>4. ptr'[x].r + BlockSize <= AreaEnd(x)
      BY <1>1, <1>3, <1>5, <1>7, <2>2, Areas
    <2>5. QED
      BY <1>5, <2>1, <2>2, <2>3, <2>4
  <1>10. r >= w => Between(b, r) /\ Within(r, b) /\ FullBlock(r) /\ FullBlock(r)'
    <2>1. r >= w => Between(b, r)
      BY <1>5 DEF Between
    <2>2. QED
      BY <1>1, <1>2, <1>4, <2>1, BetweenWithin, FullKept
  <1>11. ThreadOK(t)'
    <2>1. pc'[t] = "read" => Within(r, b)' /\ r > ptr'[b].r /\ FullBlock(r)'
      BY <1>2, <1>3, <1>5, <1>10
    <2>2. QED
      BY <1>2, <1>6, <2>1 DEF ThreadOK, Writing
  <1>12. \A u \in Thread \ {t} : PairOK(t, u)' /\ PairOK(u, t)'
    <2> SUFFICES ASSUME NEW u \in Thread \ {t}, pc'[t] = "read"
                 PROVE  PairOK(t, u)' /\ PairOK(u, t)'
      BY <1>2 DEF PairOK, Writing
    <2>1. ThreadOK(u) /\ me[u].at \in Int /\ r >= w
      BY <1>1, <1>2, <1>5 DEF PermInv, Threads, Types, Locals
    <2>2. pc[u] = "read" /\ me[u].bucket = b => me[u].at # r
      BY <1>5, <2>1 DEF ThreadOK
    <2>3. pc[u] = "look" /\ me[u].dest = b => me[u].at < r
      BY <1>3, <1>5, <2>1 DEF ThreadOK, Writing
    <2>4. pc[u] = "write" => me[u].dest # b
      BY <1>3, <1>5, <2>1 DEF ThreadOK, Writing
    <2>5. QED
      BY <1>4, <1>6, <2>2, <2>3, <2>4 DEF PairOK, Writing
  <1>13. Counts'
    <2>1. \A x : t \in Readers(x)' <=> t \in Readers(x)
      BY <1>2, <1>3, <1>6 DEF Readers
    <2>2. QED
      BY <1>2, <1>3, <1>4, <2>1, CountsKept
  <1>14. \A u \in Thread \ {t} : pc[u] \in {"read", "look"} =>
               FullBlock(me[u].at)' /\ a'[me[u].at] = a[me[u].at]
    BY <1>2, <1>4, FullKept
  <1>15. \A c \in Bucket : Taken(c)' = Taken(c)
    <2> SUFFICES ASSUME NEW c \in Bucket PROVE Taken(c)' = Taken(c)
      OBVIOUS
    <2>1. \A u \in Thread \ {t} : Carries(u, c)' <=> Carries(u, c)
      BY <1>2, <1>4, <1>7, <1>14, OthersOK
    <2>2. ~Carries(t, c)
      BY <1>2 DEF Carries
    <2>3. Left(c)' = Left(c)
      <3>1. /\ Left(c) \in Nat /\ Cardinality(Unread(c)) \in Nat
            /\ Left(c)' = Cardinality(Unread(c)') + (Left(c) - Cardinality(Unread(c)))
                           + (IF Carries(t, c)' THEN 1 ELSE 0) - (IF Carries(t, c) THEN 1 ELSE 0)
        BY <1>2, <2>1, LeftStep
      <3>2. CASE r < w
        <4>1. ~Carries(t, c)'
          BY <1>2, <3>2 DEF Carries
        <4>2. \A x \in Bucket : \A q : Between(x, q)' <=> Between(x, q)
          <5>1. ~Between(b, r)
            BY <1>5, <3>2 DEF Between
          <5>2. QED
            BY <1>8, <5>1
        <4>3. Unread(c)' = Unread(c)
          BY <1>2, <4>2, PointersCross
        <4>4. QED
          BY <2>2, <3>1, <4>1, <4>3
      <3>3. CASE r >= w
        <4>1. Carries(t, c)' <=> c = a[r]
          BY <1>2, <1>5, <1>6, <3>3 DEF Carries
        <4>2. Cardinality(Unread(c)') = Cardinality(Unread(c)) - (IF c = a[r] THEN 1 ELSE 0)
          BY <1>2, <1>8, <1>10, <3>3, PointerMoves
        <4>3. CASE c = a[r]
          BY <2>2, <3>1, <4>1, <4>2, <4>3
        <4>4. CASE c # a[r]
          BY <2>2, <3>1, <4>1, <4>2, <4>4
        <4>5. QED
          BY <4>3, <4>4
      <3>4. QED
        BY <1>5, <3>2, <3>3
    <2>4. QED
      BY <1>5, <1>a, <2>3 DEF Taken
  <1>16. Overflows'
    BY <1>2, <1>7, OverflowsKept
  <1>17. QED
    BY <1>2, <1>4, <1>6, <1>7, <1>9, <1>11, <1>12, <1>13, <1>14, <1>15, <1>16, StepOK

(* A thread that comes to the write pointer with a block for the bucket    *)
(* finds room in the bucket's area.                                        *)
LEMMA RoomAtWrite ==
    ASSUME PermInv, NEW t \in Thread, pc[t] = "incWrite", NEW b, b = me[t].dest
    PROVE  /\ b \in Bucket /\ Held(t) = BlockOf(b) /\ ptr[b].w \in Int
           /\ ptr[b].w + BlockSize <= AreaEnd(b)
           /\ ptr[b].w - AreaStart(b) + BlockSize < Size(b)
  <1> DEFINE w == ptr[b].w
             k == Left(b)
  <1>1. Types /\ Shape /\ Pointers /\ b \in Bucket /\ Held(t) = BlockOf(b)
    BY DEF PermInv, Threads, ThreadOK
  <1>2. w \in Int /\ IsBlock(w) /\ AreaStart(b) <= w /\ BlockSize \in Nat /\ BlockSize > 0
    BY <1>1, Sizes DEF Types, Pointers
  <1>3. /\ AreaStart(b) \in Nat /\ AreaEnd(b) \in Nat /\ IsBlock(AreaEnd(b))
        /\ AreaStart(b) < bucketStart[b] + BlockSize /\ bucketStart[b + 1] <= AreaEnd(b)
        /\ bucketStart[b] \in Int /\ bucketStart[b + 1] \in Int
    BY <1>1, Areas
  <1>4. k \in Nat /\ k >= 1
    <2>1. t \in Carriers(b)
      BY DEF Carriers, Carries
    <2>2. /\ Cardinality(Unread(b)) \in Nat /\ Cardinality(Carriers(b)) \in Nat
          /\ IsFiniteSet(Carriers(b))
      BY <1>1, Finite
    <2>3. Cardinality(Carriers(b)) # 0
      BY <2>1, <2>2, FS_EmptySet
    <2>4. QED
      BY <2>2, <2>3 DEF Left
  <1>5. Taken(b) = w - AreaStart(b) + BlockSize * k
    BY DEF Taken
  <1>6. Taken(b) = 0 \/ Taken(b) < Size(b)
    BY <1>1 DEF PermInv, Room
  <1>7. Size(b) = bucketStart[b + 1] - bucketStart[b]
    BY DEF Size
  <1> HIDE DEF w, k
  <1>8. BlockSize * k >= BlockSize
    BY <1>2, <1>4
  <1>9. BlockSize * k \in Int
    BY <1>2, <1>4
  <1>10. w - AreaStart(b) + BlockSize < Size(b)
    BY <1>2, <1>3, <1>5, <1>6, <1>7, <1>8, <1>9
  <1>11. w + BlockSize <= AreaEnd(b)
    <2>1. SUFFICES ASSUME AreaEnd(b) < w + BlockSize PROVE FALSE
      BY <1>2, <1>3
    <2>2. IsBlock(w + BlockSize)
      BY <1>2, NextBlock
    <2>3. AreaEnd(b) + BlockSize <= w + BlockSize
      BY <1>3, <2>1, <2>2, BlocksApart
    <2>4. QED
      BY <1>2, <1>3, <1>7, <1>10, <2>3
  <1>12. QED
    BY <1>1, <1>2, <1>10, <1>11 DEF w

LEMMA IncWriteStep ==
    ASSUME PermInv, NEW t \in Thread, IncWrite(t)
    PROVE  PermInv' /\ SameTaken
  <1> SUFFICES ASSUME NEW b, NEW r, NEW w, b = me[t].dest, r = ptr[b].r, w = ptr[b].w
               PROVE  PermInv' /\ SameTaken
    OBVIOUS
  <1>1. Types /\ Shape /\ Pointers
    BY DEF PermInv
  <1>2. /\ pc[t] = "incWrite"
        /\ ptr' = [ptr EXCEPT ![b].w = @ + BlockSize]
        /\ UNCHANGED <<input, a, bucketStart, reading>>
        /\ IF w > r /\ w >= MaxOffset
           THEN /\ overflow' = [overflow EXCEPT ![t] = Held(t)] /\ swap' = WithoutHeld(t)
                /\ pc' = [pc EXCEPT ![t] = "pick"] /\ me' = me
           ELSE /\ me' = [me EXCEPT ![t].at = w]
                /\ pc' = [pc EXCEPT ![t] = IF w > r THEN "wait" ELSE "look"]
                /\ overflow' = overflow /\ swap' = swap
    BY DEF IncWrite, Goto
  <1>3. /\ b \in Bucket /\ Held(t) = BlockOf(b)
        /\ w + BlockSize <= AreaEnd(b) /\ w - AreaStart(b) + BlockSize < Size(b)
    BY <1>2, RoomAtWrite
  <1>4. Thread' = Thread /\ Bucket' = Bucket /\ N' = N /\ BlockSize \in Nat /\ BlockSize > 0
        /\ MaxOffset' = MaxOffset
        /\ \A x, p : Within(p, x)' <=> Within(p, x)
    BY <1>2, SameShape, Sizes
  <1>a. \A x : AreaStart(x)' = AreaStart(x) /\ AreaEnd(x)' = AreaEnd(x)
    BY <1>2, SameShape
  <1>5. \A u \in Thread \ {t} : pc'[u] = pc[u] /\ me'[u] = me[u] /\ swap'[u] = swap[u]
    BY <1>1, <1>2 DEF Types, WithoutHeld
  <1>6. /\ \A x \in Bucket : ptr[x].w \in Int /\ ptr[x].r \in Int
        /\ \A x \in Bucket : ptr'[x].r = ptr[x].r
        /\ ptr'[b].w = w + BlockSize /\ \A x \in Bucket \ {b} : ptr'[x].w = ptr[x].w
        /\ r \in Int /\ w \in Int /\ IsBlock(r) /\ IsBlock(w) /\ AreaStart(b) <= w
    BY <1>1, <1>2, <1>3 DEF Types, Pointers
  <1>7. /\ pc'[t] \in {"pick", "wait", "look"}
        /\ pc'[t] \in {"wait", "look"} => me'[t].at = w /\ swap' = swap
        /\ pc'[t] = "wait" => w > r /\ ~(w >= MaxOffset)
        /\ pc'[t] = "look" => w <= r
        /\ pc'[t] \in {"pick", "wait"} => w > r
        /\ me' \in [Thread -> Locals] /\ me'[t].bucket = me[t].bucket
        /\ me'[t].dest = b /\ me'[t].current = me[t].current
    <2>1. me \in [Thread -> Locals] /\ pc \in [Thread -> Permuting]
      BY <1>1 DEF Types
    <2>2. CASE w > r /\ w >= MaxOffset
      BY <1>2, <2>1, <2>2
    <2>3. CASE ~(w > r /\ w >= MaxOffset)
      <3>1. me' = [me EXCEPT ![t].at = w]
            /\ pc' = [pc EXCEPT ![t] = IF w > r THEN "wait" ELSE "look"] /\ swap' = swap
        BY <1>2, <2>3
      <3>2. /\ me' \in [Thread -> Locals] /\ me'[t].bucket = me[t].bucket /\ me'[t].at = w
            /\ me'[t].dest = me[t].dest /\ me'[t].current = me[t].current
        BY <1>6, <2>1, <3>1 DEF Locals
      <3>3. pc'[t] = IF w > r THEN "wait" ELSE "look"
        BY <2>1, <3>1
      <3>4. QED
        BY <1>6, <2>3, <3>1, <3>2, <3>3
    <2>4. QED
      BY <2>2, <2>3
  <1>8. Types'
    <2>1. ptr' \in [Bucket -> [w : Int, r : Int]]
      <3>1. ptr \in [Bucket -> [w : Int, r : Int]] /\ w + BlockSize \in Int
        BY <1>1, <1>4, <1>6 DEF Types
      <3>2. ptr' = [ptr EXCEPT ![b].w = w + BlockSize]
        BY <1>2
      <3>3. QED
        BY <1>3, <1>4, <3>1, <3>2
    <2>2. pc' \in [Thread -> Permuting]
      BY <1>1, <1>2 DEF Types, Permuting
    <2>3. DOMAIN swap' = Thread /\ \A u \in Thread : DOMAIN swap'[u] = 1 .. 2
      BY <1>1, <1>2 DEF Types, WithoutHeld
    <2>4. DOMAIN overflow' = Thread
      BY <1>1, <1>2 DEF Types
    <2>5. Locals' = Locals
      BY <1>4 DEF Locals
    <2>6. QED
      BY <1>1, <1>2, <1>4, <1>7, <2>1, <2>2, <2>3, <2>4, <2>5 DEF Types
  <1>9. \A x \in Bucket : /\ ptr'[x].w \in Int /\ ptr'[x].r \in Int
                          /\ ptr[x].w <= ptr'[x].w /\ ptr'[x].r <= ptr[x].r
    BY <1>4, <1>6
  <1>10. \A x \in Bucket : \A q : Between(x, q)' <=> Between(x, q) /\ ~(x = b /\ q = w)
    <2> SUFFICES ASSUME NEW x \in Bucket, NEW q, IsBlock(q)
                 PROVE  Between(x, q)' <=> Between(x, q) /\ ~(x = b /\ q = w)
      BY DEF Between
    <2>1. CASE x # b
      BY <1>6, <2>1 DEF Between
    <2>2. CASE x = b
      <3>1. q \in Int
        BY DEF IsBlock
      <3>2. w + BlockSize <= q <=> w <= q /\ q # w
        <4>1. w < q => w + BlockSize <= q
          BY <1>6, BlocksApart
        <4>2. QED
          BY <1>4, <1>6, <3>1, <4>1
      <3>3. QED
        BY <1>6, <2>2, <3>2 DEF Between
    <2>3. QED
      BY <2>1, <2>2
  <1>11. Pointers'
    <2> SUFFICES ASSUME NEW x \in Bucket
                 PROVE  /\ IsBlock(ptr'[x].w) /\ IsBlock(ptr'[x].r)
                        /\ AreaStart(x) <= ptr'[x].w /\ ptr'[x].r + BlockSize <= AreaEnd(x)
                        /\ \A p : Between(x, p)' => FullBlock(p)'
      BY <1>4, <1>a DEF Pointers
    <2>1. \A p : Between(x, p)' => FullBlock(p)'
      BY <1>2, <1>5, <1>10, FullKept
    <2>2. /\ IsBlock(ptr[x].w) /\ IsBlock(ptr[x].r)
          /\ AreaStart(x) <= ptr[x].w /\ ptr[x].r + BlockSize <= AreaEnd(x)
      BY <1>1 DEF Pointers
    <2>3. IsBlock(ptr'[x].w)
      BY <1>6, <2>2, NextBlock
    <2>4. AreaStart(x) <= ptr'[x].w
      BY <1>1, <1>6, <1>9, <2>2, Areas
    <2>5. QED
      BY <1>6, <2>1, <2>2, <2>3, <2>4
  <1>12. w <= r => Between(b, w) /\ FullBlock(w) /\ FullBlock(w)'
    <2>1. w <= r => Between(b, w)
      BY <1>6 DEF Between
    <2>2. QED
      BY <1>1, <1>2, <1>3, <1>5, <2>1, BetweenWithin, FullKept
  <1>13. ThreadOK(t)'
    <2>1. Within(w, b)
      BY <1>3, <1>6 DEF Within
    <2>2. CASE pc'[t] = "pick"
      BY <2>2 DEF ThreadOK, Writing
    <2>3. CASE pc'[t] \in {"wait", "look"}
      <3>1. Held(t)' = Held(t)
        BY <1>7, <2>3 DEF Held
      <3>2. b \in Bucket' /\ Held(t)' = BlockOf(b)
        BY <1>3, <1>4, <3>1
      <3>3. Within(w, b)' /\ w + BlockSize <= ptr'[b].w
        BY <1>4, <1>6, <2>1
      <3>4. pc'[t] = "look" => FullBlock(w)'
        BY <1>7, <1>12
      <3>5. pc'[t] = "wait" => w > ptr'[b].r /\ w < MaxOffset'
        <4>1. MaxOffset \in Int
          <5>1. N + 1 \in Nat
            BY <1>1 DEF Shape
          <5>2. QED
            BY <5>1, AlignRight, Sizes DEF MaxOffset
        <4>2. QED
          BY <1>3, <1>4, <1>6, <1>7, <4>1
      <3>6. QED
        BY <1>7, <2>3, <3>2, <3>3, <3>4, <3>5 DEF ThreadOK, Writing
    <2>4. QED
      BY <1>7, <2>2, <2>3
  <1>14. \A u \in Thread \ {t} : PairOK(t, u)' /\ PairOK(u, t)'
    <2> SUFFICES ASSUME NEW u \in Thread \ {t}, pc'[t] \in {"wait", "look"}
                 PROVE  PairOK(t, u)' /\ PairOK(u, t)'
      BY <1>7 DEF PairOK, Writing
    <2>1. ThreadOK(u) /\ me[u].at \in Int
      BY <1>1 DEF PermInv, Threads, Types, Locals
    <2>2. pc[u] \in Writing /\ me[u].dest = b => me[u].at # w
      BY <1>4, <1>6, <2>1 DEF ThreadOK
    <2>3. pc[u] = "read" /\ me[u].bucket = b /\ pc'[t] = "look" => w < me[u].at
      BY <1>6, <1>7, <2>1 DEF ThreadOK
    <2>4. QED
      BY <1>5, <1>7, <2>2, <2>3 DEF PairOK, Writing
  <1>15. Counts'
    <2>1. \A x : t \in Readers(x)' <=> t \in Readers(x)
      BY <1>2, <1>4, <1>7 DEF Readers
    <2>2. QED
      BY <1>2, <1>4, <1>5, <2>1, CountsKept
  <1>16. \A u \in Thread \ {t} : pc[u] \in {"read", "look"} =>
               FullBlock(me[u].at)' /\ a'[me[u].at] = a[me[u].at]
    BY <1>2, <1>5, FullKept
  <1>17. \A c \in Bucket : Taken(c)' = Taken(c)
    <2> SUFFICES ASSUME NEW c \in Bucket PROVE Taken(c)' = Taken(c)
      OBVIOUS
    <2>1. \A u \in Thread \ {t} : Carries(u, c)' <=> Carries(u, c)
      BY <1>2, <1>5, <1>9, <1>16, OthersOK
    <2>2. Carries(t, c) <=> c = b
      BY <1>2 DEF Carries
    <2>3. /\ Left(c) \in Nat /\ Cardinality(Unread(c)) \in Nat
          /\ Left(c)' = Cardinality(Unread(c)') + (Left(c) - Cardinality(Unread(c)))
                           + (IF Carries(t, c)' THEN 1 ELSE 0) - (IF Carries(t, c) THEN 1 ELSE 0)
      BY <1>2, <2>1, LeftStep
    <2>4. Cardinality(Unread(c)') + (IF Carries(t, c)' THEN 1 ELSE 0) = Cardinality(Unread(c))
      <3>1. CASE w > r
        <4>1. ~Carries(t, c)'
          BY <1>6, <1>7, <3>1 DEF Carries
        <4>2. \A x \in Bucket : \A q : Between(x, q)' <=> Between(x, q)
          <5>1. ~Between(b, w)
            BY <1>6, <3>1 DEF Between
          <5>2. QED
            BY <1>10, <5>1
        <4>3. Unread(c)' = Unread(c)
          BY <1>2, <4>2, PointersCross
        <4>4. QED
          BY <2>3, <4>1, <4>3
      <3>2. CASE w <= r
        <4>1. Carries(t, c)' <=> c = a[w]
          BY <1>2, <1>6, <1>7, <3>2 DEF Carries
        <4>2. Cardinality(Unread(c)') = Cardinality(Unread(c)) - (IF c = a[w] THEN 1 ELSE 0)
          BY <1>2, <1>3, <1>10, <1>12, <3>2, PointerMoves
        <4>3. CASE c = a[w]
          BY <2>3, <4>1, <4>2, <4>3
        <4>4. CASE c # a[w]
          BY <2>3, <4>1, <4>2, <4>4
        <4>5. QED
          BY <4>3, <4>4
      <3>3. QED
        BY <1>6, <3>1, <3>2
    <2>5. Left(c)' = IF c = b THEN Left(c) - 1 ELSE Left(c)
      <3> DEFINE x == Cardinality(Unread(c)')
                 y == Cardinality(Unread(c))
                 i == IF Carries(t, c)' THEN 1 ELSE 0
      <3>1. x \in Int
        BY <1>1, <1>2, UnreadCounted
      <3>2. i \in Int
        OBVIOUS
      <3>3. x + i = y /\ y \in Nat /\ Left(c) \in Nat
        BY <2>3, <2>4
      <3>4. Left(c)' = x + (Left(c) - y) + i - (IF c = b THEN 1 ELSE 0)
        BY <2>2, <2>3
      <3> HIDE DEF x, y, i
      <3>5. QED
        BY <3>1, <3>2, <3>3, <3>4
    <2>6. CASE c # b
      BY <1>6, <1>a, <2>5, <2>6 DEF Taken
    <2>7. CASE c = b
      <3>1. Taken(b)' = (w + BlockSize) - AreaStart(b) + BlockSize * (Left(b) - 1)
        BY <1>6, <1>a, <2>5, <2>7 DEF Taken
      <3>2. AreaStart(b) \in Int /\ Left(b) \in Nat
        BY <1>1, <1>3, <2>3, <2>7, Areas
      <3>3. BlockSize * (Left(b) - 1) = BlockSize * Left(b) - BlockSize
            /\ BlockSize * Left(b) \in Int
        BY <1>4, <3>2
      <3>4. QED
        BY <1>4, <1>6, <2>7, <3>1, <3>2, <3>3 DEF Taken
    <2>8. QED
      BY <2>6, <2>7
  <1>18. Overflows'
    <2>1. CASE w > r /\ w >= MaxOffset
      <3>1. OverflowBucket = b /\ w = MaxOffset
        BY <1>1, <1>3, <1>6, <2>1, LastBlock
      <3>2. \A u \in Thread \ {t} : overflow[u] = <<>>
        <4> SUFFICES ASSUME NEW u \in Thread \ {t}, overflow[u] # <<>>
                     PROVE  FALSE
          OBVIOUS
        <4>1. ptr[OverflowBucket].w > MaxOffset
          BY DEF PermInv, Overflows
        <4>2. QED
          BY <1>6, <3>1, <4>1
      <3>3. overflow' = [overflow EXCEPT ![t] = BlockOf(b)] /\ DOMAIN overflow = Thread
        BY <1>1, <1>2, <1>3, <2>1 DEF Types
      <3>4. \A u \in Thread : overflow'[u] # <<>> => u = t
        BY <3>2, <3>3
      <3>5. overflow'[t] = BlockOf(b) /\ \A u \in Thread \ {t} : overflow'[u] = <<>>
        BY <3>2, <3>3
      <3>6. OverflowBucket' = b
        BY <1>2, <3>1, SameShape
      <3>7. ptr'[b].w > MaxOffset'
        BY <1>4, <1>6, <3>1
      <3>8. QED
        BY <1>3, <1>4, <3>4, <3>5, <3>6, <3>7 DEF Overflows
    <2>2. CASE ~(w > r /\ w >= MaxOffset)
      <3>1. overflow' = overflow
        BY <1>2, <2>2
      <3>2. QED
        BY <1>2, <1>9, <3>1, OverflowsKept
    <2>3. QED
      BY <2>1, <2>2
  <1>19. QED
    BY <1>2, <1>5, <1>8, <1>9, <1>11, <1>13, <1>14, <1>15, <1>16, <1>17, <1>18, StepOK

-----------------------------------------------------------------------------
(* The permutation as a whole                                              *)

(* A step that changes no variable keeps the invariant.                    *)
LEMMA Unchanged ==
    ASSUME PermInv, UNCHANGED pvars
    PROVE  PermInv' /\ SameTaken
  <1>1. /\ input' = input /\ a' = a /\ bucketStart' = bucketStart /\ ptr' = ptr
        /\ reading' = reading /\ swap' = swap /\ overflow' = overflow /\ me' = me /\ pc' = pc
    BY DEF pvars
  <1>2. Shape /\ Types /\ Pointers /\ Threads /\ Pairs /\ Counts /\ Room /\ Overflows
    BY DEF PermInv
  <1>3. /\ Shape' /\ Thread' = Thread /\ Bucket' = Bucket /\ N' = N
        /\ MaxOffset' = MaxOffset /\ OverflowBucket' = OverflowBucket
    BY <1>1, <1>2, SameShape
  <1>4. \A b, p : Within(p, b)' <=> Within(p, b)
    BY <1>1, SameShape
  <1>5. \A b : Size(b)' = Size(b) /\ AreaStart(b)' = AreaStart(b)
    BY <1>1, SameShape
  <1>6. \A p : FullBlock(p)' <=> FullBlock(p)
    BY <1>1, <1>3 DEF FullBlock
  <1>7. Types'
    BY <1>1, <1>2, <1>3 DEF Types, Locals
  <1>8. Pointers' /\ \A c : Unread(c)' = Unread(c)
    <2>1. \A b \in Bucket : \A p : Between(b, p) => FullBlock(p)' /\ a'[p] = a[p]
      BY <1>1, <1>2, <1>6 DEF Pointers
    <2>2. QED
      BY <1>1, <2>1, PointersKept
  <1>9. Threads'
    <2>1. \A t : Held(t)' = Held(t)
      BY <1>1 DEF Held
    <2>2. \A t \in Thread : ThreadOK(t)'
      BY <1>1, <1>2, <1>3, <1>4, <1>6, <2>1 DEF Threads, ThreadOK
    <2>3. QED
      BY <1>3, <2>2 DEF Threads
  <1>10. Pairs'
    BY <1>1, <1>2, <1>3 DEF Pairs, PairOK
  <1>11. Counts'
    <2>1. \A b : Readers(b)' = Readers(b)
      BY <1>1, <1>3 DEF Readers
    <2>2. QED
      BY <1>1, <1>2, <1>3, <2>1 DEF Counts
  <1>12. Room' /\ SameTaken
    <2>1. \A t, c : Carries(t, c)' <=> Carries(t, c)
      BY <1>1 DEF Carries
    <2>2. \A c : Carriers(c)' = Carriers(c)
      BY <1>3, <2>1 DEF Carriers
    <2>3. \A c : Taken(c)' = Taken(c)
      BY <1>1, <1>5, <1>8, <2>2 DEF Taken, Left
    <2>4. QED
      BY <1>2, <1>3, <1>5, <2>3 DEF Room, SameTaken
  <1>13. Overflows'
    BY <1>1, <1>2, <1>3 DEF Overflows
  <1>14. QED
    BY <1>3, <1>7, <1>8, <1>9, <1>10, <1>11, <1>12, <1>13 DEF PermInv

(* Every step of permuteBlocks keeps the invariant.                        *)
LEMMA PermuteStepKeeps ==
    ASSUME PermInv, NEW t \in Thread, PermuteStep(t)
    PROVE  PermInv' /\ SameTaken
  <1>1. CASE StartRead(t)       BY <1>1, StartReadStep
  <1>2. CASE DecRead(t)         BY <1>2, DecReadStep
  <1>3. CASE ReadBlock(t)       BY <1>3, ReadBlockStep
  <1>4. CASE StopRead(t)        BY <1>4, StopReadStep
  <1>5. CASE NextBucket(t)      BY <1>5, NextBucketStep
  <1>6. CASE IncWrite(t)        BY <1>6, IncWriteStep
  <1>7. CASE WaitForReaders(t)  BY <1>7, WaitForReadersStep
  <1>8. CASE WriteBlock(t)      BY <1>8, WriteBlockStep
  <1>9. CASE LookAtBlock(t)     BY <1>9, LookAtBlockStep
  <1>10. QED
    BY <1>1, <1>2, <1>3, <1>4, <1>5, <1>6, <1>7, <1>8, <1>9 DEF PermuteStep

(* What the invariant says of two threads, of the overflow and of the      *)
(* array.                                                                  *)
LEMMA Exclusive == PermInv => BlocksExclusive
  BY HandsApart DEF BlocksExclusive

LEMMA Foreseen == PermInv => OverflowForeseen
  BY DEF PermInv, Overflows, OverflowForeseen, BlockOf

(* The block in the hands of a thread lies inside the array.               *)
BlocksInside ==
    \A t \in Thread : pc[t] \in {"read", "look", "write"} =>
        0 <= me[t].at /\ me[t].at + BlockSize <= N

LEMMA Inside == PermInv => BlocksInside
  <1> SUFFICES ASSUME PermInv, NEW t \in Thread, pc[t] \in {"read", "look", "write"}
               PROVE  0 <= me[t].at /\ me[t].at + BlockSize <= N
    BY DEF BlocksInside
  <1> DEFINE at == me[t].at
             d == me[t].dest
  <1>1. ThreadOK(t) /\ Shape /\ N \in Nat /\ BlockSize \in Nat /\ BlockSize > 0
    BY Sizes DEF PermInv, Threads, Shape
  <1>2. CASE pc[t] \in {"read", "look"}
    BY <1>1, <1>2 DEF ThreadOK, FullBlock
  <1>3. CASE pc[t] = "write"
    <2>1. d \in Bucket /\ Within(at, d) /\ at < MaxOffset
      BY <1>1, <1>3 DEF ThreadOK, Writing
    <2>2. AreaStart(d) \in Nat
      BY <1>1, <2>1, Areas
    <2>3. at \in Int /\ IsBlock(at) /\ AreaStart(d) <= at
      BY <2>1 DEF Within, IsBlock
    <2>4. Align(N + 1) \in Nat /\ IsBlock(Align(N + 1)) /\ Align(N + 1) < N + 1 + BlockSize
      BY <1>1, AlignRight
    <2>5. at < Align(N + 1) - BlockSize
      BY <2>1 DEF MaxOffset
    <2>6. IsBlock(at + BlockSize) /\ at + BlockSize < Align(N + 1)
      BY <1>1, <2>3, <2>4, <2>5, NextBlock
    <2>7. at + BlockSize + BlockSize <= Align(N + 1)
      BY <2>4, <2>6, BlocksApart
    <2>8. QED
      BY <1>1, <2>2, <2>3, <2>4, <2>7
  <1>4. QED
    BY <1>2, <1>3

-----------------------------------------------------------------------------
(* What the permutation leaves behind                                      *)

(* A block that a write pointer has passed: it holds a block of its bucket *)
(* and nobody is about to read it, or a thread is about to put one there,  *)
(* or it was the last of the array and its block is an overflow block.     *)
Passed(p, c) == Within(p, c) /\ p + BlockSize <= ptr[c].w
Settled(p, c) == FullBlock(p) /\ a[p] = c /\ \A t \in Thread : pc[t] = "read" => me[t].at # p
Arriving(t, p, c) == pc[t] \in Writing /\ me[t].dest = c /\ me[t].at = p
CutOff(p) == p >= MaxOffset /\ \E t \in Thread : overflow[t] # <<>>
PassedOK == \A c \in Bucket : \A p : Passed(p, c) =>
    Settled(p, c) \/ CutOff(p) \/ \E t \in Thread : Arriving(t, p, c)

(* A thread goes round the buckets once, and leaves one only when it has   *)
(* found it empty; "left" buckets from its own on are still to be visited. *)
Empty(b) == ptr[b].w > ptr[b].r
Ahead(b, c) == IF b <= c THEN c - b ELSE c - b + NumBuckets
RoundOK(t) ==
    /\ me[t].left \in Nat
    /\ pc[t] \in {"permuted", "published"} <=> me[t].left = 0
    /\ pc[t] = "noBlock" => Empty(me[t].bucket)
    /\ \A c \in Bucket : Empty(c) \/ Ahead(me[t].bucket, c) < me[t].left
RoundsOK == \A t \in Thread : RoundOK(t)

(* The blocks passed in a step of one thread.                              *)
LEMMA PassedStep ==
    ASSUME PermInv, PassedOK, NEW t \in Thread, input' = input, bucketStart' = bucketStart,
           \A u \in Thread \ {t} : pc'[u] = pc[u] /\ me'[u] = me[u],
           \A u \in Thread : overflow[u] # <<>> => overflow'[u] # <<>>,
           \A c \in Bucket : \A p : Passed(p, c)' =>
               Passed(p, c) \/ CutOff(p)' \/ Arriving(t, p, c)',
           \A c \in Bucket : \A p : Passed(p, c) /\ Settled(p, c)
                                    /\ ~(pc[t] \in Writing /\ me[t].at = p) => Settled(p, c)',
           \A c \in Bucket : \A p : Passed(p, c) /\ Arriving(t, p, c) =>
               Settled(p, c)' \/ Arriving(t, p, c)'
    PROVE  PassedOK'
  <1>1. Shape /\ Threads /\ Thread' = Thread /\ Bucket' = Bucket /\ MaxOffset' = MaxOffset
    BY SameShape DEF PermInv
  <1>2. SUFFICES ASSUME NEW c \in Bucket, NEW p, Passed(p, c)'
                 PROVE  Settled(p, c)' \/ CutOff(p)' \/ \E u \in Thread : Arriving(u, p, c)'
    BY <1>1 DEF PassedOK
  <1>3. CASE CutOff(p)' \/ Arriving(t, p, c)'
    BY <1>3
  <1>4. CASE Passed(p, c)
    <2>1. CASE CutOff(p)
      BY <1>1, <2>1 DEF CutOff
    <2>2. CASE pc[t] \in Writing /\ me[t].at = p
      <3>1. me[t].dest = c
        <4>1. me[t].dest \in Bucket /\ Within(p, me[t].dest)
          BY <1>1, <2>2 DEF Threads, ThreadOK
        <4>2. QED
          BY <1>1, <1>4, <4>1, OneArea DEF Passed
      <3>2. Arriving(t, p, c)
        BY <2>2, <3>1 DEF Arriving
      <3>3. Settled(p, c)' \/ Arriving(t, p, c)'
        BY <1>4, <3>2
      <3>4. QED
        BY <3>3
    <2>3. CASE Settled(p, c) /\ ~(pc[t] \in Writing /\ me[t].at = p)
      BY <1>4, <2>3
    <2>4. ASSUME NEW u \in Thread, Arriving(u, p, c), u # t
          PROVE  Arriving(u, p, c)'
      BY <2>4 DEF Arriving
    <2>5. CASE Arriving(t, p, c)
      BY <2>2, <2>5 DEF Arriving
    <2>6. QED
      BY <1>4, <2>1, <2>2, <2>3, <2>4, <2>5 DEF PassedOK
  <1>5. QED
    BY <1>2, <1>3, <1>4

(* A settled block stays one while nobody writes to it or begins to read   *)
(* it.                                                                     *)
LEMMA SettledKept ==
    ASSUME PermInv, NEW t \in Thread, input' = input,
           \A u \in Thread \ {t} : pc'[u] = pc[u] /\ me'[u] = me[u],
           NEW p, NEW c, Settled(p, c), FullBlock(p)', a'[p] = a[p],
           pc'[t] = "read" => me'[t].at # p
    PROVE  Settled(p, c)'
  <1>1. Thread' = Thread
    BY DEF Thread, T
  <1>2. \A u \in Thread : pc'[u] = "read" => me'[u].at # p
    BY DEF Settled
  <1>3. QED
    BY <1>1, <1>2 DEF Settled

(* The steps that write nothing and begin no reading.                      *)
LEMMA PassedKept ==
    ASSUME PermInv, PassedOK, NEW t \in Thread,
           input' = input, bucketStart' = bucketStart, a' = a,
           \A u \in Thread \ {t} : pc'[u] = pc[u] /\ me'[u] = me[u],
           \A u \in Thread : overflow[u] # <<>> => overflow'[u] # <<>>,
           \A c \in Bucket : \A p : Passed(p, c)' =>
               Passed(p, c) \/ CutOff(p)' \/ Arriving(t, p, c)',
           pc'[t] = "read" => \A c \in Bucket : ~Passed(me'[t].at, c),
           \A c \in Bucket : \A p : Arriving(t, p, c) => Arriving(t, p, c)'
    PROVE  PassedOK'
  <1>1. \A p : FullBlock(p) => FullBlock(p)'
    BY FullKept
  <1>2. ASSUME NEW c \in Bucket, NEW p, Passed(p, c), Settled(p, c)
        PROVE  Settled(p, c)'
    <2>1. FullBlock(p)' /\ a'[p] = a[p]
      BY <1>1, <1>2 DEF Settled
    <2>2. pc'[t] = "read" => me'[t].at # p
      BY <1>2
    <2>3. QED
      BY <1>2, <2>1, <2>2, SettledKept
  <1>3. QED
    BY <1>2, PassedStep

(* The steps that touch neither blocks nor pointers nor who writes.        *)
LEMMA PassedQuiet ==
    ASSUME PermInv, PassedOK, NEW t \in Thread, UNCHANGED <<input, a, bucketStart, ptr, overflow>>,
           \A u \in Thread \ {t} : pc'[u] = pc[u] /\ me'[u] = me[u],
           pc'[t] # "read", pc[t] \in Writing => pc'[t] \in Writing /\ me'[t] = me[t]
    PROVE  PassedOK'
  <1>1. \A c, p : Passed(p, c)' <=> Passed(p, c)
    BY SameShape DEF Passed
  <1>2. \A c, p : Arriving(t, p, c) => Arriving(t, p, c)'
    BY DEF Arriving
  <1>3. QED
    BY <1>1, <1>2, PassedKept

(* One thread moves, and the pointers only close in on each other.         *)
LEMMA RoundsStep ==
    ASSUME PermInv, RoundsOK, NEW t \in Thread, input' = input,
           \A u \in Thread \ {t} : pc'[u] = pc[u] /\ me'[u] = me[u],
           \A b \in Bucket : /\ ptr'[b].w \in Int /\ ptr'[b].r \in Int
                             /\ ptr[b].w <= ptr'[b].w /\ ptr'[b].r <= ptr[b].r,
           RoundOK(t)'
    PROVE  RoundsOK'
  <1>1. Thread' = Thread /\ Bucket' = Bucket /\ NumBuckets' = NumBuckets
    BY DEF Thread, Bucket, NumBuckets, T
  <1>2. /\ \A b \in Bucket : ptr[b].w \in Int /\ ptr[b].r \in Int
        /\ \A u \in Thread : me[u].bucket \in Bucket
    BY DEF PermInv, Types, Locals
  <1>3. \A b \in Bucket : Empty(b) => Empty(b)'
    BY <1>2 DEF Empty
  <1>4. ASSUME NEW u \in Thread \ {t}
        PROVE  RoundOK(u)'
    <2>1. RoundOK(u) /\ pc'[u] = pc[u] /\ me'[u] = me[u] /\ me[u].bucket \in Bucket
      BY <1>2 DEF RoundsOK
    <2>2. \A c \in Bucket : Empty(c)' \/ Ahead(me[u].bucket, c) < me[u].left
      BY <1>3, <2>1 DEF RoundOK
    <2>3. \A c \in Bucket' : Empty(c)' \/ Ahead(me[u].bucket, c)' < me'[u].left
      BY <1>1, <2>1, <2>2 DEF Ahead
    <2>4. pc'[u] = "noBlock" => Empty(me[u].bucket)'
      BY <1>3, <2>1 DEF RoundOK, Empty
    <2>5. QED
      BY <2>1, <2>3, <2>4 DEF RoundOK
  <1>5. QED
    BY <1>1, <1>4 DEF RoundsOK

(* The steps of a thread within one visit to a bucket.                     *)
LEMMA RoundKept ==
    ASSUME PermInv, RoundsOK, NEW t \in Thread, input' = input,
           \A u \in Thread \ {t} : pc'[u] = pc[u] /\ me'[u] = me[u],
           \A b \in Bucket : /\ ptr'[b].w \in Int /\ ptr'[b].r \in Int
                             /\ ptr[b].w <= ptr'[b].w /\ ptr'[b].r <= ptr[b].r,
           me'[t].bucket = me[t].bucket, me'[t].left = me[t].left,
           pc[t] \notin {"permuted", "published"}, pc'[t] \notin {"permuted", "published"},
           pc'[t] = "noBlock" => Empty(me[t].bucket)'
    PROVE  RoundsOK'
  <1>1. Bucket' = Bucket /\ NumBuckets' = NumBuckets
    BY DEF Bucket, NumBuckets
  <1>2. /\ \A b \in Bucket : ptr[b].w \in Int /\ ptr[b].r \in Int
        /\ RoundOK(t)
    BY DEF PermInv, Types, RoundsOK
  <1>3. \A b \in Bucket : Empty(b) => Empty(b)'
    BY <1>2 DEF Empty
  <1>4. RoundOK(t)'
    <2>1. \A c \in Bucket : Empty(c)' \/ Ahead(me[t].bucket, c) < me'[t].left
      BY <1>2, <1>3 DEF RoundOK
    <2>2. \A c \in Bucket' : Empty(c)' \/ Ahead(me[t].bucket, c)' < me'[t].left
      BY <1>1, <2>1 DEF Ahead
    <2>3. me'[t].left \in Nat /\ (pc'[t] \in {"permuted", "published"} <=> me'[t].left = 0)
      BY <1>2 DEF RoundOK
    <2>4. QED
      BY <2>2, <2>3 DEF RoundOK
  <1>5. QED
    BY <1>4, RoundsStep

(* And when the pointers stay as well.                                     *)
LEMMA RoundQuiet ==
    ASSUME PermInv, RoundsOK, NEW t \in Thread, input' = input, ptr' = ptr,
           \A u \in Thread \ {t} : pc'[u] = pc[u] /\ me'[u] = me[u],
           me'[t].bucket = me[t].bucket, me'[t].left = me[t].left,
           pc[t] \notin {"permuted", "published"}, pc'[t] \notin {"permuted", "published", "noBlock"}
    PROVE  RoundsOK'
  <1>1. \A b \in Bucket : /\ ptr'[b].w \in Int /\ ptr'[b].r \in Int
                          /\ ptr[b].w <= ptr'[b].w /\ ptr'[b].r <= ptr[b].r
    <2>1. \A b \in Bucket : ptr[b].w \in Int /\ ptr[b].r \in Int
      BY DEF PermInv, Types
    <2>2. QED
      BY <2>1
  <1>2. QED
    BY <1>1, RoundKept

(* The permutation's progress, step by step.                               *)
Progress == PassedOK /\ RoundsOK

LEMMA QuietProgress ==
    ASSUME PermInv, Progress, NEW t \in Thread, StartRead(t) \/ StopRead(t) \/ WaitForReaders(t)
    PROVE  Progress'
  <1>1. Types /\ ThreadOK(t)
    BY DEF PermInv, Threads
  <1>2. /\ UNCHANGED <<input, a, bucketStart, ptr, overflow>>
        /\ \A u \in Thread \ {t} : pc'[u] = pc[u] /\ me'[u] = me[u]
        /\ pc[t] \in {"pick", "stopRead", "wait"} /\ pc'[t] \in {"decRead", "incWrite", "write"}
        /\ pc[t] = "wait" => pc'[t] = "write" /\ me' = me
        /\ me'[t].bucket = me[t].bucket /\ me'[t].left = me[t].left
    BY <1>1 DEF StartRead, StopRead, WaitForReaders, Goto, Types, Locals
  <1>3. PassedOK'
    BY <1>2, PassedQuiet DEF Writing, Progress
  <1>4. RoundsOK'
    BY <1>2, RoundQuiet DEF Progress
  <1>5. QED
    BY <1>3, <1>4 DEF Progress

(* A thread that goes on has found its bucket empty; the next is one       *)
(* nearer to all the others.                                               *)
LEMMA NextBucketProgress ==
    ASSUME PermInv, Progress, NEW t \in Thread, NextBucket(t)
    PROVE  Progress'
  <1> SUFFICES ASSUME NEW b, NEW b1, NEW left,
                      b = me[t].bucket, b1 = (b + 1) % NumBuckets, left = me[t].left
               PROVE  Progress'
    OBVIOUS
  <1>1. Types /\ Shape /\ RoundOK(t)
    BY DEF PermInv, Progress, RoundsOK
  <1>2. /\ UNCHANGED <<input, a, bucketStart, ptr, overflow>>
        /\ \A u \in Thread \ {t} : pc'[u] = pc[u] /\ me'[u] = me[u]
        /\ pc[t] = "noBlock" /\ pc'[t] = IF left = 1 THEN "permuted" ELSE "pick"
        /\ me'[t].bucket = b1 /\ me'[t].left = left - 1
    BY <1>1 DEF NextBucket, Goto, Types, Locals
  <1>3. PassedOK'
    BY <1>2, PassedQuiet DEF Writing, Progress
  <1>4. b \in Bucket /\ left \in Nat \ {0} /\ Empty(b)
        /\ \A c \in Bucket : Empty(c) \/ Ahead(b, c) < left
    BY <1>1, <1>2 DEF RoundOK, Types, Locals
  <1>5. NumBuckets \in Nat /\ NumBuckets > 0 /\ b \in Nat /\ b < NumBuckets
    BY <1>1, <1>4 DEF Shape, Bucket
  <1>6. b1 = IF b + 1 = NumBuckets THEN 0 ELSE b + 1
    BY <1>5
  <1>7. Bucket' = Bucket /\ NumBuckets' = NumBuckets /\ \A c : Empty(c)' <=> Empty(c)
    BY <1>2 DEF Bucket, NumBuckets, Empty
  <1>8. ASSUME NEW c \in Bucket, ~Empty(c)
        PROVE  Ahead(b1, c) < left - 1
    <2>1. c # b /\ Ahead(b, c) < left /\ c \in Nat /\ c < NumBuckets
      BY <1>4, <1>5, <1>8 DEF Bucket
    <2>2. Ahead(b1, c) = Ahead(b, c) - 1 /\ Ahead(b, c) \in Int
      <3>1. CASE b + 1 = NumBuckets
        <4>1. b1 = 0 /\ c < b
          BY <1>5, <1>6, <2>1, <3>1
        <4>2. Ahead(b, c) = c - b + NumBuckets /\ Ahead(b1, c) = c - b1
          BY <1>5, <2>1, <4>1 DEF Ahead
        <4>3. QED
          BY <1>5, <2>1, <3>1, <4>1, <4>2
      <3>2. CASE b + 1 # NumBuckets
        <4>1. b1 = b + 1 /\ (c < b \/ b1 <= c)
          BY <1>5, <1>6, <2>1, <3>2
        <4>2. CASE c < b
          BY <1>5, <2>1, <4>1, <4>2 DEF Ahead
        <4>3. CASE b1 <= c
          BY <1>5, <2>1, <4>1, <4>3 DEF Ahead
        <4>4. QED
          BY <4>1, <4>2, <4>3
      <3>3. QED
        BY <3>1, <3>2
    <2>3. QED
      BY <1>4, <2>1, <2>2
  <1>9. RoundOK(t)'
    <2>1. left - 1 \in Nat /\ (left = 1 <=> left - 1 = 0)
      BY <1>4
    <2>2. \A c \in Bucket' : Empty(c)' \/ Ahead(b1, c)' < left - 1
      BY <1>7, <1>8 DEF Ahead
    <2>3. pc'[t] # "noBlock" /\ (pc'[t] \in {"permuted", "published"} <=> left = 1)
      BY <1>2
    <2>4. QED
      BY <1>2, <2>1, <2>2, <2>3 DEF RoundOK
  <1>10. \A x \in Bucket : /\ ptr'[x].w \in Int /\ ptr'[x].r \in Int
                           /\ ptr[x].w <= ptr'[x].w /\ ptr'[x].r <= ptr[x].r
    <2>1. \A x \in Bucket : ptr[x].w \in Int /\ ptr[x].r \in Int
      BY <1>1 DEF Types
    <2>2. QED
      BY <1>2, <2>1
  <1>11. RoundsOK'
    BY <1>2, <1>9, <1>10, RoundsStep DEF Progress
  <1>12. QED
    BY <1>3, <1>11 DEF Progress

LEMMA DecReadProgress ==
    ASSUME PermInv, Progress, NEW t \in Thread, DecRead(t)
    PROVE  Progress'
  <1> SUFFICES ASSUME NEW b, NEW r, NEW w, b = me[t].bucket, r = ptr[b].r, w = ptr[b].w
               PROVE  Progress'
    OBVIOUS
  <1>1. Types /\ Shape /\ Pointers /\ BlockSize \in Nat /\ BlockSize > 0
    BY Sizes DEF PermInv
  <1>2. /\ pc[t] = "decRead" /\ b \in Bucket
        /\ pc'[t] = (IF r < w THEN "noBlock" ELSE "read")
        /\ ptr' = [ptr EXCEPT ![b].r = @ - BlockSize]
        /\ me' = [me EXCEPT ![t].at = r]
        /\ UNCHANGED <<input, a, bucketStart, swap, overflow>>
    BY <1>1 DEF DecRead, Goto, Types, Locals
  <1>3. \A u \in Thread \ {t} : pc'[u] = pc[u] /\ me'[u] = me[u]
    BY <1>1, <1>2 DEF DecRead, Goto, Types
  <1>4. /\ \A x \in Bucket : ptr[x].w \in Int /\ ptr[x].r \in Int
        /\ \A x \in Bucket : ptr'[x].w = ptr[x].w
        /\ ptr'[b].r = r - BlockSize /\ \A x \in Bucket \ {b} : ptr'[x].r = ptr[x].r
        /\ r \in Int /\ w \in Int
    BY <1>1, <1>2 DEF Types
  <1>5. me'[t].at = r /\ me'[t].bucket = me[t].bucket /\ me'[t].left = me[t].left
    BY <1>1, <1>2, <1>4 DEF Types, Locals
  <1>6. \A x \in Bucket : /\ ptr'[x].w \in Int /\ ptr'[x].r \in Int
                          /\ ptr[x].w <= ptr'[x].w /\ ptr'[x].r <= ptr[x].r
    BY <1>1, <1>4
  <1>7. \A c \in Bucket : \A p : Passed(p, c)' <=> Passed(p, c)
    <2>1. \A p, x : Within(p, x)' <=> Within(p, x)
      BY <1>2, SameShape
    <2>2. QED
      BY <1>4, <2>1 DEF Passed
  <1>8. ASSUME pc'[t] = "read", NEW c \in Bucket, Passed(r, c)
        PROVE  FALSE
    <2>1. r >= w
      BY <1>2, <1>4, <1>8
    <2>2. Within(r, b)
      <3>1. Between(b, r)
        BY <1>1, <1>2, <1>4, <2>1 DEF Between, Pointers
      <3>2. QED
        BY <1>1, <1>2, <3>1, BetweenWithin
    <2>3. c = b
      BY <1>1, <1>2, <1>8, <2>2, OneArea DEF Passed
    <2>4. QED
      BY <1>1, <1>4, <1>8, <2>1, <2>3 DEF Passed
  <1>9. PassedOK'
    <2>1. \A c, p : ~Arriving(t, p, c)
      BY <1>2 DEF Arriving, Writing
    <2>2. pc'[t] = "read" => \A c \in Bucket : ~Passed(me'[t].at, c)
      BY <1>5, <1>8
    <2>3. \A u \in Thread : overflow[u] # <<>> => overflow'[u] # <<>>
      BY <1>2
    <2>4. QED
      BY <1>2, <1>3, <1>7, <2>1, <2>2, <2>3, PassedKept DEF Progress
  <1>10. RoundsOK'
    <2>1. pc'[t] = "noBlock" => Empty(me[t].bucket)'
      BY <1>1, <1>2, <1>4, <1>5 DEF Empty
    <2>2. pc[t] \notin {"permuted", "published"} /\ pc'[t] \notin {"permuted", "published"}
      BY <1>2
    <2>3. QED
      BY <1>2, <1>3, <1>5, <1>6, <2>1, <2>2, RoundKept DEF Progress
  <1>11. QED
    BY <1>9, <1>10 DEF Progress

(* A thread reads a block no write pointer has passed, or one a writer     *)
(* waits to fill.                                                          *)
LEMMA ReadBlockProgress ==
    ASSUME PermInv, Progress, NEW t \in Thread, ReadBlock(t)
    PROVE  Progress'
  <1> DEFINE at == me[t].at
  <1>1. Types
    BY DEF PermInv
  <1>2. /\ pc[t] = "read" /\ pc'[t] = "stopRead" /\ a' = Vacated(at)
        /\ UNCHANGED <<input, bucketStart, ptr, overflow, me>>
        /\ \A u \in Thread \ {t} : pc'[u] = pc[u]
    BY <1>1 DEF ReadBlock, Goto, Types
  <1>3. \A p : FullBlock(p) /\ p # at => FullBlock(p)' /\ a'[p] = a[p]
    BY <1>2, PutBlock DEF Vacated
  <1>4. ASSUME NEW c \in Bucket, NEW p, Settled(p, c)
        PROVE  Settled(p, c)'
    <2>1. FullBlock(p)' /\ a'[p] = a[p]
      BY <1>2, <1>3, <1>4 DEF Settled
    <2>2. QED
      BY <1>2, <1>4, <2>1, SettledKept
  <1>5. PassedOK'
    <2>1. \A c, p : Passed(p, c)' <=> Passed(p, c)
      BY <1>2, SameShape DEF Passed
    <2>2. \A c, p : ~Arriving(t, p, c)
      BY <1>2 DEF Arriving, Writing
    <2>3. QED
      BY <1>2, <1>4, <2>1, <2>2, PassedStep DEF Progress
  <1>6. RoundsOK'
    BY <1>2, RoundQuiet DEF Progress
  <1>7. QED
    BY <1>5, <1>6 DEF Progress

(* What a writer has put down is full, and settled when nobody reads in    *)
(* its place.                                                              *)
LEMMA PutDown ==
    ASSUME PermInv, NEW t \in Thread, pc[t] \in {"look", "write"},
           NEW at, at = me[t].at, NEW d, d = me[t].dest,
           a' = WithBlock(at, Held(t)), input' = input
    PROVE  FullBlock(at)' /\ a'[at] = d
  <1>1. /\ d \in Bucket /\ Held(t) = BlockOf(d) /\ IsBlock(at) /\ at \in Int
        /\ DOMAIN a = 0 .. N - 1 /\ BlockSize \in Nat /\ BlockSize > 0 /\ N \in Nat
    BY Sizes DEF PermInv, Threads, ThreadOK, Writing, Within, IsBlock, Types, Shape
  <1>2. 0 <= at /\ at + BlockSize <= N
    BY Inside DEF BlocksInside
  <1>3. \A q \in Places(at) : q \in DOMAIN a /\ q - at + 1 \in 1 .. BlockSize
    <2> SUFFICES ASSUME NEW q \in Places(at) PROVE q \in 0 .. N - 1 /\ q - at + 1 \in 1 .. BlockSize
      BY <1>1
    <2>1. q \in Int /\ at <= q /\ q < at + BlockSize
      BY <1>1 DEF Places
    <2>2. QED
      BY <1>1, <1>2, <2>1
  <1>4. \A q \in Places(at) : a'[q] = d
    BY <1>1, <1>3 DEF WithBlock, BlockOf
  <1>5. at \in Places(at) /\ a'[at] = d
    BY <1>1, <1>4 DEF Places
  <1>6. N' = N /\ Bucket' = Bucket
    BY DEF N, Bucket, NumBuckets
  <1>7. QED
    BY <1>1, <1>2, <1>4, <1>5, <1>6 DEF FullBlock

(* Nobody reads where a block is put down.                                 *)
LEMMA NoReader ==
    ASSUME PermInv, NEW t \in Thread, pc[t] \in {"look", "write"}, NEW u \in Thread, pc[u] = "read"
    PROVE  me[u].at # me[t].at
  BY HandsApart

LEMMA WriteBlockProgress ==
    ASSUME PermInv, Progress, NEW t \in Thread, WriteBlock(t)
    PROVE  Progress'
  <1> DEFINE at == me[t].at
  <1>1. Types
    BY DEF PermInv
  <1>2. /\ pc[t] = "write" /\ pc'[t] = "pick" /\ a' = WithBlock(at, Held(t))
        /\ UNCHANGED <<input, bucketStart, ptr, overflow>>
        /\ \A u \in Thread \ {t} : pc'[u] = pc[u] /\ me'[u] = me[u]
        /\ me'[t].bucket = me[t].bucket /\ me'[t].left = me[t].left
    BY <1>1 DEF WriteBlock, Goto, Types, Locals
  <1>3. \A p : FullBlock(p) /\ p # at => FullBlock(p)' /\ a'[p] = a[p]
    BY <1>2, PutBlock
  <1>4. ASSUME NEW c \in Bucket, NEW p, Settled(p, c), p # at
        PROVE  Settled(p, c)'
    <2>1. FullBlock(p)' /\ a'[p] = a[p]
      BY <1>3, <1>4 DEF Settled
    <2>2. QED
      BY <1>2, <1>4, <2>1, SettledKept
  <1>5. ASSUME NEW c \in Bucket, NEW p, Arriving(t, p, c)
        PROVE  Settled(p, c)'
    <2>1. p = at /\ c = me[t].dest
      BY <1>5 DEF Arriving
    <2>2. FullBlock(p)' /\ a'[p] = c
      BY <1>2, <2>1, PutDown
    <2>3. Thread' = Thread
      BY <1>2, SameShape
    <2>4. \A u \in Thread : pc'[u] = "read" => me'[u].at # p
      BY <1>2, <2>1, NoReader
    <2>5. QED
      BY <2>2, <2>3, <2>4 DEF Settled
  <1>6. PassedOK'
    <2>1. \A c, p : Passed(p, c)' <=> Passed(p, c)
      BY <1>2, SameShape DEF Passed
    <2>2. QED
      BY <1>2, <1>4, <1>5, <2>1, PassedStep DEF Progress, Writing
  <1>7. RoundsOK'
    BY <1>2, RoundQuiet DEF Progress
  <1>8. QED
    BY <1>6, <1>7 DEF Progress

LEMMA LookAtBlockProgress ==
    ASSUME PermInv, Progress, NEW t \in Thread, LookAtBlock(t)
    PROVE  Progress'
  <1> DEFINE at == me[t].at
  <1>1. Types /\ ThreadOK(t)
    BY DEF PermInv, Threads
  <1>2. /\ pc[t] = "look" /\ pc'[t] = "incWrite"
        /\ UNCHANGED <<input, bucketStart, ptr, overflow>>
        /\ \A u \in Thread \ {t} : pc'[u] = pc[u]
        /\ FullBlock(at) /\ a[at] \in Bucket
    BY <1>1 DEF LookAtBlock, Goto, Types, ThreadOK, FullBlock
  <1>3. /\ \/ a[at] = me[t].dest /\ a' = a
           \/ a' = WithBlock(at, Held(t))
        /\ \A u \in Thread \ {t} : me'[u] = me[u]
        /\ me'[t].bucket = me[t].bucket /\ me'[t].left = me[t].left
    <2>1. CASE a[at] = me[t].dest
      <3>1. me' = [me EXCEPT ![t].at = 0] /\ a' = a
        BY <2>1 DEF LookAtBlock
      <3>2. QED
        BY <1>1, <2>1, <3>1 DEF Types, Locals
    <2>2. CASE a[at] # me[t].dest
      <3>1. a' = WithBlock(at, Held(t))
            /\ me' = [me EXCEPT ![t].dest = a[at], ![t].current = 3 - me[t].current, ![t].at = 0]
        BY <2>2 DEF LookAtBlock
      <3>2. QED
        BY <1>1, <3>1 DEF Types, Locals
    <2>3. QED
      BY <2>1, <2>2
  <1>4. \A p : FullBlock(p) /\ p # at => FullBlock(p)' /\ a'[p] = a[p]
    <2>1. CASE a' = a
      BY <1>2, <1>3, <2>1, FullKept
    <2>2. CASE a' = WithBlock(at, Held(t))
      BY <1>2, <2>2, PutBlock
    <2>3. QED
      BY <1>3, <2>1, <2>2
  <1>5. ASSUME NEW c \in Bucket, NEW p, Settled(p, c), p # at
        PROVE  Settled(p, c)'
    <2>1. FullBlock(p)' /\ a'[p] = a[p]
      BY <1>4, <1>5 DEF Settled
    <2>2. QED
      BY <1>2, <1>3, <1>5, <2>1, SettledKept
  <1>6. ASSUME NEW c \in Bucket, NEW p, Arriving(t, p, c)
        PROVE  Settled(p, c)'
    <2>1. p = at /\ c = me[t].dest
      BY <1>6 DEF Arriving
    <2>2. FullBlock(p)' /\ a'[p] = c
      <3>1. CASE a[at] = me[t].dest /\ a' = a
        BY <1>2, <1>3, <2>1, <3>1, FullKept
      <3>2. CASE a' = WithBlock(at, Held(t))
        BY <1>2, <2>1, <3>2, PutDown
      <3>3. QED
        BY <1>3, <3>1, <3>2
    <2>3. Thread' = Thread
      BY <1>2, SameShape
    <2>4. \A u \in Thread : pc'[u] = "read" => me'[u].at # p
      BY <1>2, <1>3, <2>1, NoReader
    <2>5. QED
      BY <2>2, <2>3, <2>4 DEF Settled
  <1>7. PassedOK'
    <2>1. \A c, p : Passed(p, c)' <=> Passed(p, c)
      BY <1>2, SameShape DEF Passed
    <2>2. QED
      BY <1>2, <1>3, <1>5, <1>6, <2>1, PassedStep DEF Progress, Writing
  <1>8. RoundsOK'
    BY <1>2, <1>3, RoundQuiet DEF Progress
  <1>9. QED
    BY <1>7, <1>8 DEF Progress

(* A full block is not an empty one.                                       *)
LEMMA BlockNotEmpty == \A c : BlockOf(c) # <<>>
  <1> SUFFICES ASSUME NEW c, BlockOf(c) = <<>> PROVE FALSE
    OBVIOUS
  <1>1. 1 \in DOMAIN BlockOf(c)
    BY Sizes DEF BlockOf
  <1>2. 1 \notin DOMAIN <<>>
    OBVIOUS
  <1>3. QED
    BY <1>1, <1>2

LEMMA IncWriteProgress ==
    ASSUME PermInv, Progress, NEW t \in Thread, IncWrite(t)
    PROVE  Progress'
  <1> SUFFICES ASSUME NEW b, NEW r, NEW w, b = me[t].dest, r = ptr[b].r, w = ptr[b].w
               PROVE  Progress'
    OBVIOUS
  <1>1. Types /\ Shape /\ Pointers /\ BlockSize \in Nat /\ BlockSize > 0
    BY Sizes DEF PermInv
  <1>2. /\ pc[t] = "incWrite"
        /\ ptr' = [ptr EXCEPT ![b].w = @ + BlockSize]
        /\ UNCHANGED <<input, a, bucketStart, reading>>
        /\ IF w > r /\ w >= MaxOffset
           THEN overflow' = [overflow EXCEPT ![t] = Held(t)]
                /\ pc' = [pc EXCEPT ![t] = "pick"] /\ me' = me
           ELSE /\ me' = [me EXCEPT ![t].at = w]
                /\ pc' = [pc EXCEPT ![t] = IF w > r THEN "wait" ELSE "look"]
                /\ overflow' = overflow
    BY DEF IncWrite, Goto
  <1>3. b \in Bucket /\ Held(t) = BlockOf(b)
    BY <1>2, RoomAtWrite
  <1>4. Thread' = Thread /\ Bucket' = Bucket /\ MaxOffset' = MaxOffset
        /\ \A x, p : Within(p, x)' <=> Within(p, x)
    BY <1>2, SameShape
  <1>5. /\ \A u \in Thread \ {t} : pc'[u] = pc[u] /\ me'[u] = me[u]
        /\ me'[t].bucket = me[t].bucket /\ me'[t].left = me[t].left
        /\ pc'[t] \in {"pick", "wait", "look"}
    BY <1>1, <1>2 DEF Types, Locals
  <1>6. /\ \A x \in Bucket : ptr[x].w \in Int /\ ptr[x].r \in Int
        /\ \A x \in Bucket : ptr'[x].r = ptr[x].r
        /\ ptr'[b].w = w + BlockSize /\ \A x \in Bucket \ {b} : ptr'[x].w = ptr[x].w
        /\ r \in Int /\ w \in Int /\ IsBlock(w)
    BY <1>1, <1>2, <1>3 DEF Types, Pointers
  <1>7. \A x \in Bucket : /\ ptr'[x].w \in Int /\ ptr'[x].r \in Int
                          /\ ptr[x].w <= ptr'[x].w /\ ptr'[x].r <= ptr[x].r
    BY <1>1, <1>6
  <1>8. \A u \in Thread : overflow[u] # <<>> => overflow'[u] # <<>>
    <2>1. Held(t) # <<>> /\ DOMAIN overflow = Thread
      BY <1>1, <1>3, BlockNotEmpty DEF Types
    <2>2. QED
      BY <1>2, <2>1
  <1>9. CutOff(w)' \/ Arriving(t, w, b)'
    <2>1. CASE w > r /\ w >= MaxOffset
      <3>1. overflow'[t] # <<>>
        <4>1. overflow' = [overflow EXCEPT ![t] = BlockOf(b)] /\ DOMAIN overflow = Thread
          BY <1>1, <1>2, <1>3, <2>1 DEF Types
        <4>2. QED
          BY <4>1, BlockNotEmpty
      <3>2. QED
        BY <1>4, <2>1, <3>1 DEF CutOff
    <2>2. CASE ~(w > r /\ w >= MaxOffset)
      <3>1. me'[t].at = w /\ me'[t].dest = b
        BY <1>1, <1>2, <1>6, <2>2 DEF Types, Locals
      <3>2. pc'[t] \in {"wait", "look"}
        BY <1>1, <1>2, <2>2 DEF Types
      <3>3. QED
        BY <3>1, <3>2 DEF Arriving, Writing
    <2>3. QED
      BY <2>1, <2>2
  <1>10. ASSUME NEW c \in Bucket, NEW p, Passed(p, c)'
         PROVE  Passed(p, c) \/ CutOff(p)' \/ Arriving(t, p, c)'
    <2>1. Within(p, c) /\ p + BlockSize <= ptr'[c].w /\ IsBlock(p) /\ p \in Int
      BY <1>4, <1>10 DEF Passed, Within, IsBlock
    <2>2. CASE c # b
      BY <1>6, <2>1, <2>2 DEF Passed
    <2>3. CASE c = b
      <3>1. p <= w
        BY <1>1, <1>6, <2>1, <2>3
      <3>2. CASE p = w
        BY <1>9, <2>3, <3>2
      <3>3. CASE p < w
        <4>1. p + BlockSize <= w
          BY <1>6, <2>1, <3>3, BlocksApart
        <4>2. QED
          BY <2>1, <2>3, <4>1 DEF Passed
      <3>4. QED
        BY <1>6, <2>1, <3>1, <3>2, <3>3
    <2>4. QED
      BY <2>2, <2>3
  <1>11. PassedOK'
    <2>1. \A c, p : ~Arriving(t, p, c)
      BY <1>2 DEF Arriving, Writing
    <2>2. pc'[t] # "read"
      BY <1>5
    <2>3. QED
      BY <1>2, <1>5, <1>8, <1>10, <2>1, <2>2, PassedKept DEF Progress
  <1>12. RoundsOK'
    <2>1. pc'[t] # "noBlock" /\ pc[t] \notin {"permuted", "published"}
          /\ pc'[t] \notin {"permuted", "published"}
      BY <1>2, <1>5
    <2>2. QED
      BY <1>2, <1>5, <1>7, <2>1, RoundKept DEF Progress
  <1>13. QED
    BY <1>11, <1>12 DEF Progress

(* Every step of permuteBlocks keeps track of the blocks passed.           *)
LEMMA PermuteStepProgress ==
    ASSUME PermInv, Progress, NEW t \in Thread, PermuteStep(t)
    PROVE  Progress'
  <1>1. CASE DecRead(t)         BY <1>1, DecReadProgress
  <1>2. CASE ReadBlock(t)       BY <1>2, ReadBlockProgress
  <1>3. CASE NextBucket(t)      BY <1>3, NextBucketProgress
  <1>4. CASE IncWrite(t)        BY <1>4, IncWriteProgress
  <1>5. CASE WriteBlock(t)      BY <1>5, WriteBlockProgress
  <1>6. CASE LookAtBlock(t)     BY <1>6, LookAtBlockProgress
  <1>7. CASE StartRead(t) \/ StopRead(t) \/ WaitForReaders(t)
    BY <1>7, QuietProgress
  <1>8. QED
    BY <1>1, <1>2, <1>3, <1>4, <1>5, <1>6, <1>7 DEF PermuteStep

(* When all threads have gone round, every block has been written, each to *)
(* its bucket, and as many as the bucket had.                              *)
LEMMA AllWritten ==
    ASSUME PermInv, Progress, \A t \in Thread : pc[t] \in {"permuted", "published"},
           NEW c \in Bucket
    PROVE  /\ Taken(c) = ptr[c].w - AreaStart(c)
           /\ \A p : Passed(p, c) => (FullBlock(p) /\ a[p] = c) \/ CutOff(p)
  <1>1. Types /\ Shape
    BY DEF PermInv
  <1>2. 0 \in Thread
    BY <1>1 DEF Shape, Thread
  <1>3. ASSUME NEW b \in Bucket
        PROVE  Empty(b)
    <2>1. RoundOK(0) /\ me[0].left = 0
      BY <1>2 DEF Progress, RoundsOK, RoundOK
    <2>2. me[0].bucket \in Bucket
      BY <1>1, <1>2 DEF Types, Locals
    <2>3. Ahead(me[0].bucket, b) >= 0
      BY <1>1, <2>2 DEF Ahead, Bucket, Shape
    <2>4. Ahead(me[0].bucket, b) \in Int
      BY <1>1, <2>2 DEF Ahead, Bucket, Shape
    <2>5. QED
      BY <2>1, <2>3, <2>4 DEF RoundOK
  <1>4. Unread(c) = {}
    <2>1. \A b \in Bucket : ptr[b].w \in Int /\ ptr[b].r \in Int
      BY <1>1 DEF Types
    <2>2. \A b \in Bucket : \A p : ~Between(b, p)
      BY <1>3, <2>1 DEF Between, IsBlock, Empty
    <2>3. QED
      BY <2>2 DEF Unread
  <1>5. Carriers(c) = {}
    BY DEF Carriers, Carries
  <1>6. Left(c) = 0
    BY <1>4, <1>5, FS_EmptySet DEF Left
  <1>7. Taken(c) = ptr[c].w - AreaStart(c)
    <2>1. ptr[c].w \in Int /\ AreaStart(c) \in Int
      BY <1>1, Areas DEF Types
    <2>2. QED
      BY <1>6, <2>1, Sizes DEF Taken
  <1>8. ASSUME NEW p, Passed(p, c)
        PROVE  (FullBlock(p) /\ a[p] = c) \/ CutOff(p)
    <2>1. \A t \in Thread : ~Arriving(t, p, c)
      BY DEF Arriving, Writing
    <2>2. QED
      BY <1>8, <2>1 DEF Progress, PassedOK, Settled
  <1>9. QED
    BY <1>7, <1>8

(* A step that changes none of this keeps it.                              *)
LEMMA ProgressKept ==
    ASSUME Progress, UNCHANGED <<input, a, bucketStart, ptr, overflow, me, pc>>
    PROVE  Progress'
  <1>1. /\ Thread' = Thread /\ Bucket' = Bucket /\ N' = N /\ NumBuckets' = NumBuckets
        /\ MaxOffset' = MaxOffset /\ \A x, p : Within(p, x)' <=> Within(p, x)
    BY SameShape
  <1>2. \A p : FullBlock(p)' <=> FullBlock(p)
    BY <1>1 DEF FullBlock
  <1>3. \A p, c : /\ Settled(p, c)' <=> Settled(p, c)
                  /\ Passed(p, c)' <=> Passed(p, c)
                  /\ CutOff(p)' <=> CutOff(p)
    BY <1>1, <1>2 DEF Settled, Passed, CutOff
  <1>4. \A t, p, c : Arriving(t, p, c)' <=> Arriving(t, p, c)
    BY DEF Arriving
  <1>5. PassedOK'
    BY <1>1, <1>3, <1>4 DEF Progress, PassedOK
  <1>6. \A t : RoundOK(t)' <=> RoundOK(t)
    BY <1>1 DEF RoundOK, Empty, Ahead
  <1>7. RoundsOK'
    BY <1>1, <1>6 DEF Progress, RoundsOK
  <1>8. QED
    BY <1>5, <1>7 DEF Progress

-----------------------------------------------------------------------------
(* Counting places                                                         *)

(* How many places of S lie before p.                                      *)
Position(S, p) == Cardinality({q \in S : q < p})

(* Places in order have increasing positions below the number of places.   *)
LEMMA PositionGrows ==
    ASSUME NEW S \in SUBSET Int, IsFiniteSet(S)
    PROVE  /\ Cardinality(S) \in Nat
           /\ \A p \in Int : Position(S, p) \in 0 .. Cardinality(S)
           /\ \A p \in S : Position(S, p) \in 0 .. Cardinality(S) - 1
           /\ \A p \in S, r \in S : p < r => Position(S, p) < Position(S, r)
           /\ \A p \in Int, r \in Int : p <= r => Position(S, p) <= Position(S, r)
  <1>1. Cardinality(S) \in Nat
    BY FS_CardinalityType
  <1>2. ASSUME NEW A \in SUBSET S, NEW B \in SUBSET S, A \subseteq B
        PROVE  /\ Cardinality(A) \in Nat /\ Cardinality(B) \in Nat
               /\ Cardinality(A) <= Cardinality(B) /\ Cardinality(B) <= Cardinality(S)
               /\ A # B => Cardinality(A) < Cardinality(B)
    <2>1. IsFiniteSet(A) /\ IsFiniteSet(B) /\ Cardinality(B) <= Cardinality(S)
      BY FS_Subset
    <2>2. Cardinality(A) \in Nat /\ Cardinality(B) \in Nat
      BY <2>1, FS_CardinalityType
    <2>3. Cardinality(A) <= Cardinality(B) /\ (Cardinality(B) = Cardinality(A) => B = A)
      BY <1>2, <2>1, FS_Subset
    <2>4. QED
      BY <2>1, <2>2, <2>3
  <1> DEFINE Less(p) == {q \in S : q < p}
  <1>3. \A p : Less(p) \in SUBSET S
    OBVIOUS
  <1>4. \A p \in Int : Cardinality(Less(p)) \in 0 .. Cardinality(S)
    BY <1>1, <1>2, <1>3
  <1>5. ASSUME NEW p \in S PROVE Cardinality(Less(p)) \in 0 .. Cardinality(S) - 1
    <2>1. S \in SUBSET S /\ Less(p) \subseteq S /\ Less(p) # S
      BY <1>5
    <2>2. Cardinality(Less(p)) \in Nat /\ Cardinality(Less(p)) < Cardinality(S)
      BY <1>2, <1>3, <2>1
    <2>3. QED
      BY <1>1, <2>2
  <1>6. ASSUME NEW p \in S, NEW r \in S, p < r PROVE Cardinality(Less(p)) < Cardinality(Less(r))
    <2>1. Less(p) \subseteq Less(r) /\ p \in Less(r) /\ p \notin Less(p)
      <3>1. p \in Int /\ r \in Int /\ \A q \in S : q \in Int
        OBVIOUS
      <3>2. \A q \in S : q < p => q < r
        BY <1>6, <3>1
      <3>3. ~(p < p)
        BY <3>1
      <3>4. QED
        BY <1>6, <3>2, <3>3
    <2>2. Less(p) # Less(r) /\ Less(p) \in SUBSET S /\ Less(r) \in SUBSET S
      BY <1>3, <2>1
    <2> HIDE DEF Less
    <2>3. QED
      BY <1>2, <2>1, <2>2
  <1>7. ASSUME NEW p \in Int, NEW r \in Int, p <= r
        PROVE  Cardinality(Less(p)) <= Cardinality(Less(r))
    <2>1. Less(p) \subseteq Less(r)
      <3>1. \A q \in S : q \in Int
        OBVIOUS
      <3>2. \A q \in S : q < p => q < r
        BY <1>7, <3>1
      <3>3. QED
        BY <3>2
    <2>2. Less(p) \in SUBSET S /\ Less(r) \in SUBSET S
      BY <1>3
    <2> HIDE DEF Less
    <2>3. QED
      BY <1>2, <2>1, <2>2
  <1>8. QED
    BY <1>1, <1>4, <1>5, <1>6, <1>7 DEF Position

(* Every position below the number of places is that of one place.         *)
LEMMA PositionOnto ==
    ASSUME NEW S \in SUBSET Int, IsFiniteSet(S), NEW k \in Int, 0 <= k, k < Cardinality(S)
    PROVE  \E p \in S : Position(S, p) = k
  <1> DEFINE I == 0 .. Cardinality(S) - 1
             f == [p \in S |-> Position(S, p)]
  <1>1. Cardinality(S) \in Nat /\ Cardinality(S) - 1 \in Int
    BY PositionGrows
  <1>2. IsFiniteSet(I) /\ Cardinality(I) = Cardinality(S)
    BY <1>1, FS_Interval
  <1>3. f \in [S -> I]
    BY PositionGrows
  <1>4. \A p \in S, r \in S : f[p] = f[r] => p = r
    <2> SUFFICES ASSUME NEW p \in S, NEW r \in S, p # r PROVE f[p] # f[r]
      OBVIOUS
    <2>1. p < r \/ r < p
      OBVIOUS
    <2>2. f[p] \in Int /\ f[r] \in Int
      BY <1>3
    <2>3. QED
      BY <2>1, <2>2, PositionGrows
  <1>5. f \in Injection(S, I)
    BY <1>3, <1>4 DEF Injection, IsInjective
  <1>6. f \in Surjection(S, I)
    <2> HIDE DEF f, I
    <2> QED BY <1>2, <1>5, FS_Injection
  <1>7. k \in I
    BY <1>1
  <1>8. QED
    BY <1>6, <1>7 DEF Surjection

(* A finite set of places has a last one and a first one.                  *)
LEMMA LastPlace ==
    ASSUME NEW S \in SUBSET Int, IsFiniteSet(S), S # {}
    PROVE  /\ \E m \in S : \A q \in S : q <= m
           /\ \E m \in S : \A q \in S : m <= q
  <1>1. Cardinality(S) \in Nat /\ Cardinality(S) # 0
    BY FS_CardinalityType, FS_EmptySet
  <1>2. PICK m \in S : Position(S, m) = Cardinality(S) - 1
    BY <1>1, PositionOnto
  <1>3. PICK n \in S : Position(S, n) = 0
    BY <1>1, PositionOnto
  <1>4. ASSUME NEW q \in S PROVE q <= m /\ n <= q
    <2>1. Position(S, q) \in 0 .. Cardinality(S) - 1
      BY PositionGrows
    <2>2. ~(m < q) /\ ~(q < n)
      BY <1>1, <1>2, <1>3, <2>1, PositionGrows
    <2>3. QED
      BY <2>2
  <1>5. QED
    BY <1>4

(* Max and Min of the community modules.                                   *)
LEMMA MaxMin ==
    ASSUME NEW S \in SUBSET Int, IsFiniteSet(S), S # {}
    PROVE  /\ Max(S) \in S /\ \A q \in S : q <= Max(S)
           /\ Min(S) \in S /\ \A q \in S : Min(S) <= q
  <1>1. PICK m \in S : \A q \in S : m >= q
    BY LastPlace
  <1>2. PICK n \in S : \A q \in S : n <= q
    BY LastPlace
  <1>3. Max(S) \in S /\ \A q \in S : Max(S) >= q
    BY <1>1 DEF Max
  <1>4. Min(S) \in S /\ \A q \in S : Min(S) <= q
    BY <1>2 DEF Min
  <1>5. QED
    BY <1>3, <1>4

(* Of two numbers they are what the code computes with std::max and        *)
(* std::min.                                                               *)
LEMMA MaxMinOfTwo ==
    ASSUME NEW x \in Int, NEW y \in Int
    PROVE  /\ Max({x, y}) = IF x >= y THEN x ELSE y
           /\ Min({x, y}) = IF x <= y THEN x ELSE y
  BY DEF Max, Min

(* Cardinalities of sets within a finite set.                              *)
LEMMA Cards ==
    ASSUME NEW S, IsFiniteSet(S), NEW A \in SUBSET S, NEW B \in SUBSET S
    PROVE  /\ IsFiniteSet(A) /\ Cardinality(A) \in Nat
           /\ Cardinality(A) = 0 <=> A = {}
           /\ A \subseteq B => Cardinality(A) <= Cardinality(B)
           /\ A \subseteq B /\ A # B => Cardinality(A) < Cardinality(B)
           /\ A \cap B = {} => Cardinality(A \cup B) = Cardinality(A) + Cardinality(B)
  <1>1. IsFiniteSet(A) /\ IsFiniteSet(B)
    BY FS_Subset
  <1>2. Cardinality(A) \in Nat /\ Cardinality(B) \in Nat
    BY <1>1, FS_CardinalityType
  <1>3. Cardinality(A) = 0 <=> A = {}
    BY <1>1, FS_EmptySet
  <1>4. A \subseteq B => Cardinality(A) <= Cardinality(B) /\ (Cardinality(B) = Cardinality(A) => B = A)
    BY <1>1, FS_Subset
  <1>5. A \cap B = {} => Cardinality(A \cup B) = Cardinality(A) + Cardinality(B)
    BY <1>1, <1>2, FS_Union, FS_EmptySet
  <1>6. QED
    BY <1>1, <1>2, <1>3, <1>4, <1>5

-----------------------------------------------------------------------------
(* Division                                                                *)

(* Quotients bracket the number divided.                                   *)
LEMMA Division ==
    ASSUME NEW x \in Nat, NEW d \in Nat \ {0}
    PROVE  x \div d \in Nat /\ d * (x \div d) <= x /\ x < d * (x \div d) + d
  OBVIOUS

(* A number so bracketed is the quotient.                                  *)
LEMMA DivisionIs ==
    ASSUME NEW x \in Int, NEW d \in Nat \ {0}, NEW y \in Int, d * y <= x, x < d * y + d
    PROVE  x \div d = y
  <1>1. x \div d \in Int /\ d * (x \div d) <= x /\ x < d * (x \div d) + d
    OBVIOUS
  <1> DEFINE z == x \div d
  <1>2. z \in Int /\ d * z <= x /\ x < d * z + d
    BY <1>1
  <1> HIDE DEF z
  <1>3. ~(z < y)
    <2> SUFFICES ASSUME z < y PROVE FALSE
      OBVIOUS
    <2>1. d * (z + 1) <= d * y /\ d * (z + 1) = d * z + d /\ d * z \in Int /\ d * y \in Int
      BY <1>2
    <2>2. QED
      BY <1>2, <2>1
  <1>4. ~(y < z)
    <2> SUFFICES ASSUME y < z PROVE FALSE
      OBVIOUS
    <2>1. d * (y + 1) <= d * z /\ d * (y + 1) = d * y + d /\ d * z \in Int /\ d * y \in Int
      BY <1>2
    <2>2. QED
      BY <1>2, <2>1
  <1>5. QED
    BY <1>2, <1>3, <1>4 DEF z

(* Products keep the order of their factors.                               *)
LEMMA Scaled ==
    ASSUME NEW c \in Nat, NEW x \in Int, NEW y \in Int
    PROVE  c * x \in Int /\ c * y \in Int /\ (x <= y => c * x <= c * y)
           /\ (c > 0 /\ c * x <= c * y => x <= y) /\ (c > 0 /\ c * x < c * y => x < y)
  OBVIOUS

-----------------------------------------------------------------------------
(* Counting in blocks                                                      *)

(* A one-to-one function bounds the cardinality of its domain.             *)
LEMMA Injected ==
    ASSUME NEW S, NEW U, IsFiniteSet(U), NEW f \in [S -> U], \A x, y \in S : f[x] = f[y] => x = y
    PROVE  /\ IsFiniteSet(S) /\ Cardinality(S) \in Nat /\ Cardinality(U) \in Nat
           /\ Cardinality(S) <= Cardinality(U)
  <1>1. f \in Injection(S, U)
    BY DEF Injection, IsInjective
  <1>2. IsFiniteSet(S) /\ Cardinality(S) <= Cardinality(U)
    BY <1>1, FS_Injection
  <1>3. QED
    BY <1>2, FS_CardinalityType

(* The first place of the block of p.                                      *)
BlockOfPos(p) == p - (p % BlockSize)

(* A place lies in the block that begins at the border next below it.      *)
LEMMA InBlock ==
    ASSUME NEW p \in Int
    PROVE  /\ IsBlock(BlockOfPos(p)) /\ p % BlockSize \in 0 .. BlockSize - 1
           /\ BlockOfPos(p) <= p /\ p < BlockOfPos(p) + BlockSize
           /\ BlockOfPos(p) \in Int
           /\ (p \in Nat => BlockOfPos(p) \in Nat)
           /\ (IsBlock(p) => BlockOfPos(p) = p)
           /\ \A q \in Int : IsBlock(q) /\ q <= p => q <= BlockOfPos(p)
           /\ \A q \in Int : IsBlock(q) /\ p < q => BlockOfPos(p) + BlockSize <= q
  <1> DEFINE j == p \div BlockSize
             e == BlockOfPos(p)
  <1>1. /\ BlockSize \in Nat /\ BlockSize > 0
    BY Sizes
  <1>2. /\ j \in Int /\ p = BlockSize * j + (p % BlockSize) /\ p % BlockSize \in 0 .. BlockSize - 1
    BY <1>1
  <1>3. e = BlockSize * j /\ e \in Int
    BY <1>1, <1>2 DEF BlockOfPos
  <1>4. IsBlock(e) /\ e <= p /\ p < e + BlockSize
    BY <1>1, <1>2, <1>3, IsMultiple DEF IsBlock
  <1>5. p \in Nat => e \in Nat
    <2>1. SUFFICES ASSUME p \in Nat, e < 0 PROVE FALSE
      BY <1>3
    <2>2. e + BlockSize <= 0
      <3>1. IsBlock(0)
        BY <1>1 DEF IsBlock
      <3>2. QED
        BY <1>4, <2>1, <3>1, BlocksApart
    <2>3. QED
      BY <1>1, <1>2, <1>3, <1>4, <2>1, <2>2
  <1>6. IsBlock(p) => e = p
    BY <1>1, <1>3 DEF IsBlock, BlockOfPos
  <1>7. ASSUME NEW q \in Int, IsBlock(q), q <= p PROVE q <= e
    <2>1. SUFFICES ASSUME e < q PROVE FALSE
      BY <1>3
    <2>2. e + BlockSize <= q
      BY <1>4, <1>7, <2>1, BlocksApart
    <2>3. QED
      BY <1>1, <1>3, <1>4, <1>7, <2>2
  <1>8. ASSUME NEW q \in Int, IsBlock(q), p < q PROVE e + BlockSize <= q
    <2>1. e < q
      BY <1>3, <1>4, <1>8
    <2>2. QED
      BY <1>4, <1>8, <2>1, BlocksApart
  <1> HIDE DEF j
  <1>9. QED
    BY <1>2, <1>3, <1>4, <1>5, <1>6, <1>7, <1>8

(* The size of an interval that begins with 0.                             *)
LEMMA Interval ==
    ASSUME NEW n \in Nat
    PROVE  IsFiniteSet(0 .. n - 1) /\ Cardinality(0 .. n - 1) = n
  <1>1. 0 \in Int /\ n - 1 \in Int
    OBVIOUS
  <1>2. IsFiniteSet(0 .. n - 1)
        /\ Cardinality(0 .. n - 1) = IF 0 > n - 1 THEN 0 ELSE (n - 1) - 0 + 1
    BY <1>1, FS_Interval
  <1>3. QED
    BY <1>2

(* The quotient and the remainder tell a number from others.               *)
LEMMA SameDivision ==
    ASSUME NEW x \in Int, NEW y \in Int, x \div BlockSize = y \div BlockSize,
           x % BlockSize = y % BlockSize
    PROVE  x = y
  <1>1. /\ x = BlockSize * (x \div BlockSize) + (x % BlockSize)
        /\ y = BlockSize * (y \div BlockSize) + (y % BlockSize)
    BY Sizes
  <1>2. QED
    BY <1>1

(* Dividing the places of n blocks by the size of a block.                 *)
LEMMA DivisionBound ==
    ASSUME NEW n \in Nat, NEW i \in 0 .. BlockSize * n - 1
    PROVE  /\ i \in Nat /\ i \div BlockSize \in 0 .. n - 1 /\ i % BlockSize \in 0 .. BlockSize - 1
           /\ i = BlockSize * (i \div BlockSize) + (i % BlockSize)
  <1>1. BlockSize \in Nat /\ BlockSize > 0 /\ BlockSize * n \in Nat
    BY Sizes
  <1>2. i \in Nat /\ i < BlockSize * n
    BY <1>1
  <1>3. /\ i \div BlockSize \in Nat /\ i % BlockSize \in 0 .. BlockSize - 1
        /\ i = BlockSize * (i \div BlockSize) + (i % BlockSize)
    BY <1>1, <1>2
  <1>4. BlockSize * (i \div BlockSize) < BlockSize * n
    <2>1. BlockSize * (i \div BlockSize) \in Int
      BY <1>1, <1>3
    <2>2. QED
      BY <1>1, <1>2, <1>3, <2>1
  <1>5. i \div BlockSize < n
    BY <1>1, <1>3, <1>4, Scaled
  <1>6. QED
    BY <1>2, <1>3, <1>5

(* A set of places that is made of blocks has BlockSize places for each.   *)
LEMMA Blockwise ==
    ASSUME NEW S \in SUBSET Int, IsFiniteSet(S), \A p \in S : Places(BlockOfPos(p)) \subseteq S
    PROVE  Cardinality(S) % BlockSize = 0
  <1> DEFINE D == {p \in S : p % BlockSize = 0}
             d == Cardinality(D)
             I == 0 .. BlockSize * d - 1
  <1>1. BlockSize \in Nat /\ BlockSize > 0
    BY Sizes
  <1>2. D \in SUBSET Int /\ IsFiniteSet(D) /\ d \in Nat /\ Cardinality(S) \in Nat
    BY FS_Subset, FS_CardinalityType
  <1>3. IsFiniteSet(I) /\ Cardinality(I) = BlockSize * d /\ BlockSize * d \in Nat
    <2>1. BlockSize * d \in Nat
      BY <1>1, <1>2
    <2> HIDE DEF d
    <2>2. QED
      BY <2>1, Interval
  <1>4. \A p \in S : BlockOfPos(p) \in D
    <2> SUFFICES ASSUME NEW p \in S PROVE BlockOfPos(p) \in D
      OBVIOUS
    <2>1. IsBlock(BlockOfPos(p)) /\ BlockOfPos(p) \in Int
      BY InBlock
    <2>2. BlockOfPos(p) \in Places(BlockOfPos(p))
      BY <1>1, <2>1 DEF Places
    <2>3. QED
      BY <2>1, <2>2 DEF IsBlock
  <1> HIDE DEF D, d
  <1>5. Cardinality(S) <= Cardinality(I)
    <2> DEFINE g == [p \in S |-> BlockSize * Position(D, BlockOfPos(p)) + (p % BlockSize)]
    <2>1. ASSUME NEW p \in S
          PROVE  /\ g[p] \in I /\ g[p] \div BlockSize = Position(D, BlockOfPos(p))
                 /\ g[p] % BlockSize = p % BlockSize
      <3> DEFINE k == Position(D, BlockOfPos(p))
                 r == p % BlockSize
      <3>1. k \in 0 .. d - 1 /\ r \in 0 .. BlockSize - 1 /\ g[p] = BlockSize * k + r
        BY <1>2, <1>4, PositionGrows, InBlock DEF d
      <3> HIDE DEF k, r, g
      <3>2. BlockSize * k \in Nat /\ BlockSize * (k + 1) <= BlockSize * d
            /\ BlockSize * (k + 1) = BlockSize * k + BlockSize
        BY <1>1, <1>2, <3>1
      <3>3. g[p] \in I
        BY <1>1, <1>3, <3>1, <3>2
      <3>4. g[p] \div BlockSize = k
        BY <1>1, <3>1, <3>2, DivisionIs
      <3>5. g[p] = BlockSize * (g[p] \div BlockSize) + (g[p] % BlockSize)
            /\ g[p] % BlockSize \in Int
        <4>1. g[p] \in Int
          BY <1>1, <3>1, <3>2
        <4>2. QED
          BY <1>1, <4>1
      <3>6. g[p] % BlockSize = r
        BY <1>1, <3>1, <3>2, <3>4, <3>5
      <3>7. QED
        BY <3>3, <3>4, <3>6 DEF k, r
    <2>2. g \in [S -> I]
      BY <2>1
    <2>3. ASSUME NEW p \in S, NEW q \in S, g[p] = g[q] PROVE p = q
      <3>1. Position(D, BlockOfPos(p)) = Position(D, BlockOfPos(q)) /\ p % BlockSize = q % BlockSize
        BY <2>1, <2>3
      <3>2. BlockOfPos(p) \in D /\ BlockOfPos(q) \in D /\ BlockOfPos(p) \in Int /\ BlockOfPos(q) \in Int
        BY <1>2, <1>4
      <3>3. BlockOfPos(p) = BlockOfPos(q)
        <4>1. /\ BlockOfPos(p) < BlockOfPos(q) =>
                    Position(D, BlockOfPos(p)) < Position(D, BlockOfPos(q))
              /\ BlockOfPos(q) < BlockOfPos(p) =>
                    Position(D, BlockOfPos(q)) < Position(D, BlockOfPos(p))
              /\ Position(D, BlockOfPos(p)) \in Int
          BY <1>2, <3>2, PositionGrows
        <4>2. QED
          BY <3>1, <3>2, <4>1
      <3>4. p % BlockSize \in Int /\ p \in Int /\ q \in Int
        BY <1>1
      <3>5. QED
        BY <3>1, <3>3, <3>4 DEF BlockOfPos
    <2> HIDE DEF g, I
    <2>4. QED
      BY <1>3, <2>2, <2>3, Injected
  <1>6. Cardinality(I) <= Cardinality(S)
    <2> DEFINE E(k) == CHOOSE e \in D : Position(D, e) = k
               h == [i \in I |-> E(i \div BlockSize) + (i % BlockSize)]
    <2>1. ASSUME NEW k \in 0 .. d - 1 PROVE E(k) \in D /\ Position(D, E(k)) = k
      <3>1. \E e \in D : Position(D, e) = k
        BY <1>2, PositionOnto DEF d
      <3>2. QED
        BY <3>1
    <2> HIDE DEF E
    <2>2. ASSUME NEW i \in I
          PROVE  /\ i \in Int /\ E(i \div BlockSize) \in D /\ h[i] \in S
                 /\ Position(D, E(i \div BlockSize)) = i \div BlockSize
                 /\ BlockOfPos(h[i]) = E(i \div BlockSize) /\ h[i] % BlockSize = i % BlockSize
      <3> DEFINE e == E(i \div BlockSize)
                 r == i % BlockSize
      <3>1. i \div BlockSize \in 0 .. d - 1 /\ r \in 0 .. BlockSize - 1 /\ i \in Int
        BY <1>2, DivisionBound
      <3>2. e \in D /\ Position(D, e) = i \div BlockSize /\ h[i] = e + r
        BY <2>1, <3>1
      <3>3. e \in S /\ e \in Int /\ IsBlock(e)
        BY <3>2 DEF D, IsBlock
      <3> HIDE DEF e, r, h
      <3>4. h[i] \in Places(e)
        BY <1>1, <3>1, <3>2, <3>3 DEF Places
      <3>5. BlockOfPos(e) = e
        BY <3>3, InBlock
      <3>6. h[i] \in S /\ h[i] \in Int
        BY <3>3, <3>4, <3>5
      <3>7. BlockOfPos(h[i]) = e
        <4> DEFINE x == BlockOfPos(h[i])
        <4>1. x \in Int /\ IsBlock(x) /\ x <= h[i] /\ h[i] < x + BlockSize /\ e <= x
          BY <1>1, <3>1, <3>2, <3>3, <3>6, InBlock
        <4> HIDE DEF x
        <4>2. ~(e < x)
          <5>1. SUFFICES ASSUME e < x PROVE FALSE
            OBVIOUS
          <5>2. e + BlockSize <= x
            BY <3>3, <4>1, <5>1, BlocksApart
          <5>3. QED
            BY <1>1, <3>1, <3>2, <3>3, <4>1, <5>2
        <4>3. x = e
          BY <3>3, <4>1, <4>2
        <4>4. QED
          BY <4>3 DEF x
      <3>8. h[i] % BlockSize = r
        <4>1. h[i] % BlockSize \in Int /\ h[i] - (h[i] % BlockSize) = e
          BY <1>1, <3>6, <3>7 DEF BlockOfPos
        <4>2. QED
          BY <3>1, <3>2, <3>3, <3>6, <4>1
      <3>9. QED
        BY <3>1, <3>2, <3>6, <3>7, <3>8 DEF e, r
    <2>3. h \in [I -> S]
      BY <2>2
    <2>4. ASSUME NEW i \in I, NEW j \in I, h[i] = h[j] PROVE i = j
      <3>1. i \div BlockSize = j \div BlockSize /\ i % BlockSize = j % BlockSize
            /\ i \in Int /\ j \in Int
        BY <2>2, <2>4
      <3>2. QED
        BY <3>1, SameDivision
    <2> HIDE DEF h, I
    <2>5. QED
      BY <1>3, <2>3, <2>4, Injected
  <1>7. Cardinality(S) = BlockSize * d
    BY <1>2, <1>3, <1>5, <1>6
  <1>8. QED
    BY <1>2, <1>7, IsMultiple

(* Places of M with the value of p under f, and how many of them are       *)
(* before p.                                                               *)
Alike(M, f, p) == {q \in M : f[q] = f[p]}
Before(M, f, p) == Position(Alike(M, f, p), p)

(* Where only every BlockSize-th place of a value counts, and not the      *)
(* first, the places that count stand for fewer places than there are.     *)
LEMMA FlushRoom ==
    ASSUME NEW M \in SUBSET Int, IsFiniteSet(M), NEW f, NEW F \in SUBSET M, F # {},
           \A p \in F : Before(M, f, p) > 0 /\ Before(M, f, p) % BlockSize = 0
    PROVE  BlockSize * Cardinality(F) < Cardinality(M)
  <1> DEFINE n == Cardinality(F)
             I == 0 .. BlockSize * n - 1
             B(p) == Before(M, f, p)
  <1>1. BlockSize \in Nat /\ BlockSize > 0
    BY Sizes
  <1>2. F \in SUBSET Int /\ IsFiniteSet(F) /\ n \in Nat
    BY FS_Subset, FS_CardinalityType
  <1>3. PICK m \in F : \A q \in F : q <= m
    BY <1>2, LastPlace
  <1> DEFINE W == M \ {m}
  <1>4. IsFiniteSet(W) /\ Cardinality(W) = Cardinality(M) - 1 /\ Cardinality(M) \in Nat
    BY <1>3, FS_RemoveElement, FS_CardinalityType
  <1>5. ASSUME NEW p \in M
        PROVE  /\ Alike(M, f, p) \in SUBSET Int /\ IsFiniteSet(Alike(M, f, p)) /\ p \in Alike(M, f, p)
               /\ B(p) \in 0 .. Cardinality(Alike(M, f, p)) - 1 /\ B(p) \in Int
               /\ \A q \in M : f[q] = f[p] => Alike(M, f, q) = Alike(M, f, p)
               /\ \A q \in M : f[q] = f[p] /\ p < q => B(p) < B(q)
    <2>1. Alike(M, f, p) \in SUBSET Int /\ IsFiniteSet(Alike(M, f, p)) /\ p \in Alike(M, f, p)
      BY FS_Subset DEF Alike
    <2>2. B(p) \in 0 .. Cardinality(Alike(M, f, p)) - 1 /\ Cardinality(Alike(M, f, p)) \in Nat
      BY <2>1, PositionGrows DEF Before
    <2>3. \A q \in M : f[q] = f[p] => Alike(M, f, q) = Alike(M, f, p)
      BY DEF Alike
    <2>4. ASSUME NEW q \in M, f[q] = f[p], p < q PROVE B(p) < B(q)
      <3>1. q \in Alike(M, f, p) /\ Alike(M, f, q) = Alike(M, f, p)
        BY <2>3, <2>4 DEF Alike
      <3>2. QED
        BY <2>1, <2>4, <3>1, PositionGrows DEF Before
    <2>5. QED
      BY <2>1, <2>2, <2>3, <2>4
  <1>6. ASSUME NEW p \in F, NEW k \in 0 .. BlockSize - 1
        PROVE  \E q \in W : f[q] = f[p] /\ B(q) = B(p) - k - 1
    <2>1. p \in M /\ B(p) \in Int /\ IsBlock(B(p)) /\ 0 < B(p) /\ IsBlock(0)
      BY <1>1, <1>5 DEF IsBlock
    <2>2. B(p) >= BlockSize
      BY <1>1, <2>1, BlocksApart
    <2>3. B(p) - k - 1 \in Int /\ 0 <= B(p) - k - 1 /\ B(p) - k - 1 < Cardinality(Alike(M, f, p))
      <3>1. B(p) < Cardinality(Alike(M, f, p)) /\ Cardinality(Alike(M, f, p)) \in Nat
        <4>1. B(p) \in 0 .. Cardinality(Alike(M, f, p)) - 1 /\ IsFiniteSet(Alike(M, f, p))
          BY <1>5, <2>1
        <4>2. Cardinality(Alike(M, f, p)) \in Nat
          BY <4>1, FS_CardinalityType
        <4>3. QED
          BY <2>1, <4>1, <4>2
      <3>2. k \in Int /\ 0 <= k /\ k < BlockSize
        BY <1>1
      <3>3. QED
        BY <1>1, <2>1, <2>2, <3>1, <3>2
    <2>4. PICK q \in Alike(M, f, p) : Position(Alike(M, f, p), q) = B(p) - k - 1
      BY <1>5, <2>1, <2>3, PositionOnto
    <2>5. q \in M /\ f[q] = f[p] /\ B(q) = B(p) - k - 1
      BY <1>5, <2>1, <2>4 DEF Alike, Before
    <2>6. q # m
      <3>1. q < p
        <4>1. q \in Int /\ p \in Int
          BY <2>1, <2>5
        <4>2. B(q) < B(p)
          BY <2>1, <2>5
        <4>3. q # p
          BY <2>1, <4>2
        <4>4. ~(p < q)
          BY <1>5, <2>1, <2>5, <4>2
        <4>5. QED
          BY <4>1, <4>3, <4>4
      <3>2. p <= m /\ m \in Int /\ p \in Int /\ q \in Int
        BY <1>3, <2>1, <2>5
      <3>3. QED
        BY <3>1, <3>2
    <2>7. QED
      BY <2>5, <2>6
  <1> DEFINE P(i) == CHOOSE p \in F : Position(F, p) = i \div BlockSize
             h == [i \in I |-> CHOOSE q \in W : f[q] = f[P(i)] /\ B(q) = B(P(i)) - (i % BlockSize) - 1]
  <1>7. ASSUME NEW i \in I
        PROVE  /\ P(i) \in F /\ Position(F, P(i)) = i \div BlockSize
               /\ i % BlockSize \in 0 .. BlockSize - 1 /\ i \in Int
               /\ h[i] \in W /\ f[h[i]] = f[P(i)] /\ B(h[i]) = B(P(i)) - (i % BlockSize) - 1
    <2>1. i \div BlockSize \in 0 .. n - 1 /\ i % BlockSize \in 0 .. BlockSize - 1 /\ i \in Int
      BY <1>2, DivisionBound
    <2>2. \E p \in F : Position(F, p) = i \div BlockSize
      BY <1>2, <2>1, PositionOnto
    <2>3. P(i) \in F /\ Position(F, P(i)) = i \div BlockSize
      BY <2>2
    <2> HIDE DEF P, W, B
    <2>4. \E q \in W : f[q] = f[P(i)] /\ B(q) = B(P(i)) - (i % BlockSize) - 1
      BY <1>6, <2>1, <2>3
    <2>5. QED
      BY <2>1, <2>3, <2>4
  <1>8. h \in [I -> W]
    BY <1>7
  <1> HIDE DEF h, P, B
  <1>9. ASSUME NEW i \in I, NEW j \in I, h[i] = h[j] PROVE i = j
    <2> DEFINE p == P(i)
               r == P(j)
               k == i % BlockSize
               l == j % BlockSize
    <2>1. /\ p \in M /\ r \in M /\ f[p] = f[r] /\ B(p) - k - 1 = B(r) - l - 1
          /\ k \in 0 .. BlockSize - 1 /\ l \in 0 .. BlockSize - 1
          /\ B(p) \in Int /\ B(r) \in Int /\ IsBlock(B(p)) /\ IsBlock(B(r))
      <3>1. p \in M /\ r \in M /\ p \in F /\ r \in F
        BY <1>7
      <3>2. f[p] = f[r] /\ B(p) - k - 1 = B(r) - l - 1
            /\ k \in 0 .. BlockSize - 1 /\ l \in 0 .. BlockSize - 1
        BY <1>7, <1>9
      <3>3. B(p) \in Int /\ B(r) \in Int
        BY <1>5, <3>1
      <3>4. IsBlock(B(p)) /\ IsBlock(B(r))
        BY <3>1, <3>3 DEF IsBlock, B
      <3>5. QED
        BY <3>1, <3>2, <3>3, <3>4
    <2>2. B(p) = B(r)
      <3>1. ~(B(p) < B(r)) /\ ~(B(r) < B(p))
        <4>1. B(p) < B(r) => B(p) + BlockSize <= B(r)
          BY <2>1, BlocksApart
        <4>2. B(r) < B(p) => B(r) + BlockSize <= B(p)
          BY <2>1, BlocksApart
        <4>3. QED
          BY <1>1, <2>1, <4>1, <4>2
      <3>2. QED
        BY <2>1, <3>1
    <2>3. k = l
      BY <1>1, <2>1, <2>2
    <2>4. p = r
      <3>1. ~(p < r) /\ ~(r < p)
        <4>1. (p < r => B(p) < B(r)) /\ (r < p => B(r) < B(p))
          BY <1>5, <2>1
        <4>2. QED
          BY <2>1, <2>2, <4>1
      <3>2. p \in Int /\ r \in Int
        BY <2>1
      <3>3. QED
        BY <3>1, <3>2
    <2>5. i \div BlockSize = j \div BlockSize /\ i \in Int /\ j \in Int
      BY <1>7, <2>4
    <2>6. QED
      BY <2>3, <2>5, SameDivision
  <1>10. BlockSize * n \in Nat /\ IsFiniteSet(I) /\ Cardinality(I) = BlockSize * n
    <2>1. BlockSize * n \in Nat
      BY <1>1, <1>2
    <2> HIDE DEF n
    <2>2. QED
      BY <2>1, Interval
  <1> HIDE DEF W, I
  <1>11. Cardinality(I) <= Cardinality(W)
    BY <1>4, <1>8, <1>9, Injected
  <1>12. QED
    BY <1>4, <1>10, <1>11

-----------------------------------------------------------------------------
(* Stripes                                                                 *)

(* What numThreadsFor and the caller of partition see to.                  *)
GoodInput ==
    /\ T \in Nat \ {0} /\ NumBuckets \in Nat \ {0} /\ N \in Nat
    /\ N >= T * BlockSize
    /\ input.labels \in Seq(Bucket)

(* The places of the array.                                                *)
Pos == 0 .. N - 1

(* The inputs of the model are such calls.                                 *)
LEMMA InputIsGood == input \in Inputs => GoodInput
  BY InputsAssumption DEF InputsAssumption, GoodInput, T, NumBuckets, N, Bucket

(* Where the stripe of thread u begins before it is rounded to blocks.     *)
Cut(u) == (2 * u * N + T) \div (2 * T)

(* The stripes begin at these places rounded up to blocks; the bounds      *)
(* stand for the division.                                                 *)
LEMMA Cuts ==
    ASSUME GoodInput, NEW u \in 0 .. T
    PROVE  /\ Cut(u) \in Nat /\ StripeAt(u) = Align(Cut(u))
           /\ u * N \in Nat
           /\ (2 * T) * Cut(u) <= 2 * (u * N) + T
           /\ 2 * (u * N) + T < (2 * T) * (Cut(u) + 1)
  <1>1. T \in Nat /\ T > 0 /\ N \in Nat /\ u \in Nat /\ u * N \in Nat /\ 2 * T \in Nat \ {0}
    BY DEF GoodInput
  <1>2. 2 * u * N = 2 * (u * N)
    BY <1>1
  <1>3. 2 * (u * N) + T \in Nat
    BY <1>1
  <1>4. /\ Cut(u) \in Nat /\ (2 * T) * Cut(u) <= 2 * (u * N) + T
        /\ 2 * (u * N) + T < (2 * T) * Cut(u) + (2 * T)
    BY <1>1, <1>2, <1>3, Division DEF Cut
  <1>5. (2 * T) * (Cut(u) + 1) = (2 * T) * Cut(u) + (2 * T)
    BY <1>1, <1>4
  <1>6. QED
    BY <1>1, <1>4, <1>5 DEF StripeAt, Cut

(* Borders of stripes are borders of blocks, at least a block apart; the   *)
(* last stripe is not empty and reaches to the end.                        *)
LEMMA StripeBorders ==
    ASSUME GoodInput, NEW t \in 0 .. T
    PROVE  /\ IsBlock(StripeAt(t)) /\ StripeAt(t) \in Nat
           /\ t = 0 => StripeAt(t) = 0
           /\ t = T => StripeAt(t) >= N
           /\ t < T => StripeAt(t) < N
           /\ \A u \in 0 .. T : t < u => StripeAt(t) + BlockSize <= StripeAt(u)
  <1>1. T \in Nat /\ T > 0 /\ N \in Nat /\ BlockSize \in Nat /\ BlockSize > 0
        /\ T * BlockSize \in Nat /\ T * BlockSize <= N /\ t \in Nat
        /\ T * N \in Nat /\ t * N \in Nat
    BY Sizes DEF GoodInput
  <1>2. \A u \in 0 .. T : Cut(u) \in Nat /\ StripeAt(u) = Align(Cut(u))
    BY Cuts
  <1>3. IsBlock(StripeAt(t)) /\ StripeAt(t) \in Nat
    BY <1>2, AlignRight
  <1>4. ASSUME t = 0 PROVE StripeAt(t) = 0
    <2>1. t * N = 0
      BY <1>1, <1>4
    <2>2. (2 * T) * Cut(t) <= T /\ Cut(t) \in Nat
      <3>1. (2 * T) * Cut(t) <= 2 * (t * N) + T /\ Cut(t) \in Nat
        BY Cuts
      <3>2. QED
        BY <1>1, <2>1, <3>1
    <2>3. (2 * T) * Cut(t) < (2 * T) * 1
      BY <1>1, <2>2
    <2>4. Cut(t) < 1
      BY <1>1, <2>2, <2>3, Scaled
    <2>5. Cut(t) = 0
      BY <2>2, <2>4
    <2>6. Align(0) = 0
      <3>1. (0 + BlockSize - 1) \div BlockSize = 0
        BY <1>1, DivisionIs
      <3>2. QED
        BY <1>1, <3>1 DEF Align
    <2>7. QED
      BY <1>2, <2>5, <2>6
  <1>5. ASSUME t = T PROVE StripeAt(t) >= N
    <2>1. t * N = T * N /\ (2 * T) * N = 2 * (T * N)
      BY <1>1, <1>5
    <2>2. (2 * T) * N < (2 * T) * (Cut(t) + 1) /\ Cut(t) \in Nat
      <3>1. 2 * (t * N) + T < (2 * T) * (Cut(t) + 1) /\ Cut(t) \in Nat
        BY Cuts
      <3>2. (2 * T) * (Cut(t) + 1) \in Int
        BY <1>1, <3>1
      <3>3. QED
        BY <1>1, <2>1, <3>1, <3>2
    <2>3. N < Cut(t) + 1
      BY <1>1, <2>2, Scaled
    <2>4. QED
      BY <1>1, <1>2, <2>3, AlignRight
  <1>6. ASSUME t < T PROVE StripeAt(t) < N
    <2>1. Cut(t) + BlockSize <= N
      <3>1. (2 * T) * Cut(t) <= 2 * (t * N) + T /\ Cut(t) \in Nat /\ (2 * T) * Cut(t) \in Int
        BY <1>1, Cuts
      <3>2. t * N + N <= T * N
        <4>1. N * (t + 1) <= N * T
          BY <1>1, <1>6, Scaled
        <4>2. N * (t + 1) = t * N + N /\ N * T = T * N
          BY <1>1
        <4>3. QED
          BY <4>1, <4>2
      <3>3. (2 * T) * Cut(t) <= 2 * (T * N) - 2 * N + T
        BY <1>1, <3>1, <3>2
      <3>4. (2 * T) * Cut(t) + 2 * (T * BlockSize) <= 2 * (T * N) + T
        BY <1>1, <3>1, <3>3
      <3>5. (2 * T) * (Cut(t) + BlockSize) = (2 * T) * Cut(t) + 2 * (T * BlockSize)
        BY <1>1, <3>1
      <3>6. (2 * T) * (N + 1) = 2 * (T * N) + 2 * T
        BY <1>1
      <3>7. (2 * T) * (Cut(t) + BlockSize) < (2 * T) * (N + 1)
        BY <1>1, <3>1, <3>4, <3>5, <3>6
      <3>8. Cut(t) + BlockSize < N + 1
        BY <1>1, <3>1, <3>7, Scaled
      <3>9. QED
        BY <1>1, <3>1, <3>8
    <2>2. QED
      BY <1>1, <1>2, <2>1, AlignRight
  <1>7. ASSUME NEW u \in 0 .. T, t < u PROVE StripeAt(t) + BlockSize <= StripeAt(u)
    <2>1. Cut(t) + BlockSize <= Cut(u)
      <3>1. /\ (2 * T) * Cut(t) <= 2 * (t * N) + T /\ Cut(t) \in Nat /\ (2 * T) * Cut(t) \in Int
            /\ 2 * (u * N) + T < (2 * T) * (Cut(u) + 1) /\ Cut(u) \in Nat /\ u * N \in Nat
            /\ (2 * T) * (Cut(u) + 1) \in Int
        <4>1. /\ (2 * T) * Cut(t) <= 2 * (t * N) + T /\ Cut(t) \in Nat
              /\ 2 * (u * N) + T < (2 * T) * (Cut(u) + 1) /\ Cut(u) \in Nat /\ u * N \in Nat
          BY Cuts
        <4>2. QED
          BY <1>1, <4>1
      <3>2. t * N + N <= u * N
        <4>1. u \in Nat /\ N * (t + 1) <= N * u
          BY <1>1, <1>7, Scaled
        <4>2. N * (t + 1) = t * N + N /\ N * u = u * N
          BY <1>1, <4>1
        <4>3. QED
          BY <4>1, <4>2
      <3>3. (2 * T) * Cut(t) + 2 * N <= 2 * (u * N) + T
        BY <1>1, <3>1, <3>2
      <3>4. (2 * T) * Cut(t) + 2 * (T * BlockSize) < (2 * T) * (Cut(u) + 1)
        BY <1>1, <3>1, <3>3
      <3>5. (2 * T) * (Cut(t) + BlockSize) = (2 * T) * Cut(t) + 2 * (T * BlockSize)
        BY <1>1, <3>1
      <3>6. Cut(t) + BlockSize < Cut(u) + 1
        BY <1>1, <3>1, <3>4, <3>5, Scaled
      <3>7. QED
        BY <1>1, <3>1, <3>6
    <2>2. Cut(t) + BlockSize \in Nat /\ Cut(t) \in Nat /\ Cut(u) \in Nat
      BY <1>1, <1>2
    <2>3. Align(Cut(t) + BlockSize) <= Align(Cut(u))
      BY <2>1, <2>2, AlignMonotone
    <2>4. /\ IsBlock(Align(Cut(t))) /\ Align(Cut(t)) < Cut(t) + BlockSize
          /\ IsBlock(Align(Cut(t) + BlockSize)) /\ Cut(t) + BlockSize <= Align(Cut(t) + BlockSize)
          /\ Align(Cut(t)) \in Nat /\ Align(Cut(t) + BlockSize) \in Nat /\ Align(Cut(u)) \in Nat
      BY <2>2, AlignRight
    <2>5. Align(Cut(t)) + BlockSize <= Align(Cut(t) + BlockSize)
      BY <2>2, <2>4, BlocksApart
    <2>6. QED
      BY <1>1, <1>2, <2>3, <2>4, <2>5
  <1>8. QED
    BY <1>3, <1>4, <1>5, <1>6, <1>7

(* What the stripes of the threads are: not empty, one after the other,    *)
(* on borders of blocks, and all of the array together.                    *)
LEMMA Stripes ==
    ASSUME GoodInput
    PROVE  /\ \A t \in Thread :
                /\ MyBegin(t) = StripeAt(t) /\ IsBlock(MyBegin(t)) /\ MyBegin(t) \in Nat
                /\ MyEnd(t) \in Nat /\ MyBegin(t) < MyEnd(t) /\ MyEnd(t) <= N
                /\ t = 0 => MyBegin(t) = 0
                /\ t = T - 1 => MyEnd(t) = N
                /\ t # T - 1 => t + 1 \in Thread /\ MyEnd(t) = MyBegin(t + 1)
                /\ Mine(t) \subseteq Pos
           /\ \A t, u \in Thread : t < u => MyEnd(t) <= MyBegin(u)
           /\ \A p \in Pos : \E t \in Thread : p \in Mine(t)
  <1>1. T \in Nat /\ T > 0 /\ N \in Nat /\ BlockSize \in Nat /\ BlockSize > 0
    BY Sizes DEF GoodInput
  <1>2. \A t \in 0 .. T :
           /\ IsBlock(StripeAt(t)) /\ StripeAt(t) \in Nat
           /\ t = 0 => StripeAt(t) = 0
           /\ t = T => StripeAt(t) >= N
           /\ t < T => StripeAt(t) < N
           /\ \A u \in 0 .. T : t < u => StripeAt(t) + BlockSize <= StripeAt(u)
    BY StripeBorders
  <1>3. ASSUME NEW t \in Thread
        PROVE  /\ MyBegin(t) = StripeAt(t)
               /\ MyEnd(t) = IF t = T - 1 THEN N ELSE StripeAt(t + 1)
               /\ t \in 0 .. T /\ t + 1 \in 0 .. T /\ t < T /\ (t # T - 1 => t + 1 \in Thread)
    <2>1. t \in 0 .. T /\ t + 1 \in 0 .. T /\ t < T /\ (t # T - 1 => t + 1 \in Thread)
      BY <1>1 DEF Thread
    <2>2. CASE T = 1
      BY <1>1, <1>2, <2>1, <2>2 DEF MyBegin, MyEnd, Thread
    <2>3. CASE T # 1
      <3>1. StripeAt(t + 1) \in Int /\ N \in Int
        BY <1>1, <1>2, <2>1
      <3>2. MyEnd(t) = IF StripeAt(t + 1) <= N THEN StripeAt(t + 1) ELSE N
        BY <2>3, <3>1, MaxMinOfTwo DEF MyEnd
      <3>3. t = T - 1 => StripeAt(t + 1) >= N
        BY <1>1, <1>2, <2>1
      <3>4. t # T - 1 => StripeAt(t + 1) < N
        BY <1>1, <1>2, <2>1
      <3>5. QED
        BY <1>1, <2>1, <2>3, <3>1, <3>2, <3>3, <3>4 DEF MyBegin
    <2>4. QED
      BY <2>1, <2>2, <2>3
  <1>4. ASSUME NEW t \in Thread
        PROVE  /\ MyBegin(t) = StripeAt(t) /\ IsBlock(MyBegin(t)) /\ MyBegin(t) \in Nat
               /\ MyEnd(t) \in Nat /\ MyBegin(t) < MyEnd(t) /\ MyEnd(t) <= N
               /\ t = 0 => MyBegin(t) = 0
               /\ t = T - 1 => MyEnd(t) = N
               /\ t # T - 1 => t + 1 \in Thread /\ MyEnd(t) = MyBegin(t + 1)
               /\ Mine(t) \subseteq Pos
    <2>1. IsBlock(MyBegin(t)) /\ MyBegin(t) \in Nat /\ (t = 0 => MyBegin(t) = 0) /\ MyBegin(t) < N
      BY <1>2, <1>3
    <2>2. CASE t = T - 1
      <3>1. MyEnd(t) = N
        BY <1>3, <2>2
      <3>2. QED
        BY <1>1, <1>3, <2>1, <2>2, <3>1 DEF Mine, Pos
    <2>3. CASE t # T - 1
      <3>1. /\ t + 1 \in Thread /\ MyEnd(t) = StripeAt(t + 1) /\ MyBegin(t + 1) = StripeAt(t + 1)
            /\ t + 1 \in 0 .. T /\ t < t + 1 /\ t + 1 < T
        BY <1>1, <1>3, <2>3 DEF Thread
      <3>2. MyEnd(t) \in Nat /\ MyEnd(t) < N /\ MyBegin(t) + BlockSize <= MyEnd(t)
        BY <1>2, <1>3, <3>1
      <3>3. QED
        BY <1>1, <1>3, <2>1, <2>3, <3>1, <3>2 DEF Mine, Pos
    <2>4. QED
      BY <2>2, <2>3
  <1>5. ASSUME NEW t \in Thread, NEW u \in Thread, t < u PROVE MyEnd(t) <= MyBegin(u)
    <2>1. t # T - 1 /\ t \in Int /\ u \in Int /\ u < T
      BY <1>1, <1>5 DEF Thread
    <2>2. t + 1 \in Thread /\ MyEnd(t) = MyBegin(t + 1) /\ MyBegin(t + 1) = StripeAt(t + 1)
          /\ MyBegin(u) = StripeAt(u)
      BY <1>4, <2>1
    <2>3. CASE t + 1 = u
      BY <1>4, <2>2, <2>3
    <2>4. CASE t + 1 # u
      <3>1. t + 1 < u /\ t + 1 \in 0 .. T /\ u \in 0 .. T
        BY <1>1, <1>5, <2>1, <2>2, <2>4 DEF Thread
      <3>2. StripeAt(t + 1) + BlockSize <= StripeAt(u) /\ StripeAt(t + 1) \in Nat /\ StripeAt(u) \in Nat
        BY <1>2, <3>1
      <3>3. QED
        BY <1>1, <2>2, <3>2
    <2>5. QED
      BY <2>3, <2>4
  <1>6. ASSUME NEW p \in Pos PROVE \E t \in Thread : p \in Mine(t)
    <2> DEFINE S == {t \in Thread : MyBegin(t) <= p}
    <2>1. S \in SUBSET Int /\ IsFiniteSet(S)
      <3>1. IsFiniteSet(Thread)
        BY <1>1, FS_Interval DEF Thread
      <3>2. S \in SUBSET Thread /\ Thread \subseteq Int
        BY <1>1 DEF Thread
      <3>3. QED
        BY <3>1, <3>2, FS_Subset
    <2>2. 0 \in S
      BY <1>1, <1>4 DEF Thread, Pos
    <2>3. PICK m \in S : \A q \in S : q <= m
      BY <2>1, <2>2, LastPlace
    <2>4. m \in Thread /\ MyBegin(m) <= p /\ p \in Int /\ m \in Int /\ p < N
      BY <1>1, <2>3 DEF Thread, Pos
    <2>5. p < MyEnd(m)
      <3>1. CASE m = T - 1
        BY <1>4, <2>4, <3>1
      <3>2. CASE m # T - 1
        <4>1. m + 1 \in Thread /\ MyEnd(m) = MyBegin(m + 1) /\ MyBegin(m + 1) \in Nat
          BY <1>4, <2>4, <3>2
        <4>2. m + 1 \notin S
          BY <2>3, <2>4
        <4>3. QED
          BY <2>4, <4>1, <4>2
      <3>3. QED
        BY <3>1, <3>2
    <2>6. p \in MyBegin(m) .. MyEnd(m) - 1
      <3>1. MyBegin(m) \in Int /\ MyEnd(m) \in Int
        BY <1>4, <2>4
      <3>2. QED
        BY <2>4, <2>5, <3>1
    <2>7. QED
      BY <2>4, <2>6 DEF Mine
  <1>7. QED
    BY <1>4, <1>5, <1>6

-----------------------------------------------------------------------------
(* Local classification                                                    *)

(* The bucket of the element that was at p before the step.                *)
Label(p) == input.labels[p + 1]

(* What classification leaves in the stripe of u.                          *)
StripeDone(u) ==
    /\ firstBlock[u] = MyBegin(u)
    /\ IsBlock(firstEmpty[u]) /\ MyBegin(u) <= firstEmpty[u] /\ firstEmpty[u] <= MyEnd(u)
    /\ \A p \in Mine(u) : a[p] = a[BlockOfPos(p)]
    /\ \A p \in Mine(u) : IF p < firstEmpty[u] THEN a[p] \in Bucket ELSE a[p] = Gone

(* The beginnings of the full blocks of bucket c in S, and the places of   *)
(* S that held elements of c.                                              *)
Blocks(S, c) == {p \in S : p % BlockSize = 0 /\ a[p] = c}
Labelled(S, c) == {p \in S : Label(p) = c}

(* The full blocks in S hold fewer elements of bucket c than S had.        *)
Spare(S, c) == Blocks(S, c) = {} \/ BlockSize * Cardinality(Blocks(S, c)) < Cardinality(Labelled(S, c))

(* The stripes of the threads in C are done.                               *)
SeenBy(C) == UNION {Mine(u) : u \in C}
(* bucketStart counts the elements before each bucket in these stripes,    *)
(* and each bucket has an element there that is in no full block.          *)
Sums(C) ==
    /\ DOMAIN bucketStart = 0 .. NumBuckets
    /\ \A i \in 0 .. NumBuckets : bucketStart[i] = Cardinality({p \in SeenBy(C) : Label(p) < i})
    /\ \A c \in Bucket : Spare(SeenBy(C), c)

(* The threads that are through with their stripe.                         *)
Classified == {u \in Thread : pc[u] = "classified"}

(* The invariant of classification: a stripe is untouched until its        *)
(* thread classifies it, and done then.                                    *)
ClassInv ==
    /\ GoodInput
    /\ pc \in [Thread -> {"classify", "classified"}]
    /\ DOMAIN a = Pos /\ DOMAIN firstBlock = Thread /\ DOMAIN firstEmpty = Thread
    /\ \A u \in Thread : pc[u] = "classify" => \A p \in Mine(u) : a[p] = Label(p)
    /\ \A u \in Classified : StripeDone(u)
    /\ Sums(Classified)

-----------------------------------------------------------------------------
(* The array is finite.                                                    *)
LEMMA PosFinite == GoodInput => IsFiniteSet(Pos) /\ Cardinality(Pos) = N
  BY Interval DEF GoodInput, Pos

(* Every element has a bucket.                                             *)
LEMMA LabelType == GoodInput => \A p \in Pos : Label(p) \in Bucket
  <1> SUFFICES ASSUME GoodInput, NEW p \in Pos PROVE Label(p) \in Bucket
    OBVIOUS
  <1>1. N \in Nat /\ N = Len(input.labels) /\ input.labels \in Seq(Bucket)
    BY DEF GoodInput, N
  <1>2. p + 1 \in 1 .. Len(input.labels)
    BY <1>1 DEF Pos
  <1>3. QED
    BY <1>1, <1>2 DEF Label

(* A flush comes with an element that follows one or more full buffers of  *)
(* its bucket.                                                             *)
LEMMA FlushesBefore ==
    ASSUME GoodInput, NEW t \in Thread, NEW p \in Flushed(t)
    PROVE  Before(Mine(t), a, p) > 0 /\ Before(Mine(t), a, p) % BlockSize = 0
  <1> DEFINE A == {q \in Alike(Mine(t), a, p) : q < p}
             r == Rank(t, a[p], p)
  <1>1. p \in Mine(t) /\ r > 1 /\ (r - 1) % BlockSize = 0
    BY DEF Flushed, Flushes
  <1>2. MyBegin(t) \in Int /\ MyEnd(t) \in Int /\ Mine(t) \in SUBSET Int /\ p \in Int
    BY <1>1, Stripes DEF Mine
  <1>3. IsFiniteSet(Mine(t)) /\ A \in SUBSET Mine(t)
    BY <1>2, FS_Interval DEF Mine, Alike
  <1>4. IsFiniteSet(A) /\ Cardinality(A) \in Nat
    BY <1>3, FS_Subset, FS_CardinalityType
  <1>5. {q \in MyBegin(t) .. p : a[q] = a[p]} = A \cup {p}
    <2>1. ASSUME NEW q \in Int
          PROVE  q \in MyBegin(t) .. p <=> q \in Mine(t) /\ (q < p \/ q = p)
      BY <1>1, <1>2 DEF Mine
    <2>2. \A q : q \in {x \in MyBegin(t) .. p : a[x] = a[p]} => q \in A \cup {p}
      BY <1>2, <2>1 DEF Alike
    <2>3. \A q : q \in A \cup {p} => q \in {x \in MyBegin(t) .. p : a[x] = a[p]}
      BY <1>1, <1>2, <2>1 DEF Alike
    <2>4. QED
      BY <2>2, <2>3
  <1>6. p \notin A
    BY <1>2
  <1> HIDE DEF A
  <1>7. r = Cardinality(A) + 1
    BY <1>4, <1>5, <1>6, FS_AddElement DEF Rank
  <1>8. Before(Mine(t), a, p) = Cardinality(A)
    BY DEF Before, Position, A
  <1>9. QED
    BY <1>1, <1>4, <1>7, <1>8

(* The k-th flush.                                                         *)
LEMMA FlushFound ==
    ASSUME GoodInput, NEW t \in Thread, NEW k \in Int, 0 <= k, k < Cardinality(Flushed(t))
    PROVE  FlushAt(t, k) \in Flushed(t) /\ Position(Flushed(t), FlushAt(t, k)) = k
  <1>1. Flushed(t) \in SUBSET Int /\ IsFiniteSet(Flushed(t))
    <2>1. MyBegin(t) \in Int /\ MyEnd(t) \in Int
      BY Stripes
    <2>2. IsFiniteSet(Mine(t)) /\ Mine(t) \in SUBSET Int
      BY <2>1, FS_Interval DEF Mine
    <2>3. Flushed(t) \in SUBSET Mine(t)
      BY DEF Flushed
    <2>4. QED
      BY <2>2, <2>3, FS_Subset
  <1>2. \E p \in Flushed(t) : Position(Flushed(t), p) = k
    BY <1>1, PositionOnto
  <1>3. QED
    BY <1>2 DEF FlushAt, Position

(* The classification of one stripe.                                       *)
LEMMA ClassifyStripe ==
    ASSUME GoodInput, NEW t \in Thread, DOMAIN a = Pos, t \in DOMAIN firstBlock, t \in DOMAIN firstEmpty,
           \A p \in Mine(t) : a[p] = Label(p), Classify(t)
    PROVE  /\ StripeDone(t)'
           /\ \A c \in Bucket : Spare(Mine(t), c)'
           /\ \A c \in Bucket :
                Cardinality(Blocks(Mine(t), c)') = Cardinality({p \in Flushed(t) : a[p] = c})
           /\ \A p \in Pos : p \notin Mine(t) => a'[p] = a[p]
           /\ DOMAIN a' = Pos
  <1> DEFINE F == Flushed(t)
             K == Cardinality(F)
             M == Mine(t)
             s == MyBegin(t)
             empty == s + BlockSize * K
  <1>1. /\ BlockSize \in Nat /\ BlockSize > 0
        /\ s \in Nat /\ MyEnd(t) \in Nat /\ s < MyEnd(t) /\ IsBlock(s)
        /\ M = s .. MyEnd(t) - 1 /\ M \subseteq Pos /\ M \in SUBSET Int
    BY Sizes, Stripes DEF Mine
  <1>2. IsFiniteSet(M) /\ Cardinality(M) = MyEnd(t) - s
    BY <1>1, FS_Interval
  <1>3. F \in SUBSET M /\ IsFiniteSet(F) /\ K \in Nat
    BY <1>2, FS_Subset, FS_CardinalityType DEF Flushed
  <1>4. /\ firstBlock'[t] = s /\ firstEmpty'[t] = empty /\ input' = input
        /\ a' = [p \in DOMAIN a |->
                   IF p \notin M THEN a[p]
                   ELSE IF p < empty THEN a[FlushAt(t, (p - s) \div BlockSize)] ELSE Gone]
    BY DEF Classify
  <1>5. /\ MyBegin(t)' = s /\ MyEnd(t)' = MyEnd(t) /\ Mine(t)' = M /\ Bucket' = Bucket
        /\ Pos' = Pos
    BY <1>4 DEF MyBegin, MyEnd, Mine, StripeAt, T, N, Bucket, NumBuckets, Pos
  <1>6. BlockSize * K \in Nat /\ BlockSize * K <= MyEnd(t) - s
    <2>1. CASE F = {}
      <3>1. K = 0
        BY <2>1, FS_EmptySet
      <3>2. QED
        BY <1>1, <3>1
    <2>2. CASE F # {}
      <3>1. BlockSize * K < Cardinality(M)
        <4>1. \A p \in F : Before(M, a, p) > 0 /\ Before(M, a, p) % BlockSize = 0
          BY FlushesBefore
        <4> HIDE DEF F, M
        <4>2. QED
          BY <1>1, <1>2, <1>3, <2>2, <4>1, FlushRoom
      <3>2. BlockSize * K \in Nat
        BY <1>1, <1>3
      <3>3. QED
        BY <1>1, <1>2, <3>1, <3>2
    <2>3. QED
      BY <2>1, <2>2
  <1>7. IsBlock(empty) /\ s <= empty /\ empty <= MyEnd(t) /\ empty \in Int
    <2>1. s = BlockSize * (s \div BlockSize) /\ s \div BlockSize \in Int
      BY <1>1, Multiple DEF IsBlock
    <2>2. empty = BlockSize * (s \div BlockSize + K)
      BY <1>1, <1>3, <2>1
    <2>3. empty \in Int /\ empty % BlockSize = 0
      <3> DEFINE j == s \div BlockSize + K
      <3>1. j \in Int /\ empty = BlockSize * j
        BY <1>3, <2>1, <2>2
      <3> HIDE DEF empty, j
      <3>2. (BlockSize * j) % BlockSize = 0 /\ BlockSize * j \in Int
        BY <1>1, <3>1, IsMultiple
      <3>3. QED
        BY <3>1, <3>2
    <2>4. QED
      BY <1>1, <1>6, <2>3 DEF IsBlock
  <1> HIDE DEF F, K, M, s, empty
  <1>8. ASSUME NEW p \in M, p < empty
        PROVE  LET k == (p - s) \div BlockSize IN
               /\ k \in 0 .. K - 1 /\ s + BlockSize * k = BlockOfPos(p)
               /\ (BlockOfPos(p) - s) \div BlockSize = k
               /\ FlushAt(t, k) \in F /\ Position(F, FlushAt(t, k)) = k
               /\ a'[p] = a[FlushAt(t, k)]
    <2> DEFINE k == (p - s) \div BlockSize
               e == BlockOfPos(p)
    <2>1. p \in Int /\ s <= p /\ p - s \in Nat
      BY <1>1
    <2>2. k \in Nat /\ BlockSize * k <= p - s /\ p - s < BlockSize * k + BlockSize /\ BlockSize * k \in Nat
      BY <1>1, <2>1, Division
    <2> HIDE DEF k
    <2>3. k < K
      <3>1. BlockSize * k < BlockSize * K
        BY <1>1, <1>8, <2>1, <2>2, <1>6 DEF empty
      <3>2. QED
        BY <1>1, <1>3, <2>2, <3>1, Scaled
    <2>4. IsBlock(s + BlockSize * k)
      <3>1. s = BlockSize * (s \div BlockSize) /\ s \div BlockSize \in Int
        BY <1>1, Multiple DEF IsBlock
      <3>2. s + BlockSize * k = BlockSize * (s \div BlockSize + k)
        BY <1>1, <2>2, <3>1
      <3>3. QED
        BY <1>1, <2>2, <3>1, <3>2, IsMultiple DEF IsBlock
    <2>5. e = s + BlockSize * k
      <3>1. e \in Int /\ IsBlock(e) /\ e <= p /\ p < e + BlockSize
        BY <2>1, InBlock
      <3>2. s + BlockSize * k <= e
        <4>1. \A q \in Int : IsBlock(q) /\ q <= p => q <= e
          BY <2>1, InBlock
        <4> HIDE DEF e
        <4>2. s + BlockSize * k \in Int /\ s + BlockSize * k <= p
          BY <1>1, <2>1, <2>2
        <4>3. QED
          BY <2>4, <4>1, <4>2
      <3>3. ~(s + BlockSize * k < e)
        <4>1. SUFFICES ASSUME s + BlockSize * k < e PROVE FALSE
          OBVIOUS
        <4>2. s + BlockSize * k + BlockSize <= e
          BY <2>4, <3>1, <4>1, BlocksApart
        <4>3. QED
          BY <1>1, <2>1, <2>2, <3>1, <4>2
      <3>4. QED
        BY <1>1, <2>2, <3>1, <3>2, <3>3
    <2>6. (e - s) \div BlockSize = k
      <3>1. e - s = BlockSize * k
        BY <1>1, <2>2, <2>5
      <3>2. QED
        BY <1>1, <2>2, <3>1, DivisionIs
    <2>7. FlushAt(t, k) \in F /\ Position(F, FlushAt(t, k)) = k
      BY <2>2, <2>3, FlushFound DEF F, K
    <2>8. a'[p] = a[FlushAt(t, k)]
      BY <1>1, <1>4, <1>8 DEF k
    <2>9. QED
      BY <1>3, <2>2, <2>3, <2>5, <2>6, <2>7, <2>8 DEF k, e
  <1>9. \A p \in M : p >= empty => a'[p] = Gone
    BY <1>1, <1>4, <1>7
  <1>10. \A p \in M : a[p] \in Bucket
    BY <1>1, LabelType DEF M
  <1>11. StripeDone(t)'
    <2>1. \A p \in M : IF p < empty THEN a'[p] \in Bucket ELSE a'[p] = Gone
      <3> SUFFICES ASSUME NEW p \in M PROVE IF p < empty THEN a'[p] \in Bucket ELSE a'[p] = Gone
        OBVIOUS
      <3>1. CASE p < empty
        BY <1>3, <1>8, <1>10, <3>1
      <3>2. CASE ~(p < empty)
        BY <1>1, <1>7, <1>9, <3>2
      <3>3. QED
        BY <3>1, <3>2
    <2>2. \A p \in M : a'[p] = a'[BlockOfPos(p)]
      <3> SUFFICES ASSUME NEW p \in M PROVE a'[p] = a'[BlockOfPos(p)]
        OBVIOUS
      <3> DEFINE e == BlockOfPos(p)
      <3>1. p \in Int /\ s <= p /\ p < MyEnd(t)
        BY <1>1
      <3>2. e \in Int /\ IsBlock(e) /\ e <= p /\ s <= e /\ BlockOfPos(e) = e
        BY <1>1, <3>1, InBlock
      <3>3. e \in M
        BY <1>1, <3>1, <3>2
      <3>4. CASE p < empty
        <4>1. e < empty
          BY <1>7, <3>1, <3>2, <3>4
        <4>2. a'[p] = a[FlushAt(t, (p - s) \div BlockSize)]
              /\ (e - s) \div BlockSize = (p - s) \div BlockSize
          BY <1>8, <3>4
        <4>3. a'[e] = a[FlushAt(t, (e - s) \div BlockSize)]
          BY <1>8, <3>3, <4>1
        <4>4. QED
          BY <4>2, <4>3
      <3>5. CASE ~(p < empty)
        <4>1. empty <= e
          BY <1>7, <3>1, <3>5, InBlock
        <4>2. QED
          BY <1>7, <1>9, <3>1, <3>2, <3>3, <3>5, <4>1
      <3>6. QED
        BY <3>4, <3>5
    <2>3. QED
      BY <1>1, <1>4, <1>5, <1>7, <2>1, <2>2 DEF StripeDone, s, M, IsBlock, BlockOfPos, Gone
  <1>12. ASSUME NEW c \in Bucket
         PROVE  /\ Spare(Mine(t), c)'
                /\ Cardinality(Blocks(Mine(t), c)') = Cardinality({p \in Flushed(t) : a[p] = c})
    <2> DEFINE E == {p \in M : p % BlockSize = 0 /\ a'[p] = c}
               Mc == {p \in M : a[p] = c}
               Fc == {p \in F : a[p] = c}
               h == [p \in E |-> FlushAt(t, (p - s) \div BlockSize)]
               g == [f \in Fc |-> s + BlockSize * Position(F, f)]
    <2>1. \A p \in E : p \in M /\ p < empty /\ BlockOfPos(p) = p /\ p \in Int
      <3> SUFFICES ASSUME NEW p \in E PROVE p \in M /\ p < empty /\ BlockOfPos(p) = p /\ p \in Int
        OBVIOUS
      <3>1. p \in M /\ p \in Int /\ IsBlock(p) /\ a'[p] = c
        BY <1>1 DEF IsBlock
      <3>2. c # Gone
        <4>1. c >= 0 /\ c \in Int
          BY DEF Bucket, GoodInput
        <4>2. QED
          BY <4>1 DEF Gone
      <3>3. QED
        BY <1>7, <1>9, <3>1, <3>2, InBlock
    <2>2. ASSUME NEW p \in E
          PROVE  h[p] \in Fc /\ s + BlockSize * Position(F, h[p]) = p
      <3>1. /\ p \in M /\ p < empty /\ BlockOfPos(p) = p /\ a'[p] = c
        BY <2>1
      <3>2. QED
        BY <1>8, <3>1
    <2>3. h \in [E -> Fc] /\ \A p, q \in E : h[p] = h[q] => p = q
      BY <2>2
    <2>4. /\ Mc \in SUBSET Int /\ IsFiniteSet(Mc) /\ Fc \in SUBSET Mc /\ IsFiniteSet(Fc)
          /\ Cardinality(Mc) \in Nat /\ Cardinality(Fc) \in Nat
      BY <1>1, <1>2, <1>3, FS_Subset, FS_CardinalityType
    <2>5. \A p \in Fc : Before(Mc, a, p) > 0 /\ Before(Mc, a, p) % BlockSize = 0
      <3> SUFFICES ASSUME NEW p \in Fc
                   PROVE  Before(Mc, a, p) > 0 /\ Before(Mc, a, p) % BlockSize = 0
        OBVIOUS
      <3>1. Alike(Mc, a, p) = Alike(M, a, p)
        BY DEF Alike
      <3>2. Before(M, a, p) > 0 /\ Before(M, a, p) % BlockSize = 0
        BY FlushesBefore DEF F, M
      <3>3. QED
        BY <3>1, <3>2 DEF Before
    <2>6. E = {} \/ Fc # {}
      BY <2>2
    <2>7. Blocks(Mine(t), c)' = E
      BY <1>5 DEF Blocks, M
    <2>8. Labelled(Mine(t), c)' = Mc
      BY <1>4, <1>5 DEF Labelled, Label, M
    <2>11. ASSUME NEW f \in Fc
           PROVE  /\ Position(F, f) \in Nat /\ s + BlockSize * Position(F, f) \in E
      <3> DEFINE k == Position(F, f)
                 q == s + BlockSize * k
      <3>1. f \in F /\ a[f] = c /\ F \in SUBSET Int
        BY <1>1, <1>3
      <3>2. k \in Int /\ 0 <= k /\ k < K
        <4>1. Position(F, f) \in 0 .. Cardinality(F) - 1 /\ Cardinality(F) \in Nat
          BY <1>3, <3>1, PositionGrows
        <4>2. QED
          BY <4>1 DEF K
      <3> HIDE DEF k
      <3>3. BlockSize * k \in Nat /\ BlockSize * k + BlockSize <= BlockSize * K
        <4>1. BlockSize * (k + 1) = BlockSize * k + BlockSize /\ k + 1 \in Int /\ k + 1 <= K
          BY <1>1, <1>3, <3>2
        <4>2. BlockSize * (k + 1) <= BlockSize * K /\ 0 <= BlockSize * k /\ BlockSize * k \in Int
          BY <1>1, <1>3, <3>2, <4>1, Scaled
        <4>3. QED
          BY <1>1, <1>3, <1>6, <4>1, <4>2
      <3>4. q \in Int /\ s <= q /\ q < empty /\ q < MyEnd(t) /\ q - s = BlockSize * k
        BY <1>1, <1>6, <3>3 DEF empty
      <3>5. (q - s) \div BlockSize = k
        BY <1>1, <3>2, <3>3, <3>4, DivisionIs
      <3>6. q \in M
        BY <1>1, <3>4
      <3>7. FlushAt(t, k) \in F /\ Position(F, FlushAt(t, k)) = k /\ a'[q] = a[FlushAt(t, k)]
        BY <1>8, <3>4, <3>5, <3>6
      <3>8. FlushAt(t, k) = f
        <4>1. \A x \in F, y \in F : x < y => Position(F, x) < Position(F, y)
          BY <1>3, <3>1, PositionGrows
        <4>2. \A x \in F : Position(F, x) \in 0 .. Cardinality(F) - 1
          BY <1>3, <3>1, PositionGrows
        <4>3. Position(F, f) = k
          BY DEF k
        <4>4. FlushAt(t, k) \in Int /\ f \in Int
          BY <3>1, <3>7
        <4>5. QED
          BY <3>1, <3>2, <3>7, <4>1, <4>3, <4>4
      <3>9. q % BlockSize = 0
        <4>1. s = BlockSize * (s \div BlockSize) /\ s \div BlockSize \in Int
          BY <1>1, Multiple DEF IsBlock
        <4>2. q = BlockSize * (s \div BlockSize + k)
          BY <1>1, <3>2, <4>1
        <4> HIDE DEF q
        <4>3. QED
          BY <1>1, <3>2, <4>1, <4>2, IsMultiple
      <3>10. q \in E
        BY <3>1, <3>6, <3>7, <3>8, <3>9
      <3>11. QED
        BY <3>2, <3>10 DEF k
    <2>12. g \in [Fc -> E] /\ \A x, y \in Fc : g[x] = g[y] => x = y
      <3>1. g \in [Fc -> E]
        BY <2>11
      <3> SUFFICES ASSUME NEW x \in Fc, NEW y \in Fc, g[x] = g[y] PROVE x = y
        BY <3>1
      <3>2. x \in F /\ y \in F /\ F \in SUBSET Int
        BY <1>1, <1>3
      <3>3. Position(F, x) \in Nat /\ Position(F, y) \in Nat
        BY <2>11
      <3>4. s + BlockSize * Position(F, x) = s + BlockSize * Position(F, y)
        OBVIOUS
      <3>5. Position(F, x) = Position(F, y)
        <4> DEFINE u == Position(F, x)
                   v == Position(F, y)
        <4>1. u \in Nat /\ v \in Nat /\ s + BlockSize * u = s + BlockSize * v
          BY <3>3, <3>4
        <4> HIDE DEF u, v
        <4>2. BlockSize * u = BlockSize * v /\ BlockSize * u \in Int
          BY <1>1, <4>1
        <4>3. u <= v /\ v <= u
          BY <1>1, <4>1, <4>2, Scaled
        <4>4. u = v
          BY <4>1, <4>3
        <4>5. QED
          BY <4>4 DEF u, v
      <3>6. \A p \in F, r \in F : p < r => Position(F, p) < Position(F, r)
        BY <1>3, <3>2, PositionGrows
      <3>7. QED
        BY <3>2, <3>3, <3>5, <3>6
    <2>13. IsFiniteSet(E)
      BY <1>2, FS_Subset
    <2>14. {p \in Flushed(t) : a[p] = c} = Fc
      BY DEF F
    <2> HIDE DEF E, Mc, Fc, h, g
    <2>15. Cardinality(E) = Cardinality(Fc)
      <3>1. Cardinality(E) <= Cardinality(Fc) /\ Cardinality(E) \in Nat /\ Cardinality(Fc) \in Nat
        BY <2>3, <2>4, Injected
      <3>2. Cardinality(Fc) <= Cardinality(E)
        BY <2>12, <2>13, Injected
      <3>3. QED
        BY <3>1, <3>2
    <2>9. CASE Fc # {}
      <3>1. BlockSize * Cardinality(Fc) < Cardinality(Mc)
        BY <2>4, <2>5, <2>9, FlushRoom
      <3>2. Cardinality(E) <= Cardinality(Fc) /\ Cardinality(E) \in Nat
        BY <2>3, <2>4, Injected
      <3>3. BlockSize * Cardinality(E) <= BlockSize * Cardinality(Fc)
            /\ BlockSize * Cardinality(E) \in Int /\ BlockSize * Cardinality(Fc) \in Int
        BY <1>1, <2>4, <3>2, Scaled
      <3>4. BlockSize * Cardinality(E) < Cardinality(Mc)
        BY <2>4, <3>1, <3>3
      <3>5. QED
        BY <2>7, <2>8, <2>14, <2>15, <3>4 DEF Spare
    <2>10. QED
      BY <2>6, <2>7, <2>9, <2>14, <2>15 DEF Spare
  <1>13. DOMAIN a' = Pos /\ \A p \in Pos : p \notin Mine(t) => a'[p] = a[p]
    <2>1. DOMAIN a' = Pos
      BY <1>4
    <2>2. \A p \in Pos : p \notin M => a'[p] = a[p]
      BY <1>4
    <2>3. QED
      BY <2>1, <2>2 DEF M
  <1>14. QED
    BY <1>11, <1>12, <1>13

(* Sums of one more stripe.                                                *)
LEMMA OneMore ==
    ASSUME GoodInput, NEW C \in SUBSET Thread, NEW t \in Thread, t \notin C
    PROVE  /\ SeenBy(C \cup {t}) = SeenBy(C) \cup Mine(t)
           /\ SeenBy(C) \cap Mine(t) = {}
           /\ SeenBy(C) \subseteq Pos /\ Mine(t) \subseteq Pos
  <1>1. \A u \in Thread : Mine(u) \subseteq Pos
    BY Stripes
  <1>2. ASSUME NEW u \in C, NEW p \in Mine(u), p \in Mine(t) PROVE FALSE
    <2>1. u \in Thread /\ u # t /\ u \in Int /\ t \in Int
      BY DEF Thread, GoodInput
    <2>2. /\ MyBegin(u) \in Int /\ MyEnd(u) \in Int /\ MyBegin(t) \in Int /\ MyEnd(t) \in Int
          /\ (u < t => MyEnd(u) <= MyBegin(t)) /\ (t < u => MyEnd(t) <= MyBegin(u))
      BY <2>1, Stripes
    <2>3. MyBegin(u) <= p /\ p < MyEnd(u) /\ MyBegin(t) <= p /\ p < MyEnd(t) /\ p \in Int
      BY <1>2, <2>2 DEF Mine
    <2>4. QED
      BY <2>1, <2>2, <2>3
  <1>3. QED
    BY <1>1, <1>2 DEF SeenBy

(* A thread that classifies its stripe keeps the invariant.                *)
LEMMA ClassifyStep ==
    ASSUME ClassInv, NEW t \in Thread, Classify(t)
    PROVE  ClassInv'
  <1> DEFINE C == Classified
             S == SeenBy(C)
             M == Mine(t)
  <1>1. /\ GoodInput /\ DOMAIN a = Pos /\ DOMAIN firstBlock = Thread /\ DOMAIN firstEmpty = Thread
        /\ pc \in [Thread -> {"classify", "classified"}] /\ pc[t] = "classify"
        /\ \A p \in Mine(t) : a[p] = Label(p)
    BY DEF ClassInv, Classify
  <1>2. /\ input' = input /\ pc' = [pc EXCEPT ![t] = "classified"]
        /\ \E x : firstBlock' = [firstBlock EXCEPT ![t] = x]
        /\ \E x : firstEmpty' = [firstEmpty EXCEPT ![t] = x]
        /\ bucketStart' = AddSizes(t)
    BY DEF Classify, Goto
  <1>3. /\ Thread' = Thread /\ Bucket' = Bucket /\ Pos' = Pos /\ NumBuckets' = NumBuckets
        /\ (GoodInput => GoodInput')
        /\ \A u : /\ MyBegin(u)' = MyBegin(u) /\ MyEnd(u)' = MyEnd(u) /\ Mine(u)' = Mine(u)
                  /\ Label(u)' = Label(u)
        /\ \A X : SeenBy(X)' = SeenBy(X)
    BY <1>2 DEF Thread, Bucket, Pos, NumBuckets, T, N, GoodInput, MyBegin, MyEnd, Mine, StripeAt, Label,
                SeenBy
  <1>4. /\ StripeDone(t)' /\ \A c \in Bucket : Spare(Mine(t), c)'
        /\ \A p \in Pos : p \notin Mine(t) => a'[p] = a[p]
        /\ DOMAIN a' = Pos
    BY <1>1, ClassifyStripe
  <1>5. C \in SUBSET Thread /\ t \notin C /\ Classified' = C \cup {t}
    BY <1>1, <1>2, <1>3 DEF Classified
  <1>6. /\ SeenBy(C \cup {t}) = S \cup M /\ S \cap M = {} /\ S \subseteq Pos /\ M \subseteq Pos
    BY <1>1, <1>5, OneMore
  <1>7. IsFiniteSet(Pos)
    BY <1>1, PosFinite
  <1>8. ASSUME NEW u \in Thread, u # t
        PROVE  /\ \A p \in Mine(u) : a'[p] = a[p] /\ BlockOfPos(p) \in Mine(u)
               /\ firstBlock'[u] = firstBlock[u] /\ firstEmpty'[u] = firstEmpty[u]
               /\ pc'[u] = pc[u]
    <2>1. Mine(u) \subseteq Pos /\ Mine(u) \cap Mine(t) = {}
      <3>1. Mine(u) \subseteq SeenBy({u})
        BY DEF SeenBy
      <3>2. {u} \in SUBSET Thread /\ t \notin {u}
        BY <1>8
      <3>3. SeenBy({u}) \cap Mine(t) = {} /\ SeenBy({u}) \subseteq Pos
        BY <1>1, <3>2, OneMore
      <3>4. QED
        BY <3>1, <3>3
    <2>2. ASSUME NEW p \in Mine(u) PROVE BlockOfPos(p) \in Mine(u)
      <3>1. MyBegin(u) \in Int /\ IsBlock(MyBegin(u)) /\ MyEnd(u) \in Int
        BY <1>1, Stripes
      <3>2. p \in Int /\ MyBegin(u) <= p /\ p < MyEnd(u)
        BY <3>1 DEF Mine
      <3>3. BlockOfPos(p) \in Int /\ BlockOfPos(p) <= p /\ MyBegin(u) <= BlockOfPos(p)
        BY <3>1, <3>2, InBlock
      <3>4. QED
        BY <3>1, <3>2, <3>3 DEF Mine
    <2>3. QED
      BY <1>1, <1>2, <1>4, <1>8, <2>1, <2>2
  <1>9. \A u \in Thread : pc'[u] = "classify" => \A p \in Mine(u) : a'[p] = Label(p)
    <2> SUFFICES ASSUME NEW u \in Thread, pc'[u] = "classify"
                 PROVE  \A p \in Mine(u) : a'[p] = Label(p)
      OBVIOUS
    <2>1. u # t
      BY <1>1, <1>2
    <2>2. QED
      BY <1>8, <2>1 DEF ClassInv
  <1>10. \A u \in Classified' : StripeDone(u)'
    <2> SUFFICES ASSUME NEW u \in C, u # t PROVE StripeDone(u)'
      BY <1>4, <1>5
    <2>1. StripeDone(u) /\ u \in Thread
      BY <1>5 DEF ClassInv
    <2>2. \A p : BlockOfPos(p)' = BlockOfPos(p) /\ \A q : IsBlock(q)' = IsBlock(q)
      BY DEF BlockOfPos, IsBlock
    <2>3. QED
      BY <1>3, <1>8, <2>1, <2>2 DEF StripeDone, Gone
  <1>11. Sums(Classified)'
    <2>1. SeenBy(Classified)' = S \cup M
      BY <1>3, <1>5, <1>6
    <2>2. DOMAIN bucketStart' = 0 .. NumBuckets'
      BY <1>2, <1>3 DEF AddSizes
    <2>3. ASSUME NEW i \in 0 .. NumBuckets
          PROVE  bucketStart'[i] = Cardinality({p \in S \cup M : Label(p) < i})
      <3> DEFINE A == {p \in S : Label(p) < i}
                 B == {p \in M : Label(p) < i}
      <3>1. bucketStart[i] = Cardinality(A)
        BY DEF ClassInv, Sums
      <3>2. bucketStart'[i] = bucketStart[i] + Cardinality({p \in M : a[p] < i})
        BY <1>2 DEF AddSizes
      <3>3. {p \in M : a[p] < i} = B
        BY <1>1
      <3>4. {p \in S \cup M : Label(p) < i} = A \cup B /\ A \cap B = {}
            /\ A \in SUBSET Pos /\ B \in SUBSET Pos
        BY <1>6
      <3>5. Cardinality(A \cup B) = Cardinality(A) + Cardinality(B)
        BY <1>7, <3>4, Cards
      <3>6. QED
        BY <3>1, <3>2, <3>3, <3>4, <3>5
    <2>5. ASSUME NEW c \in Bucket
          PROVE  Spare(SeenBy(Classified), c)'
      <3> DEFINE E1 == Blocks(S, c)
                 E2 == {p \in M : p % BlockSize = 0 /\ a'[p] = c}
                 L1 == Labelled(S, c)
                 L2 == Labelled(M, c)
      <3>1. E1 \in SUBSET Pos /\ E2 \in SUBSET Pos /\ L1 \in SUBSET Pos /\ L2 \in SUBSET Pos
            /\ E1 \cap E2 = {} /\ L1 \cap L2 = {}
        BY <1>6 DEF Blocks, Labelled
      <3>2. Blocks(SeenBy(Classified), c)' = E1 \cup E2
        <4>1. \A p \in S : a'[p] = a[p]
          BY <1>4, <1>6
        <4>2. QED
          BY <2>1, <4>1 DEF Blocks
      <3>3. Labelled(SeenBy(Classified), c)' = L1 \cup L2
        BY <1>3, <2>1 DEF Labelled
      <3>4. Spare(S, c) /\ Spare(Mine(t), c)'
        BY <1>4 DEF ClassInv, Sums
      <3>5. Blocks(Mine(t), c)' = E2 /\ Labelled(Mine(t), c)' = L2
        BY <1>3 DEF Blocks, Labelled
      <3>6. /\ E1 = {} \/ BlockSize * Cardinality(E1) < Cardinality(L1)
            /\ E2 = {} \/ BlockSize * Cardinality(E2) < Cardinality(L2)
        BY <3>4, <3>5 DEF Spare
      <3> HIDE DEF E1, E2, L1, L2
      <3> DEFINE e1 == Cardinality(E1)
                 e2 == Cardinality(E2)
                 l1 == Cardinality(L1)
                 l2 == Cardinality(L2)
      <3>7. /\ e1 \in Nat /\ e2 \in Nat /\ l1 \in Nat /\ l2 \in Nat
            /\ (E1 = {} => e1 = 0) /\ (E2 = {} => e2 = 0)
            /\ Cardinality(E1 \cup E2) = e1 + e2 /\ Cardinality(L1 \cup L2) = l1 + l2
        BY <1>7, <3>1, Cards
      <3>8. E1 \cup E2 = {} \/ BlockSize * Cardinality(E1 \cup E2) < Cardinality(L1 \cup L2)
        <4> HIDE DEF e1, e2, l1, l2
        <4>1. /\ BlockSize * (e1 + e2) = BlockSize * e1 + BlockSize * e2
              /\ BlockSize * e1 \in Nat /\ BlockSize * e2 \in Nat
              /\ (e1 = 0 => BlockSize * e1 = 0) /\ (e2 = 0 => BlockSize * e2 = 0)
          BY <3>7, Sizes
        <4>2. /\ E1 = {} \/ BlockSize * e1 < l1
              /\ E2 = {} \/ BlockSize * e2 < l2
          BY <3>6 DEF e1, e2, l1, l2
        <4>3. QED
          BY <3>7, <4>1, <4>2
      <3>9. QED
        BY <3>2, <3>3, <3>8 DEF Spare
    <2>6. QED
      BY <1>3, <2>1, <2>2, <2>3, <2>5 DEF Sums
  <1>12. /\ pc' \in [Thread' -> {"classify", "classified"}]
         /\ DOMAIN a' = Pos' /\ DOMAIN firstBlock' = Thread' /\ DOMAIN firstEmpty' = Thread'
    BY <1>1, <1>2, <1>3, <1>4
  <1>13. QED
    BY <1>1, <1>3, <1>9, <1>10, <1>11, <1>12 DEF ClassInv

(* It holds when nobody has classified anything.                           *)
LEMMA ClassInit == Init => ClassInv
  <1> SUFFICES ASSUME Init PROVE ClassInv
    OBVIOUS
  <1>1. GoodInput
    BY InputIsGood DEF Init
  <1>2. Classified = {} /\ SeenBy({}) = {}
    BY DEF Init, Classified, SeenBy
  <1>3. \A u \in Thread : \A p \in Mine(u) : a[p] = Label(p)
    <2>1. \A u \in Thread : Mine(u) \subseteq Pos
      BY <1>1, Stripes
    <2>2. QED
      BY <2>1 DEF Init, Label, Pos
  <1>4. Sums({})
    <2>1. \A i \in 0 .. NumBuckets : bucketStart[i] = Cardinality({p \in {} : Label(p) < i})
      <3>1. \A i : {p \in {} : Label(p) < i} = {}
        OBVIOUS
      <3>2. QED
        BY <3>1, FS_EmptySet DEF Init
    <2>2. \A c : Blocks({}, c) = {}
      BY DEF Blocks
    <2>3. QED
      BY <1>2, <2>1, <2>2 DEF Sums, Spare, Init
  <1>5. QED
    BY <1>1, <1>2, <1>3, <1>4 DEF ClassInv, Init, Pos

-----------------------------------------------------------------------------
(* What classification leaves                                              *)

(* What classification leaves behind for good.                             *)
Layout ==
    /\ GoodInput
    /\ \A u \in Thread :
         /\ firstBlock[u] = MyBegin(u)
         /\ IsBlock(firstEmpty[u]) /\ MyBegin(u) <= firstEmpty[u] /\ firstEmpty[u] <= MyEnd(u)
    /\ \A b, c \in 0 .. NumBuckets :
         b <= c => bucketStart[b] \in 0 .. N /\ bucketStart[b] <= bucketStart[c]
    /\ bucketStart[0] = 0 /\ bucketStart[NumBuckets] = N

(* The places in bucket b that classification filled, and the others; how  *)
(* many of these lie before x, and how many of those do not.               *)
Fulls(b) == Area(b) \cap FlushedBy(Thread)
Holes(b) == Area(b) \ FlushedBy(Thread)
HolesBefore(b, x) == Position(Holes(b), x)
FullsFrom(b, x) == Cardinality({p \in Fulls(b) : p >= x})

-----------------------------------------------------------------------------
(* The borders of the buckets, rounded up to blocks, come in order.        *)
LEMMA Borders ==
    ASSUME Layout
    PROVE  /\ \A b \in 0 .. NumBuckets : IsBlock(BlockStart(b)) /\ BlockStart(b) \in Nat
           /\ \A b, c \in 0 .. NumBuckets : b <= c => BlockStart(b) <= BlockStart(c)
           /\ BlockStart(0) = 0 /\ BlockStart(NumBuckets) >= N
           /\ \A b \in Bucket : b \in 0 .. NumBuckets /\ b + 1 \in 0 .. NumBuckets /\ b \in Int
           /\ NumBuckets \in Nat /\ NumBuckets > 0 /\ N \in Nat
  <1>1. NumBuckets \in Nat /\ NumBuckets > 0 /\ N \in Nat
    BY DEF Layout, GoodInput
  <1>2. \A b \in 0 .. NumBuckets : bucketStart[b] \in Nat
    <2>1. \A b \in 0 .. NumBuckets : b <= b
      BY <1>1
    <2>2. QED
      BY <2>1 DEF Layout
  <1>3. \A b \in 0 .. NumBuckets : IsBlock(BlockStart(b)) /\ BlockStart(b) \in Nat
    BY <1>2, AlignRight DEF BlockStart
  <1>4. \A b, c \in 0 .. NumBuckets : b <= c => BlockStart(b) <= BlockStart(c)
    BY <1>2, AlignMonotone DEF BlockStart, Layout
  <1>5. BlockStart(0) = 0
    <2>1. (0 + BlockSize - 1) \div BlockSize = 0 /\ BlockSize \in Nat
      BY Sizes, DivisionIs
    <2>2. QED
      BY <2>1 DEF BlockStart, Align, Layout
  <1>6. BlockStart(NumBuckets) >= N
    BY <1>1, AlignRight DEF BlockStart, Layout
  <1>7. \A b \in Bucket : b \in 0 .. NumBuckets /\ b + 1 \in 0 .. NumBuckets /\ b \in Int
    BY <1>1 DEF Bucket
  <1>8. QED
    BY <1>1, <1>3, <1>4, <1>5, <1>6, <1>7

(* The areas of two buckets have no place in common.                       *)
LEMMA OnePlaceOneArea ==
    ASSUME Layout, NEW b \in Bucket, NEW c \in Bucket, NEW p, p \in Area(b), p \in Area(c)
    PROVE  b = c
  <1>1. /\ b \in 0 .. NumBuckets /\ b + 1 \in 0 .. NumBuckets /\ b \in Int
        /\ c \in 0 .. NumBuckets /\ c + 1 \in 0 .. NumBuckets /\ c \in Int
        /\ BlockStart(b) \in Nat /\ BlockStart(b + 1) \in Nat
        /\ BlockStart(c) \in Nat /\ BlockStart(c + 1) \in Nat
        /\ (b + 1 <= c => BlockStart(b + 1) <= BlockStart(c))
        /\ (c + 1 <= b => BlockStart(c + 1) <= BlockStart(b))
    BY Borders
  <1>2. /\ p \in Int /\ BlockStart(b) <= p /\ p < BlockStart(b + 1)
        /\ BlockStart(c) <= p /\ p < BlockStart(c + 1)
    BY <1>1 DEF Area
  <1>3. QED
    BY <1>1, <1>2

(* Sums and differences of whole blocks.                                   *)
LEMMA BlockSum ==
    ASSUME NEW x, NEW y, IsBlock(x), IsBlock(y)
    PROVE  IsBlock(x + y) /\ IsBlock(x - y)
  <1> DEFINE i == x \div BlockSize
             j == y \div BlockSize
  <1>1. BlockSize \in Nat /\ BlockSize > 0 /\ x \in Int /\ y \in Int /\ i \in Int /\ j \in Int
    BY Sizes DEF IsBlock
  <1>2. x = BlockSize * i /\ y = BlockSize * j
    BY <1>1, Multiple DEF IsBlock
  <1> HIDE DEF i, j
  <1> DEFINE k == i + j
             l == i - j
  <1>3. x + y = BlockSize * k /\ x - y = BlockSize * l /\ k \in Int /\ l \in Int
    BY <1>1, <1>2
  <1> HIDE DEF k, l
  <1>4. QED
    BY <1>1, <1>3, IsMultiple DEF IsBlock

(* Which places classification filled.                                     *)
LEMMA FlushedPlaces ==
    ASSUME Layout
    PROVE  /\ \A u \in Thread : \A p \in Mine(u) : p \in FlushedBy(Thread) <=> p < firstEmpty[u]
           /\ FlushedBy(Thread) \subseteq Pos
           /\ \A u \in Thread : \A p : p \in FlushedBy(0 .. u - 1)
                                       <=> p \in FlushedBy(Thread) /\ p < MyBegin(u)
  <1>1. /\ GoodInput /\ T \in Nat
        /\ \A u \in Thread :
             /\ firstBlock[u] = MyBegin(u) /\ MyBegin(u) \in Nat /\ MyEnd(u) \in Nat
             /\ firstEmpty[u] \in Int /\ MyBegin(u) <= firstEmpty[u] /\ firstEmpty[u] <= MyEnd(u)
             /\ Mine(u) \subseteq Pos /\ u \in Int
        /\ \A t, u \in Thread : t < u => MyEnd(t) <= MyBegin(u)
    BY Stripes DEF Layout, IsBlock, Thread, GoodInput
  <1>2. \A u \in Thread : firstBlock[u] .. firstEmpty[u] - 1 \subseteq Mine(u)
    BY <1>1 DEF Mine
  <1>3. ASSUME NEW u \in Thread, NEW p \in Mine(u)
        PROVE  p \in FlushedBy(Thread) <=> p < firstEmpty[u]
    <2>1. p \in Int /\ MyBegin(u) <= p /\ p < MyEnd(u)
      BY <1>1 DEF Mine
    <2>2. ASSUME p < firstEmpty[u] PROVE p \in FlushedBy(Thread)
      <3>1. p \in firstBlock[u] .. firstEmpty[u] - 1
        BY <1>1, <2>1, <2>2
      <3>2. QED
        BY <3>1 DEF FlushedBy
    <2>3. ASSUME p \in FlushedBy(Thread) PROVE p < firstEmpty[u]
      <3>1. PICK v \in Thread : p \in firstBlock[v] .. firstEmpty[v] - 1
        BY <2>3 DEF FlushedBy
      <3>2. MyBegin(v) <= p /\ p < firstEmpty[v] /\ p < MyEnd(v)
        BY <1>1, <2>1, <3>1
      <3>3. /\ v \in Int /\ u \in Int /\ MyBegin(u) \in Int /\ MyEnd(u) \in Int
            /\ MyBegin(v) \in Int /\ MyEnd(v) \in Int
            /\ (u < v => MyEnd(u) <= MyBegin(v)) /\ (v < u => MyEnd(v) <= MyBegin(u))
        BY <1>1
      <3>4. v = u
        BY <2>1, <3>2, <3>3
      <3>5. QED
        BY <3>2, <3>4
    <2>4. QED
      BY <2>2, <2>3
  <1>4. FlushedBy(Thread) \subseteq Pos
    BY <1>1, <1>2 DEF FlushedBy
  <1>5. ASSUME NEW u \in Thread, NEW p
        PROVE  p \in FlushedBy(0 .. u - 1) <=> p \in FlushedBy(Thread) /\ p < MyBegin(u)
    <2>1. \A v \in 0 .. u - 1 : v \in Thread /\ v < u
      BY <1>1 DEF Thread
    <2>2. ASSUME p \in FlushedBy(0 .. u - 1)
          PROVE  p \in FlushedBy(Thread) /\ p < MyBegin(u)
      <3>1. PICK v \in 0 .. u - 1 : p \in firstBlock[v] .. firstEmpty[v] - 1
        BY <2>2 DEF FlushedBy
      <3>2. v \in Thread /\ v < u
        BY <2>1
      <3>3. p \in Mine(v) /\ MyEnd(v) <= MyBegin(u) /\ MyBegin(v) \in Int /\ MyEnd(v) \in Int
            /\ MyBegin(u) \in Int
        BY <1>1, <1>2, <3>1, <3>2
      <3>4. p < MyBegin(u)
        BY <3>3 DEF Mine
      <3>5. QED
        BY <3>1, <3>2, <3>4 DEF FlushedBy
    <2>3. ASSUME p \in FlushedBy(Thread), p < MyBegin(u)
          PROVE  p \in FlushedBy(0 .. u - 1)
      <3>1. PICK v \in Thread : p \in firstBlock[v] .. firstEmpty[v] - 1
        BY <2>3 DEF FlushedBy
      <3>2. p \in Int /\ MyBegin(v) <= p
        BY <1>1, <3>1
      <3>3. v < u
        <4>1. SUFFICES ASSUME ~(v < u) PROVE FALSE
          OBVIOUS
        <4>2. /\ v \in Int /\ u \in Int /\ MyBegin(u) \in Int /\ MyEnd(u) \in Int /\ MyBegin(v) \in Int
              /\ MyBegin(u) <= MyEnd(u) /\ (u < v => MyEnd(u) <= MyBegin(v))
          BY <1>1
        <4>3. QED
          BY <2>3, <3>2, <4>1, <4>2
      <3>4. v \in 0 .. u - 1
        BY <1>1, <3>3 DEF Thread
      <3>5. QED
        BY <3>1, <3>4 DEF FlushedBy
    <2>4. QED
      BY <2>2, <2>3
  <1>6. QED
    BY <1>3, <1>4, <1>5

(* Sets of places with their borders on borders of blocks.                 *)
LEMMA AreaSets ==
    ASSUME Layout, NEW b \in Bucket
    PROVE  /\ IsFiniteSet(Area(b)) /\ Area(b) \in SUBSET Int
           /\ Cardinality(Area(b)) = BlockStart(b + 1) - BlockStart(b)
           /\ Fulls(b) \in SUBSET Area(b) /\ Holes(b) \in SUBSET Area(b)
           /\ Fulls(b) \cap Holes(b) = {} /\ Area(b) = Fulls(b) \cup Holes(b)
           /\ Fulls(b) \subseteq Pos
           /\ \A p \in Area(b) : p \in Int /\ BlockStart(b) <= p /\ p < BlockStart(b + 1)
           /\ \A p \in Fulls(b) : \E u \in Thread :
                p \in Mine(u) /\ p < firstEmpty[u] /\ p \in Int /\ MyBegin(u) <= p
  <1>1. BlockStart(b) \in Nat /\ BlockStart(b + 1) \in Nat /\ BlockStart(b) <= BlockStart(b + 1)
    <2>1. b <= b + 1 /\ b \in 0 .. NumBuckets /\ b + 1 \in 0 .. NumBuckets
      BY Borders
    <2>2. QED
      BY <2>1, Borders
  <1>2. BlockStart(b + 1) - 1 \in Int
    BY <1>1
  <1>3. /\ IsFiniteSet(Area(b)) /\ Area(b) \in SUBSET Int
        /\ Cardinality(Area(b)) = BlockStart(b + 1) - BlockStart(b)
    <2> DEFINE s == BlockStart(b)
               e == BlockStart(b + 1)
    <2>1. s \in Int /\ e - 1 \in Int /\ s <= e /\ e \in Int
      BY <1>1
    <2> HIDE DEF s, e
    <2>2. /\ IsFiniteSet(s .. e - 1)
          /\ Cardinality(s .. e - 1) = IF s > e - 1 THEN 0 ELSE (e - 1) - s + 1
      BY <2>1, FS_Interval
    <2>3. Cardinality(s .. e - 1) = e - s
      BY <2>1, <2>2
    <2>4. Area(b) = s .. e - 1
      BY DEF Area, s, e
    <2>5. QED
      BY <2>1, <2>2, <2>3, <2>4 DEF s, e
  <1>4. /\ Fulls(b) \in SUBSET Area(b) /\ Holes(b) \in SUBSET Area(b)
        /\ Fulls(b) \cap Holes(b) = {} /\ Area(b) = Fulls(b) \cup Holes(b)
    BY DEF Fulls, Holes
  <1>5. \A p \in Area(b) : p \in Int /\ BlockStart(b) <= p /\ p < BlockStart(b + 1)
    BY <1>1 DEF Area
  <1>6. Fulls(b) \subseteq Pos
    BY FlushedPlaces DEF Fulls
  <1>7. ASSUME NEW p \in Fulls(b)
        PROVE  \E u \in Thread : p \in Mine(u) /\ p < firstEmpty[u] /\ p \in Int /\ MyBegin(u) <= p
    <2>1. p \in Pos /\ p \in FlushedBy(Thread) /\ GoodInput
      BY <1>6 DEF Fulls, Layout
    <2>2. PICK u \in Thread : p \in Mine(u)
      BY <2>1, Stripes
    <2>3. p < firstEmpty[u]
      BY <2>1, <2>2, FlushedPlaces
    <2>4. MyBegin(u) \in Int /\ MyEnd(u) \in Int
      BY <2>1, Stripes
    <2>5. p \in Int /\ MyBegin(u) <= p
      BY <2>2, <2>4 DEF Mine
    <2>6. QED
      BY <2>2, <2>3, <2>5
  <1>8. QED
    BY <1>3, <1>4, <1>5, <1>6, <1>7

(* The places of S between x and y.                                        *)
LEMMA Segment ==
    ASSUME NEW S \in SUBSET Int, IsFiniteSet(S), NEW x \in Int, NEW y \in Int, x <= y
    PROVE  \E k \in Nat :
           /\ Position(S, x) \in Nat /\ Position(S, y) = Position(S, x) + k
           /\ Cardinality({q \in S : q >= y}) \in Nat
           /\ Cardinality({q \in S : q >= x}) = Cardinality({q \in S : q >= y}) + k
           /\ (\A p \in x .. y - 1 : p \notin S) => k = 0
           /\ (\A p \in x .. y - 1 : p \in S) => k = y - x
           /\ \A p \in S : x <= p /\ p < y => k > 0
  <1> DEFINE M == S \cap (x .. y - 1)
             L(z) == {q \in S : q < z}
             G(z) == {q \in S : q >= z}
  <1>1. /\ L(x) \in SUBSET S /\ L(y) \in SUBSET S /\ G(x) \in SUBSET S /\ G(y) \in SUBSET S
        /\ M \in SUBSET S /\ \A q \in S : q \in Int
    OBVIOUS
  <1>2. L(y) = L(x) \cup M /\ L(x) \cap M = {}
    <2>1. \A q \in Int : q < y <=> q < x \/ q \in x .. y - 1
      OBVIOUS
    <2>2. \A q \in Int : ~(q < x /\ q \in x .. y - 1)
      OBVIOUS
    <2>3. QED
      BY <1>1, <2>1, <2>2
  <1>3. G(x) = G(y) \cup M /\ G(y) \cap M = {}
    <2>1. \A q \in Int : q >= x <=> q >= y \/ q \in x .. y - 1
      OBVIOUS
    <2>2. \A q \in Int : ~(q >= y /\ q \in x .. y - 1)
      OBVIOUS
    <2>3. QED
      BY <1>1, <2>1, <2>2
  <1>4. S = L(x) \cup G(x) /\ L(x) \cap G(x) = {}
    <2>1. \A q \in Int : (q < x \/ q >= x) /\ ~(q < x /\ q >= x)
      OBVIOUS
    <2>2. QED
      BY <1>1, <2>1
  <1>5. M = x .. y - 1 => Cardinality(M) = y - x
    <2>1. x \in Int /\ y - 1 \in Int
      OBVIOUS
    <2>2. Cardinality(x .. y - 1) = IF x > y - 1 THEN 0 ELSE (y - 1) - x + 1
      BY <2>1, FS_Interval
    <2>3. Cardinality(x .. y - 1) = y - x
      BY <2>2
    <2> HIDE DEF M
    <2>4. QED
      BY <2>3
  <1> HIDE DEF M, L, G
  <1>6. /\ Cardinality(L(x)) \in Nat /\ Cardinality(L(y)) \in Nat /\ Cardinality(M) \in Nat
        /\ Cardinality(G(x)) \in Nat /\ Cardinality(G(y)) \in Nat
        /\ Cardinality(L(y)) = Cardinality(L(x)) + Cardinality(M)
        /\ Cardinality(G(x)) = Cardinality(G(y)) + Cardinality(M)
        /\ Cardinality(S) = Cardinality(L(x)) + Cardinality(G(x))
        /\ (M = {} <=> Cardinality(M) = 0)
    BY <1>1, <1>2, <1>3, <1>4, Cards
  <1>7. /\ (\A p \in x .. y - 1 : p \notin S) => Cardinality(M) = 0
        /\ (\A p \in x .. y - 1 : p \in S) => Cardinality(M) = y - x
        /\ \A p \in S : x <= p /\ p < y => Cardinality(M) > 0
    <2>1. (\A p \in x .. y - 1 : p \notin S) => M = {}
      BY DEF M
    <2>2. (\A p \in x .. y - 1 : p \in S) => M = x .. y - 1
      BY DEF M
    <2>3. \A p \in S : x <= p /\ p < y => M # {}
      <3>1. \A p \in Int : x <= p /\ p < y => p \in x .. y - 1
        OBVIOUS
      <3>2. QED
        BY <1>1, <3>1 DEF M
    <2>4. M # {} => Cardinality(M) > 0
      BY <1>6
    <2>5. QED
      BY <1>5, <1>6, <2>1, <2>2, <2>3, <2>4
  <1>8. QED
    BY <1>6, <1>7 DEF L, G, Position

(* How the counts of holes and of full places change from place to place.  *)
LEMMA Counted ==
    ASSUME Layout, NEW b \in Bucket, NEW x \in Int, NEW y \in Int, x <= y
    PROVE  /\ HolesBefore(b, x) \in Nat /\ HolesBefore(b, y) \in Nat
           /\ FullsFrom(b, x) \in Nat /\ FullsFrom(b, y) \in Nat
           /\ HolesBefore(b, x) <= HolesBefore(b, y) /\ FullsFrom(b, y) <= FullsFrom(b, x)
           /\ (\A p \in x .. y - 1 : p \notin Holes(b)) => HolesBefore(b, x) = HolesBefore(b, y)
           /\ (\A p \in x .. y - 1 : p \in Holes(b)) => HolesBefore(b, y) = HolesBefore(b, x) + (y - x)
           /\ (\A p \in x .. y - 1 : p \notin Fulls(b)) => FullsFrom(b, x) = FullsFrom(b, y)
           /\ (\A p \in x .. y - 1 : p \in Fulls(b)) => FullsFrom(b, x) = FullsFrom(b, y) + (y - x)
           /\ \A p \in Holes(b) : x <= p /\ p < y => HolesBefore(b, x) < HolesBefore(b, y)
           /\ \A p \in Fulls(b) : x <= p /\ p < y => FullsFrom(b, y) < FullsFrom(b, x)
  <1>1. /\ Holes(b) \in SUBSET Int /\ IsFiniteSet(Holes(b))
        /\ Fulls(b) \in SUBSET Int /\ IsFiniteSet(Fulls(b))
    <2>1. Holes(b) \in SUBSET Area(b) /\ Fulls(b) \in SUBSET Area(b) /\ IsFiniteSet(Area(b))
          /\ Area(b) \in SUBSET Int
      BY AreaSets
    <2>2. QED
      BY <2>1, FS_Subset
  <1>2. PICK h \in Nat :
           /\ HolesBefore(b, x) \in Nat /\ HolesBefore(b, y) = HolesBefore(b, x) + h
           /\ (\A p \in x .. y - 1 : p \notin Holes(b)) => h = 0
           /\ (\A p \in x .. y - 1 : p \in Holes(b)) => h = y - x
           /\ \A p \in Holes(b) : x <= p /\ p < y => h > 0
    <2>1. \E k \in Nat :
             /\ Position(Holes(b), x) \in Nat /\ Position(Holes(b), y) = Position(Holes(b), x) + k
             /\ Cardinality({q \in Holes(b) : q >= y}) \in Nat
             /\ Cardinality({q \in Holes(b) : q >= x}) = Cardinality({q \in Holes(b) : q >= y}) + k
             /\ (\A p \in x .. y - 1 : p \notin Holes(b)) => k = 0
             /\ (\A p \in x .. y - 1 : p \in Holes(b)) => k = y - x
             /\ \A p \in Holes(b) : x <= p /\ p < y => k > 0
      BY <1>1, Segment
    <2>2. QED
      BY <2>1 DEF HolesBefore
  <1>3. PICK f \in Nat :
           /\ FullsFrom(b, y) \in Nat /\ FullsFrom(b, x) = FullsFrom(b, y) + f
           /\ (\A p \in x .. y - 1 : p \notin Fulls(b)) => f = 0
           /\ (\A p \in x .. y - 1 : p \in Fulls(b)) => f = y - x
           /\ \A p \in Fulls(b) : x <= p /\ p < y => f > 0
    <2>1. \E k \in Nat :
             /\ Position(Fulls(b), x) \in Nat /\ Position(Fulls(b), y) = Position(Fulls(b), x) + k
             /\ Cardinality({q \in Fulls(b) : q >= y}) \in Nat
             /\ Cardinality({q \in Fulls(b) : q >= x}) = Cardinality({q \in Fulls(b) : q >= y}) + k
             /\ (\A p \in x .. y - 1 : p \notin Fulls(b)) => k = 0
             /\ (\A p \in x .. y - 1 : p \in Fulls(b)) => k = y - x
             /\ \A p \in Fulls(b) : x <= p /\ p < y => k > 0
      BY <1>1, Segment
    <2>2. QED
      BY <2>1 DEF FullsFrom
  <1>4. QED
    BY <1>2, <1>3

(* As many holes lie before the first empty block a bucket will have as    *)
(* full places lie behind it.                                              *)
LEMMA Balance ==
    ASSUME Layout, NEW b \in Bucket
    PROVE  /\ FirstEmptyInBucket(b) = BlockStart(b) + Cardinality(Fulls(b))
           /\ FirstEmptyInBucket(b) \in Int
           /\ BlockStart(b) <= FirstEmptyInBucket(b) /\ FirstEmptyInBucket(b) <= BlockStart(b + 1)
           /\ HolesBefore(b, FirstEmptyInBucket(b)) = FullsFrom(b, FirstEmptyInBucket(b))
  <1> DEFINE S == BlockStart(b)
             X == FirstEmptyInBucket(b)
             n == Cardinality(Fulls(b))
  <1>1. /\ S \in Nat /\ BlockStart(b + 1) \in Nat /\ S <= BlockStart(b + 1)
    <2>1. b <= b + 1 /\ b \in 0 .. NumBuckets /\ b + 1 \in 0 .. NumBuckets
      BY Borders
    <2>2. QED
      BY <2>1, Borders
  <1>2. X = S + n
    BY DEF FirstEmptyInBucket, FlushedIn, Fulls
  <1>3. /\ IsFiniteSet(Area(b)) /\ Area(b) \in SUBSET Int
        /\ Cardinality(Area(b)) = BlockStart(b + 1) - S
        /\ Fulls(b) \in SUBSET Area(b) /\ Holes(b) \in SUBSET Area(b)
        /\ Fulls(b) \cap Holes(b) = {} /\ Area(b) = Fulls(b) \cup Holes(b)
        /\ \A p \in Area(b) : p \in Int /\ S <= p /\ p < BlockStart(b + 1)
    BY AreaSets
  <1>4. n \in Nat /\ n <= BlockStart(b + 1) - S
    BY <1>3, Cards
  <1>5. X \in Int /\ S <= X /\ X <= BlockStart(b + 1)
    BY <1>1, <1>2, <1>4
  <1>6. HolesBefore(b, X) = FullsFrom(b, X)
    <2> DEFINE H == {p \in Holes(b) : p < X}
               F == {p \in Fulls(b) : p < X}
               G == {p \in Fulls(b) : p >= X}
    <2>1. /\ H \in SUBSET Area(b) /\ F \in SUBSET Area(b) /\ G \in SUBSET Area(b)
          /\ H \cap F = {} /\ F \cap G = {} /\ Fulls(b) = F \cup G
      <3>1. \A p \in Int : (p < X \/ p >= X) /\ ~(p < X /\ p >= X)
        BY <1>5
      <3> HIDE DEF X
      <3>2. QED
        BY <1>3, <3>1
    <2>2. H \cup F = S .. X - 1
      <3>1. \A p \in Int : p \in S .. X - 1 <=> S <= p /\ p < X
        BY <1>1, <1>5
      <3>2. \A p \in Int : p < X => p < BlockStart(b + 1)
        BY <1>1, <1>5
      <3>3. \A p \in S .. X - 1 : p \in Area(b) /\ p < X
        BY <1>1, <1>5, <3>1, <3>2 DEF Area
      <3>4. \A p \in H \cup F : p \in S .. X - 1
        BY <1>3, <2>1, <3>1
      <3> HIDE DEF X, S
      <3>5. QED
        BY <1>3, <3>3, <3>4
    <2>3. Cardinality(S .. X - 1) = X - S
      <3>1. S \in Int /\ X - 1 \in Int
        BY <1>1, <1>5
      <3> HIDE DEF X, S
      <3>2. Cardinality(S .. X - 1) = IF S > X - 1 THEN 0 ELSE (X - 1) - S + 1
        BY <3>1, FS_Interval
      <3>3. QED
        BY <1>5, <3>1, <3>2
    <2> HIDE DEF H, F, G
    <2>4. /\ Cardinality(H \cup F) = Cardinality(H) + Cardinality(F)
          /\ n = Cardinality(F) + Cardinality(G)
          /\ Cardinality(H) \in Nat /\ Cardinality(F) \in Nat /\ Cardinality(G) \in Nat
      BY <1>3, <2>1, Cards
    <2>5. Cardinality(H) = Cardinality(G)
      <3>1. Cardinality(H) + Cardinality(F) = X - S
        <4> HIDE DEF X, S, n
        <4>1. QED
          BY <2>2, <2>3, <2>4
      <3>2. X - S = n
        <4>1. X = S + n /\ S \in Int /\ n \in Int
          BY <1>1, <1>2, <1>4
        <4> HIDE DEF X, S, n
        <4>2. QED
          BY <4>1
      <3> HIDE DEF X, S, n
      <3>3. QED
        BY <2>4, <3>1, <3>2
    <2>6. QED
      BY <2>5 DEF H, G, HolesBefore, FullsFrom, Position
  <1>7. QED
    BY <1>2, <1>5, <1>6

(* Borders of blocks cut both kinds of places into whole blocks.           *)
LEMMA WholeBlocks ==
    ASSUME Layout, NEW b \in Bucket
    PROVE  /\ \A x : IsBlock(x) => HolesBefore(b, x) % BlockSize = 0
           /\ IsBlock(FirstEmptyInBucket(b))
  <1>1. /\ IsFiniteSet(Area(b)) /\ Area(b) \in SUBSET Int
        /\ Fulls(b) \in SUBSET Area(b) /\ Holes(b) \in SUBSET Area(b)
        /\ \A p \in Area(b) : p \in Int /\ BlockStart(b) <= p /\ p < BlockStart(b + 1)
    BY AreaSets
  <1>2. /\ BlockSize \in Nat /\ BlockSize > 0
        /\ BlockStart(b) \in Nat /\ BlockStart(b + 1) \in Nat
        /\ IsBlock(BlockStart(b)) /\ IsBlock(BlockStart(b + 1))
    BY Borders, Sizes
  <1>3. ASSUME NEW p \in Area(b), NEW q \in Places(BlockOfPos(p))
        PROVE  /\ q \in Area(b) /\ q \in Int
               /\ \A x \in Int : IsBlock(x) /\ p < x => q < x
               /\ \A x \in Int : IsBlock(x) /\ x <= p => x <= q
    <2> DEFINE e == BlockOfPos(p)
    <2>1. p \in Int /\ BlockStart(b) <= p /\ p < BlockStart(b + 1)
      BY <1>1
    <2>2. /\ e \in Int
          /\ \A x \in Int : IsBlock(x) /\ x <= p => x <= e
          /\ \A x \in Int : IsBlock(x) /\ p < x => e + BlockSize <= x
      BY <2>1, InBlock
    <2> HIDE DEF e
    <2>3. q \in Int /\ e <= q /\ q < e + BlockSize
      BY <1>2, <2>2 DEF Places, e
    <2>4. /\ \A x \in Int : IsBlock(x) /\ p < x => q < x
          /\ \A x \in Int : IsBlock(x) /\ x <= p => x <= q
      BY <1>2, <2>2, <2>3
    <2>5. BlockStart(b) <= q /\ q < BlockStart(b + 1)
      BY <1>2, <2>1, <2>4
    <2>6. QED
      BY <1>2, <2>3, <2>4, <2>5 DEF Area
  <1>4. ASSUME NEW p \in Area(b), NEW q \in Places(BlockOfPos(p))
        PROVE  p \in FlushedBy(Thread) <=> q \in FlushedBy(Thread)
    <2>1. /\ \A u \in Thread : /\ firstBlock[u] = MyBegin(u) /\ IsBlock(firstEmpty[u])
                               /\ IsBlock(MyBegin(u))
      BY Stripes DEF Layout
    <2>2. \A u \in Thread : firstBlock[u] \in Int /\ firstEmpty[u] \in Int
      BY <2>1 DEF IsBlock
    <2>3. p \in Int /\ q \in Int
      BY <1>1, <1>3
    <2>4. /\ \A x \in Int : IsBlock(x) /\ p < x => q < x
          /\ \A x \in Int : IsBlock(x) /\ x <= p => x <= q
      BY <1>3
    <2>5. \A u \in Thread : p \in firstBlock[u] .. firstEmpty[u] - 1
                           <=> q \in firstBlock[u] .. firstEmpty[u] - 1
      <3> SUFFICES ASSUME NEW u \in Thread
                   PROVE  p \in firstBlock[u] .. firstEmpty[u] - 1
                          <=> q \in firstBlock[u] .. firstEmpty[u] - 1
        OBVIOUS
      <3>1. firstBlock[u] \in Int /\ firstEmpty[u] \in Int
            /\ IsBlock(firstBlock[u]) /\ IsBlock(firstEmpty[u])
        BY <2>1, <2>2
      <3>2. /\ p < firstEmpty[u] => q < firstEmpty[u]
            /\ firstBlock[u] <= p => firstBlock[u] <= q
            /\ ~(p < firstEmpty[u]) => ~(q < firstEmpty[u])
            /\ ~(firstBlock[u] <= p) => ~(firstBlock[u] <= q)
        BY <2>3, <2>4, <3>1
      <3>3. QED
        BY <2>3, <3>1, <3>2
    <2>6. QED
      BY <2>5 DEF FlushedBy
  <1>5. ASSUME NEW x, IsBlock(x) PROVE HolesBefore(b, x) % BlockSize = 0
    <2> DEFINE H == {p \in Holes(b) : p < x}
    <2>1. H \in SUBSET Area(b) /\ H \in SUBSET Int /\ IsFiniteSet(H) /\ x \in Int
      <3>1. H \in SUBSET Area(b) /\ H \in SUBSET Int /\ x \in Int
        BY <1>1, <1>5 DEF IsBlock
      <3>2. QED
        BY <1>1, <3>1, FS_Subset
    <2>2. \A p \in H : Places(BlockOfPos(p)) \subseteq H
      <3> SUFFICES ASSUME NEW p \in H, NEW q \in Places(BlockOfPos(p)) PROVE q \in H
        OBVIOUS
      <3>1. p \in Area(b) /\ p \notin FlushedBy(Thread) /\ p < x
        BY <2>1 DEF Holes
      <3>2. q \in Area(b) /\ q \notin FlushedBy(Thread) /\ q < x
        BY <1>3, <1>4, <1>5, <2>1, <3>1
      <3>3. QED
        BY <3>2 DEF Holes
    <2> HIDE DEF H
    <2>3. Cardinality(H) % BlockSize = 0
      BY <2>1, <2>2, Blockwise
    <2>4. QED
      BY <2>3 DEF H, HolesBefore, Position
  <1>6. IsBlock(FirstEmptyInBucket(b))
    <2>1. Fulls(b) \in SUBSET Int /\ IsFiniteSet(Fulls(b))
      BY <1>1, FS_Subset
    <2>2. \A p \in Fulls(b) : Places(BlockOfPos(p)) \subseteq Fulls(b)
      <3> SUFFICES ASSUME NEW p \in Fulls(b), NEW q \in Places(BlockOfPos(p)) PROVE q \in Fulls(b)
        OBVIOUS
      <3>1. p \in Area(b) /\ p \in FlushedBy(Thread)
        BY DEF Fulls
      <3>2. q \in Area(b) /\ q \in FlushedBy(Thread)
        BY <1>3, <1>4, <3>1
      <3>3. QED
        BY <3>2 DEF Fulls
    <2> DEFINE n == Cardinality(Fulls(b))
    <2>3. n % BlockSize = 0 /\ n \in Nat
      BY <2>1, <2>2, Blockwise, FS_CardinalityType
    <2>4. FirstEmptyInBucket(b) = BlockStart(b) + n
      BY Balance
    <2> HIDE DEF n
    <2>5. IsBlock(BlockStart(b) + n)
      BY <1>2, <2>3, BlockSum DEF IsBlock
    <2>6. QED
      BY <2>4, <2>5
  <1>7. QED
    BY <1>5, <1>6

(* What a thread counts as reserved is what the holes of the bucket        *)
(* before the thread's own stripe will take.                               *)
LEMMA ReservedIs ==
    ASSUME Layout, NEW t \in Thread, NEW b \in Bucket, MyBegin(t) <= BlockStart(b + 1)
    PROVE  Reserved(t, b) = HolesBefore(b, MyBegin(t))
  <1> DEFINE S == BlockStart(b)
             x == MyBegin(t)
             H == {p \in Holes(b) : p < x}
  <1>1. S \in Nat /\ BlockStart(b + 1) \in Nat /\ x \in Nat
    BY Borders, Stripes DEF Layout
  <1>2. /\ IsFiniteSet(Area(b)) /\ Area(b) \in SUBSET Int
        /\ Fulls(b) \in SUBSET Area(b) /\ Holes(b) \in SUBSET Area(b)
        /\ Fulls(b) \cap Holes(b) = {} /\ Area(b) = Fulls(b) \cup Holes(b)
        /\ \A p \in Area(b) : p \in Int /\ S <= p /\ p < BlockStart(b + 1)
    BY AreaSets
  <1>3. HolesBefore(b, x) = Cardinality(H)
    BY DEF HolesBefore, Position
  <1>4. CASE x > S
    <2> DEFINE F == Area(b) \cap FlushedBy(0 .. t - 1)
    <2>1. F = {p \in Fulls(b) : p < x}
      BY FlushedPlaces DEF Fulls
    <2>2. F \in SUBSET Area(b) /\ H \in SUBSET Area(b) /\ F \cap H = {}
      BY <1>2, <2>1
    <2>3. F \cup H = S .. x - 1
      <3>1. \A p \in S .. x - 1 : p \in Area(b) /\ p < x
        BY <1>1 DEF Area
      <3>2. \A p \in F \cup H : p \in S .. x - 1
        <4>1. \A p \in Int : S <= p /\ p < x => p \in S .. x - 1
          BY <1>1
        <4> HIDE DEF x, S
        <4>2. QED
          BY <1>2, <2>1, <2>2, <4>1
      <3> HIDE DEF x, S
      <3>3. QED
        BY <1>2, <2>1, <3>1, <3>2
    <2>4. Cardinality(S .. x - 1) = x - S
      <3>1. S \in Int /\ x - 1 \in Int
        BY <1>1
      <3> HIDE DEF x, S
      <3>2. Cardinality(S .. x - 1) = IF S > x - 1 THEN 0 ELSE (x - 1) - S + 1
        BY <3>1, FS_Interval
      <3>3. QED
        BY <1>1, <1>4, <3>1, <3>2
    <2> HIDE DEF F, H
    <2>5. Cardinality(F \cup H) = Cardinality(F) + Cardinality(H)
          /\ Cardinality(F) \in Nat /\ Cardinality(H) \in Nat
      BY <1>2, <2>2, Cards
    <2>6. Reserved(t, b) = x - S - Cardinality(F)
      BY <1>4 DEF Reserved, FlushedIn, F
    <2> HIDE DEF x, S
    <2>7. Cardinality(F) + Cardinality(H) = x - S
      BY <2>3, <2>4, <2>5
    <2>8. QED
      BY <1>1, <1>3, <2>5, <2>6, <2>7 DEF x
  <1>5. CASE ~(x > S)
    <2>1. H = {}
      BY <1>1, <1>2, <1>5
    <2>2. Reserved(t, b) = 0
      BY <1>5 DEF Reserved
    <2>3. QED
      BY <1>3, <2>1, <2>2, FS_EmptySet
  <1>6. QED
    BY <1>4, <1>5

-----------------------------------------------------------------------------
(* Ranges of buckets and the holes of a thread                             *)

(* The bucket into whose holes thread t moves blocks, and these holes.     *)
MoveBucket(t) == RangeEnd(t) - 1
FillFrom(t) == Max({firstEmpty[t], BlockStart(MoveBucket(t))})
FillTo(t) == Min({FirstEmptyInBucket(MoveBucket(t)), MyEnd(t)})

-----------------------------------------------------------------------------
(* The buckets a thread looks at are those that begin in its stripe.       *)
LEMMA Ranges ==
    ASSUME Layout, NEW t \in Thread
    PROVE  /\ RangeStart(t) \in 0 .. NumBuckets
           /\ \A b \in 0 .. NumBuckets : RangeStart(t) <= b <=> MyBegin(t) <= BlockStart(b)
           /\ RangeEnd(t) \in 1 .. NumBuckets /\ RangeStart(t) <= RangeEnd(t)
           /\ t = T - 1 => RangeEnd(t) = NumBuckets
           /\ t # T - 1 => \A b \in 0 .. NumBuckets : RangeEnd(t) <= b <=> MyEnd(t) <= BlockStart(b)
           /\ MoveBucket(t) \in Bucket
  <1>1. /\ \A b \in 0 .. NumBuckets : BlockStart(b) \in Nat
        /\ \A b, c \in 0 .. NumBuckets : b <= c => BlockStart(b) <= BlockStart(c)
        /\ BlockStart(0) = 0 /\ BlockStart(NumBuckets) >= N
        /\ NumBuckets \in Nat /\ NumBuckets > 0 /\ N \in Nat
    BY Borders
  <1>2. /\ MyBegin(t) \in Nat /\ MyEnd(t) \in Nat /\ MyBegin(t) < MyEnd(t) /\ MyEnd(t) <= N
    BY Stripes DEF Layout
  <1> DEFINE R == {b \in 0 .. NumBuckets : BlockStart(b) >= MyBegin(t)}
  <1>3. RangeStart(t) \in R /\ \A b \in R : RangeStart(t) <= b
    <2>1. NumBuckets \in R
      BY <1>1, <1>2
    <2>2. R \in SUBSET Int /\ IsFiniteSet(R)
      <3>1. R \in SUBSET (0 .. NumBuckets) /\ 0 .. NumBuckets \in SUBSET Int
        BY <1>1
      <3>2. IsFiniteSet(0 .. NumBuckets)
        BY <1>1, FS_Interval
      <3>3. QED
        BY <3>1, <3>2, FS_Subset
    <2>3. RangeStart(t) = Min(R)
      BY DEF RangeStart
    <2> HIDE DEF R
    <2>4. QED
      BY <2>1, <2>2, <2>3, MaxMin
  <1>4. RangeStart(t) \in 0 .. NumBuckets
    BY <1>3
  <1>5. \A b \in 0 .. NumBuckets : RangeStart(t) <= b <=> MyBegin(t) <= BlockStart(b)
    <2> SUFFICES ASSUME NEW b \in 0 .. NumBuckets
                 PROVE  RangeStart(t) <= b <=> MyBegin(t) <= BlockStart(b)
      OBVIOUS
    <2>1. BlockStart(RangeStart(t)) >= MyBegin(t) /\ BlockStart(RangeStart(t)) \in Nat
      BY <1>1, <1>3
    <2>2. RangeStart(t) <= b => BlockStart(RangeStart(t)) <= BlockStart(b)
      BY <1>1, <1>4
    <2>3. BlockStart(b) \in Nat /\ (MyBegin(t) <= BlockStart(b) => b \in R)
      BY <1>1, <1>2
    <2>4. QED
      BY <1>2, <1>3, <2>1, <2>2, <2>3
  <1>6. CASE t = T - 1
    <2>1. RangeEnd(t) = NumBuckets
      BY <1>6 DEF RangeEnd
    <2>2. MoveBucket(t) \in Bucket
      BY <1>1, <2>1 DEF MoveBucket, Bucket
    <2>3. QED
      BY <1>1, <1>4, <1>5, <1>6, <2>1, <2>2
  <1>7. CASE t # T - 1
    <2> DEFINE E == {b \in RangeStart(t) .. NumBuckets : b = NumBuckets \/ BlockStart(b) >= MyEnd(t)}
    <2>1. RangeEnd(t) \in E /\ \A b \in E : RangeEnd(t) <= b
      <3>1. NumBuckets \in E
        BY <1>1, <1>4
      <3>2. E \in SUBSET Int /\ IsFiniteSet(E)
        <4>1. E \in SUBSET (RangeStart(t) .. NumBuckets) /\ RangeStart(t) .. NumBuckets \in SUBSET Int
          BY <1>1
        <4>2. IsFiniteSet(RangeStart(t) .. NumBuckets)
          BY <1>1, <1>4, FS_Interval
        <4>3. QED
          BY <4>1, <4>2, FS_Subset
      <3>3. RangeEnd(t) = Min(E)
        BY <1>7 DEF RangeEnd
      <3> HIDE DEF E
      <3>4. QED
        BY <3>1, <3>2, <3>3, MaxMin
    <2>2. RangeEnd(t) \in 0 .. NumBuckets /\ RangeStart(t) <= RangeEnd(t)
      BY <1>1, <1>4, <2>1
    <2>3. BlockStart(RangeEnd(t)) >= MyEnd(t) /\ BlockStart(RangeEnd(t)) \in Nat
      <3>1. RangeEnd(t) = NumBuckets => BlockStart(RangeEnd(t)) >= MyEnd(t)
        BY <1>1, <1>2
      <3>2. QED
        BY <1>1, <2>1, <2>2, <3>1
    <2>4. \A b \in 0 .. NumBuckets : RangeEnd(t) <= b <=> MyEnd(t) <= BlockStart(b)
      <3> SUFFICES ASSUME NEW b \in 0 .. NumBuckets
                   PROVE  RangeEnd(t) <= b <=> MyEnd(t) <= BlockStart(b)
        OBVIOUS
      <3>1. BlockStart(b) \in Nat
        BY <1>1
      <3>2. RangeEnd(t) <= b => BlockStart(RangeEnd(t)) <= BlockStart(b)
        BY <1>1, <2>2
      <3>3. MyEnd(t) <= BlockStart(b) => b \in E
        <4>1. SUFFICES ASSUME MyEnd(t) <= BlockStart(b) PROVE b \in E
          OBVIOUS
        <4>2. RangeStart(t) <= b
          BY <1>2, <1>5, <3>1, <4>1
        <4>3. QED
          BY <1>1, <1>2, <1>4, <3>1, <4>1, <4>2
      <3>4. QED
        BY <1>2, <2>1, <2>3, <3>1, <3>2, <3>3
    <2>5. RangeEnd(t) # 0
      BY <1>1, <1>2, <2>3
    <2>6. RangeEnd(t) \in 1 .. NumBuckets
      BY <2>2, <2>5
    <2>7. MoveBucket(t) \in Bucket
      BY <1>1, <2>6 DEF MoveBucket, Bucket
    <2>8. QED
      BY <1>4, <1>5, <1>7, <2>2, <2>4, <2>6, <2>7
  <1>8. QED
    BY <1>6, <1>7

(* The holes that thread t fills lie in its stripe, those of its bucket    *)
(* before them are for threads to the left, and there are enough full      *)
(* blocks behind its stripe.                                               *)
LEMMA FillRange ==
    ASSUME Layout, NEW t \in Thread, Overlaps(t), NEW b, b = MoveBucket(t)
    PROVE  /\ b \in Bucket /\ MyEnd(t) < BlockStart(b + 1)
           /\ FillFrom(t) \in Int /\ FillTo(t) \in Int /\ IsBlock(FillFrom(t))
           /\ firstEmpty[t] <= FillFrom(t) /\ BlockStart(b) <= FillFrom(t)
           /\ MyBegin(t) <= FillFrom(t)
           /\ FillTo(t) <= MyEnd(t) /\ FillTo(t) <= FirstEmptyInBucket(b)
           /\ HolesBefore(b, FillFrom(t)) = HolesBefore(b, MyBegin(t))
           /\ Reserved(t, b) = HolesBefore(b, FillFrom(t))
           /\ FillFrom(t) < FillTo(t) =>
                /\ t # T - 1 /\ t + 1 \in Thread /\ IsBlock(FillTo(t)) /\ BlockStart(b) < MyEnd(t)
                /\ \A p \in FillFrom(t) .. FillTo(t) - 1 : p \in Holes(b) /\ p \in Mine(t)
                /\ \A y \in Int : FillFrom(t) <= y /\ y < FillTo(t) =>
                     HolesBefore(b, y) < FullsFrom(b, MyBegin(t + 1))
  <1> DEFINE S == BlockStart(b)
             E == BlockStart(b + 1)
             X == FirstEmptyInBucket(b)
             f == firstEmpty[t]
  <1>1. /\ b \in Bucket /\ RangeEnd(t) = b + 1
        /\ RangeEnd(t) \in 1 .. NumBuckets
        /\ t = T - 1 => RangeEnd(t) = NumBuckets
        /\ t # T - 1 => \A c \in 0 .. NumBuckets : RangeEnd(t) <= c <=> MyEnd(t) <= BlockStart(c)
    BY Ranges DEF MoveBucket
  <1>2. /\ S \in Nat /\ E \in Nat /\ IsBlock(S) /\ IsBlock(E) /\ S <= E
        /\ b \in 0 .. NumBuckets /\ b \in Int
    <2>1. b <= b + 1 /\ b \in 0 .. NumBuckets /\ b + 1 \in 0 .. NumBuckets /\ b \in Int
      BY <1>1, Borders
    <2>2. QED
      BY <2>1, Borders
  <1>3. MyEnd(t) < E
    BY <1>1, <1>2 DEF Overlaps
  <1>4. /\ MyBegin(t) \in Nat /\ MyEnd(t) \in Nat /\ MyBegin(t) < MyEnd(t) /\ MyEnd(t) <= N
        /\ t = T - 1 => MyEnd(t) = N
        /\ t # T - 1 => t + 1 \in Thread /\ MyEnd(t) = MyBegin(t + 1) /\ IsBlock(MyBegin(t + 1))
        /\ f \in Int /\ IsBlock(f) /\ MyBegin(t) <= f /\ f <= MyEnd(t)
        /\ N \in Nat /\ IsBlock(MyBegin(t)) /\ t \in Int /\ T \in Int
    <2>1. GoodInput /\ IsBlock(f) /\ MyBegin(t) <= f /\ f <= MyEnd(t)
      BY DEF Layout
    <2>2. QED
      BY <2>1, Stripes DEF IsBlock, GoodInput, Thread
  <1>5. X \in Int /\ S <= X /\ X <= E /\ IsBlock(X) /\ HolesBefore(b, X) = FullsFrom(b, X)
    BY <1>1, Balance, WholeBlocks
  <1>6. /\ FillFrom(t) = IF f >= S THEN f ELSE S
        /\ FillTo(t) = IF X <= MyEnd(t) THEN X ELSE MyEnd(t)
    <2>1. FillFrom(t) = Max({f, S}) /\ FillTo(t) = Min({X, MyEnd(t)})
      BY DEF FillFrom, FillTo
    <2>2. f \in Int /\ S \in Int /\ X \in Int /\ MyEnd(t) \in Int
      BY <1>2, <1>4, <1>5
    <2> HIDE DEF f, S, X
    <2>3. Max({f, S}) = (IF f >= S THEN f ELSE S)
      BY <2>2, MaxMinOfTwo
    <2>4. Min({X, MyEnd(t)}) = (IF X <= MyEnd(t) THEN X ELSE MyEnd(t))
      BY <2>2, MaxMinOfTwo
    <2>5. QED
      BY <2>1, <2>3, <2>4
  <1> HIDE DEF f, S, E, X
  <1>7. /\ FillFrom(t) \in Int /\ FillTo(t) \in Int /\ IsBlock(FillFrom(t))
        /\ f <= FillFrom(t) /\ S <= FillFrom(t)
        /\ MyBegin(t) <= FillFrom(t)
        /\ FillTo(t) <= MyEnd(t) /\ FillTo(t) <= X
    BY <1>2, <1>4, <1>5, <1>6
  <1>8. /\ \A p \in Area(b) : p \in Int /\ S <= p /\ p < E
        /\ \A p \in Holes(b) : p \in Area(b) /\ p \notin FlushedBy(Thread)
        /\ \A p \in Fulls(b) : p \in Area(b) /\ p \in FlushedBy(Thread) /\ p \in Pos
    BY <1>1, AreaSets DEF S, E, Holes, Fulls
  <1>9. /\ \A p \in Mine(t) : p \in FlushedBy(Thread) <=> p < f
        /\ \A p \in Int : p \in Mine(t) <=> MyBegin(t) <= p /\ p < MyEnd(t)
    BY <1>4, FlushedPlaces DEF f, Mine
  <1>10. HolesBefore(b, FillFrom(t)) = HolesBefore(b, MyBegin(t))
    <2>1. \A p \in MyBegin(t) .. FillFrom(t) - 1 : p \notin Holes(b)
      <3> SUFFICES ASSUME NEW p \in MyBegin(t) .. FillFrom(t) - 1, p \in Holes(b) PROVE FALSE
        OBVIOUS
      <3>1. p \in Int /\ MyBegin(t) <= p /\ p < FillFrom(t) /\ S <= p /\ p \notin FlushedBy(Thread)
        BY <1>4, <1>7, <1>8
      <3>2. p < f
        BY <1>2, <1>4, <1>6, <3>1
      <3>3. p \in Mine(t)
        BY <1>4, <1>9, <3>1, <3>2
      <3>4. QED
        BY <1>9, <3>1, <3>2, <3>3
    <2>2. QED
      BY <1>1, <1>4, <1>7, <2>1, Counted
  <1>11. Reserved(t, b) = HolesBefore(b, FillFrom(t))
    <2>1. MyBegin(t) <= BlockStart(b + 1)
      BY <1>2, <1>3, <1>4 DEF E
    <2>2. QED
      BY <1>1, <1>10, <2>1, ReservedIs
  <1>12. ASSUME FillFrom(t) < FillTo(t)
         PROVE  /\ t # T - 1 /\ t + 1 \in Thread /\ IsBlock(FillTo(t)) /\ S < MyEnd(t)
                /\ \A p \in FillFrom(t) .. FillTo(t) - 1 : p \in Holes(b) /\ p \in Mine(t)
                /\ \A y \in Int : FillFrom(t) <= y /\ y < FillTo(t) =>
                     HolesBefore(b, y) < FullsFrom(b, MyBegin(t + 1))
    <2>1. \A p \in FillFrom(t) .. FillTo(t) - 1 : p \in Holes(b) /\ p \in Mine(t)
      <3> SUFFICES ASSUME NEW p \in FillFrom(t) .. FillTo(t) - 1
                   PROVE  p \in Holes(b) /\ p \in Mine(t)
        OBVIOUS
      <3>1. p \in Int /\ FillFrom(t) <= p /\ p < FillTo(t)
        BY <1>7
      <3>2. p \in Mine(t) /\ ~(p < f)
        BY <1>4, <1>7, <1>9, <3>1
      <3>3. p \notin FlushedBy(Thread)
        BY <1>9, <3>2
      <3>4. p \in Area(b)
        <4>1. S <= p /\ p < E
          BY <1>2, <1>5, <1>7, <3>1
        <4>2. QED
          BY <1>2, <3>1, <4>1 DEF Area, S, E
      <3>5. QED
        BY <3>2, <3>3, <3>4 DEF Holes
    <2>2. ASSUME NEW y \in Int, FillFrom(t) <= y, y < FillTo(t)
          PROVE  HolesBefore(b, y) < FullsFrom(b, X)
      <3>1. y \in Holes(b)
        BY <1>7, <2>1, <2>2
      <3>2. y <= X /\ y < X
        BY <1>5, <1>7, <2>2
      <3>3. HolesBefore(b, y) < HolesBefore(b, X)
        BY <1>1, <1>5, <3>1, <3>2, Counted
      <3>4. QED
        BY <1>5, <3>3
    <2>3. \A q \in Fulls(b) : q >= X => q >= MyEnd(t)
      <3> SUFFICES ASSUME NEW q \in Fulls(b), q >= X, q < MyEnd(t) PROVE FALSE
        BY <1>4, <1>8
      <3>1. q \in Int /\ q \in FlushedBy(Thread)
        BY <1>8
      <3>2. MyBegin(t) <= q /\ ~(q < f)
        BY <1>4, <1>5, <1>7, <1>12, <3>1
      <3>3. q \in Mine(t)
        BY <1>9, <3>1, <3>2
      <3>4. QED
        BY <1>9, <3>1, <3>2, <3>3
    <2>4. t # T - 1
      <3>1. SUFFICES ASSUME t = T - 1 PROVE FALSE
        OBVIOUS
      <3>2. FullsFrom(b, X) > 0
        <4>1. HolesBefore(b, FillFrom(t)) < FullsFrom(b, X)
          BY <1>7, <1>12, <2>2
        <4>2. HolesBefore(b, FillFrom(t)) \in Nat /\ FullsFrom(b, X) \in Nat
          BY <1>1, <1>5, <1>7, Counted
        <4>3. QED
          BY <4>1, <4>2
      <3>3. {q \in Fulls(b) : q >= X} = {}
        <4>1. \A q \in Fulls(b) : q < N /\ q \in Int
          BY <1>4, <1>8 DEF Pos
        <4>2. QED
          BY <1>4, <2>3, <3>1, <4>1
      <3>4. QED
        BY <3>2, <3>3, FS_EmptySet DEF FullsFrom
    <2>5. t + 1 \in Thread /\ MyEnd(t) = MyBegin(t + 1) /\ IsBlock(MyBegin(t + 1))
      BY <1>4, <2>4
    <2>6. IsBlock(FillTo(t))
      BY <1>5, <1>6, <2>5
    <2>7. S < MyEnd(t)
      BY <1>1, <1>2, <1>4, <2>4 DEF S
    <2>8. FullsFrom(b, X) <= FullsFrom(b, MyBegin(t + 1))
      <3>1. CASE MyEnd(t) <= X
        BY <1>1, <1>4, <1>5, <2>5, <3>1, Counted
      <3>2. CASE X < MyEnd(t)
        <4>1. \A p \in X .. MyEnd(t) - 1 : p \notin Fulls(b)
          BY <1>4, <1>5, <2>3
        <4>2. FullsFrom(b, X) = FullsFrom(b, MyEnd(t)) /\ FullsFrom(b, X) \in Nat
          BY <1>1, <1>4, <1>5, <3>2, <4>1, Counted
        <4>3. QED
          BY <2>5, <4>2
      <3>3. QED
        BY <1>4, <1>5, <3>1, <3>2
    <2>9. \A y \in Int : FillFrom(t) <= y /\ y < FillTo(t) =>
             HolesBefore(b, y) < FullsFrom(b, MyBegin(t + 1))
      <3> SUFFICES ASSUME NEW y \in Int, FillFrom(t) <= y, y < FillTo(t)
                   PROVE  HolesBefore(b, y) < FullsFrom(b, MyBegin(t + 1))
        OBVIOUS
      <3>1. HolesBefore(b, y) < FullsFrom(b, X)
        BY <2>2
      <3>2. HolesBefore(b, y) \in Nat /\ FullsFrom(b, X) \in Nat /\ FullsFrom(b, MyBegin(t + 1)) \in Nat
        BY <1>1, <1>4, <1>5, <2>5, Counted
      <3>3. QED
        BY <2>8, <3>1, <3>2
    <2>10. QED
      BY <2>1, <2>4, <2>5, <2>6, <2>7, <2>9
  <1>13. QED
    BY <1>1, <1>3, <1>7, <1>10, <1>11, <1>12 DEF S, E, X, f

-----------------------------------------------------------------------------
(* Movement of empty blocks                                                *)

(* Where a thread is while blocks are moved, and the type of its locals.   *)
Moving == {"move", "moveBlocks", "moved"}
MoveLocals == [bucket : Int, from : Int, reserved : Int, write : Int, end : Int]

(* How far thread t has filled its holes.                                  *)
WrittenTo(t) ==
    IF pc[t] = "moveBlocks" THEN move[t].write
    ELSE IF pc[t] = "moved" /\ FillFrom(t) < FillTo(t) THEN FillTo(t) ELSE FillFrom(t)

(* The holes thread t has filled, and the places it took blocks from for   *)
(* them: the last full places of the bucket fill its first holes.          *)
Fills(t, p) == Overlaps(t) /\ p \in FillFrom(t) .. WrittenTo(t) - 1
Takes(t, p) ==
    /\ Overlaps(t) /\ p \in Fulls(MoveBucket(t))
    /\ HolesBefore(MoveBucket(t), FillFrom(t)) < FullsFrom(MoveBucket(t), p)
    /\ FullsFrom(MoveBucket(t), p) <= HolesBefore(MoveBucket(t), WrittenTo(t))
(* A place holds elements when classification filled it and nobody took    *)
(* them, or when somebody filled it since.                                 *)
Full(p) ==
    \/ p \in FlushedBy(Thread) /\ \A t \in Thread : ~Takes(t, p)
    \/ \E t \in Thread : Fills(t, p)

(* A block holds elements of one bucket or none.                           *)
Uniform ==
    /\ DOMAIN a = Pos
    /\ \A p \in Pos : a[p] = a[BlockOfPos(p)] /\ a[p] \in Bucket \cup {Gone}
(* The array holds elements where the movement says so.                    *)
Filled == \A p \in Pos : a[p] # Gone <=> Full(p)
(* The full blocks of c hold fewer elements than c has.                    *)
SpareOf(c) ==
    \/ FullBlocksOf(c) = {}
    \/ BlockSize * Cardinality(FullBlocksOf(c)) < bucketStart[c + 1] - bucketStart[c]

(* A thread in its loop: from the stripe "from" on nothing is left for it, *)
(* and what "reserved" says is left there belongs to threads to its left.  *)
LoopOK(t) ==
    LET m == move[t]
        b == MoveBucket(t)
    IN  pc[t] = "moveBlocks" =>
          /\ Overlaps(t) /\ m.bucket = b /\ m.end = FillTo(t)
          /\ IsBlock(m.write) /\ FillFrom(t) <= m.write
          /\ m.write <= FillTo(t) \/ m.write = FillFrom(t)
          /\ m.from \in t + 1 .. T /\ IsBlock(m.reserved) /\ m.reserved >= 0
          /\ m.from = t + 1 \/ BlockStart(b + 1) > MyBegin(m.from - 1)
          /\ m.write < m.end =>
               FullsFrom(b, StripeAt(m.from)) + m.reserved = HolesBefore(b, m.write)

(* The thread in whose stripe a bucket begins has set its pointers, but    *)
(* for the bucket it moves blocks for.                                     *)
PointersOK(t) ==
    \A b \in Bucket :
        /\ pc[t] # "move" /\ RangeStart(t) <= b /\ b < RangeEnd(t)
        /\ pc[t] = "moved" \/ b # MoveBucket(t)
        => ptr[b] = PtrAt(b, FirstEmptyInBucket(b))

(* The invariant of the movement of empty blocks.                          *)
MoveInv ==
    /\ Layout /\ Uniform /\ Filled
    /\ \A c \in Bucket : SpareOf(c)
    /\ pc \in [Thread -> Moving] /\ move \in [Thread -> MoveLocals] /\ DOMAIN ptr = Bucket
    /\ \A t \in Thread : LoopOK(t) /\ PointersOK(t)

-----------------------------------------------------------------------------
(* The step leaves the sizes of buckets and stripes alone.                 *)
SameSizes == UNCHANGED <<input, bucketStart, firstBlock, firstEmpty>>

(* What depends on the sizes of buckets and stripes alone stays as it is.  *)
LEMMA SameLayout ==
    ASSUME SameSizes
    PROVE  /\ T' = T /\ N' = N /\ NumBuckets' = NumBuckets /\ Thread' = Thread /\ Bucket' = Bucket
           /\ Pos' = Pos /\ (Layout => Layout')
           /\ \A t : MyBegin(t)' = MyBegin(t) /\ MyEnd(t)' = MyEnd(t) /\ StripeAt(t)' = StripeAt(t)
           /\ \A b : BlockStart(b)' = BlockStart(b) /\ Fulls(b)' = Fulls(b) /\ Holes(b)' = Holes(b)
           /\ FlushedBy(Thread)' = FlushedBy(Thread)
           /\ \A b, x : HolesBefore(b, x)' = HolesBefore(b, x) /\ FullsFrom(b, x)' = FullsFrom(b, x)
           /\ \A b : FirstEmptyInBucket(b)' = FirstEmptyInBucket(b)
           /\ \A t : RangeStart(t)' = RangeStart(t) /\ RangeEnd(t)' = RangeEnd(t)
           /\ \A t : Overlaps(t)' = Overlaps(t) /\ MoveBucket(t)' = MoveBucket(t)
           /\ \A t : FillFrom(t)' = FillFrom(t) /\ FillTo(t)' = FillTo(t)
  <1>1. /\ input' = input /\ bucketStart' = bucketStart
        /\ firstBlock' = firstBlock /\ firstEmpty' = firstEmpty
    BY DEF SameSizes
  <1>2. T' = T /\ N' = N /\ NumBuckets' = NumBuckets
    BY <1>1 DEF T, N, NumBuckets
  <1>3. Thread' = Thread /\ Bucket' = Bucket /\ Pos' = Pos
    BY <1>2 DEF Thread, Bucket, Pos
  <1>4. \A t : StripeAt(t)' = StripeAt(t)
    BY <1>2 DEF StripeAt, Align
  <1>5. \A t : MyBegin(t)' = MyBegin(t) /\ MyEnd(t)' = MyEnd(t)
    BY <1>2, <1>4 DEF MyBegin, MyEnd
  <1>6. \A b : BlockStart(b)' = BlockStart(b)
    BY <1>1 DEF BlockStart, Align
  <1>7. \A b : Area(b)' = Area(b)
    BY <1>6 DEF Area
  <1>8. FlushedBy(Thread)' = FlushedBy(Thread)
    BY <1>1, <1>3 DEF FlushedBy
  <1>9. \A b : Fulls(b)' = Fulls(b) /\ Holes(b)' = Holes(b)
    BY <1>7, <1>8 DEF Fulls, Holes
  <1>10. \A b, x : HolesBefore(b, x)' = HolesBefore(b, x) /\ FullsFrom(b, x)' = FullsFrom(b, x)
    BY <1>9 DEF HolesBefore, FullsFrom, Position
  <1>11. \A b : FirstEmptyInBucket(b)' = FirstEmptyInBucket(b)
    BY <1>6, <1>7, <1>8 DEF FirstEmptyInBucket, FlushedIn
  <1>12. \A t : RangeStart(t)' = RangeStart(t)
    BY <1>2, <1>5, <1>6 DEF RangeStart
  <1>13. \A t : RangeEnd(t)' = RangeEnd(t)
    BY <1>2, <1>5, <1>6, <1>12 DEF RangeEnd
  <1>14. \A t : Overlaps(t)' = Overlaps(t) /\ MoveBucket(t)' = MoveBucket(t)
    <2>1. \A t : BlockStart(RangeEnd(t))' = BlockStart(RangeEnd(t))
      BY <1>1, <1>13 DEF BlockStart, Align
    <2>2. QED
      BY <1>5, <1>13, <2>1 DEF Overlaps, MoveBucket
  <1>15. \A t : FillFrom(t)' = FillFrom(t) /\ FillTo(t)' = FillTo(t)
    <2>1. \A t : BlockStart(MoveBucket(t))' = BlockStart(MoveBucket(t))
      BY <1>1, <1>14 DEF BlockStart, Align
    <2>2. \A t : Area(MoveBucket(t))' = Area(MoveBucket(t))
      BY <1>1, <1>14 DEF Area, BlockStart, Align
    <2>3. \A t : FirstEmptyInBucket(MoveBucket(t))' = FirstEmptyInBucket(MoveBucket(t))
      BY <1>8, <2>1, <2>2 DEF FirstEmptyInBucket, FlushedIn
    <2>4. QED
      BY <1>1, <1>5, <2>1, <2>3 DEF FillFrom, FillTo
  <1>16. GoodInput' <=> GoodInput
    BY <1>1, <1>2, <1>3 DEF GoodInput
  <1>17. Layout => Layout'
    BY <1>1, <1>2, <1>3, <1>5, <1>16 DEF Layout
  <1>18. QED
    BY <1>2, <1>3, <1>4, <1>5, <1>6, <1>8, <1>9, <1>10, <1>11, <1>12, <1>13, <1>14, <1>15, <1>17

(* How far a thread can have come.                                         *)
LEMMA Written ==
    ASSUME Layout, NEW t \in Thread, Overlaps(t), LoopOK(t)
    PROVE  /\ WrittenTo(t) \in Int /\ IsBlock(WrittenTo(t)) /\ FillFrom(t) <= WrittenTo(t)
           /\ WrittenTo(t) <= FillTo(t) \/ WrittenTo(t) = FillFrom(t)
  <1>1. /\ FillFrom(t) \in Int /\ FillTo(t) \in Int /\ IsBlock(FillFrom(t))
        /\ FillFrom(t) < FillTo(t) => IsBlock(FillTo(t))
    BY FillRange
  <1>2. CASE pc[t] = "moveBlocks"
    BY <1>2 DEF LoopOK, WrittenTo, IsBlock
  <1>3. CASE pc[t] # "moveBlocks"
    BY <1>1, <1>3 DEF WrittenTo
  <1>4. QED
    BY <1>2, <1>3

(* The holes of a bucket come in the order of the threads.                 *)
LEMMA InTurn ==
    ASSUME Layout, NEW t \in Thread, NEW u \in Thread, t < u, Overlaps(t), Overlaps(u),
           MoveBucket(t) = MoveBucket(u), NEW y \in Int, y <= FillTo(t) \/ y = FillFrom(t)
    PROVE  HolesBefore(MoveBucket(t), y) <= HolesBefore(MoveBucket(t), FillFrom(u))
  <1> DEFINE b == MoveBucket(t)
  <1>1. /\ b \in Bucket /\ FillTo(t) \in Int /\ FillTo(t) <= MyEnd(t)
        /\ HolesBefore(b, FillFrom(t)) = HolesBefore(b, MyBegin(t))
        /\ HolesBefore(b, FillFrom(u)) = HolesBefore(b, MyBegin(u))
    BY FillRange
  <1>2. /\ MyBegin(t) \in Int /\ MyEnd(t) \in Int /\ MyBegin(u) \in Int
        /\ MyBegin(t) <= MyEnd(t) /\ MyEnd(t) <= MyBegin(u)
    BY Stripes DEF Layout
  <1> HIDE DEF b
  <1>3. HolesBefore(b, MyBegin(t)) <= HolesBefore(b, MyBegin(u))
    BY <1>1, <1>2, Counted
  <1>4. ASSUME y <= FillTo(t) PROVE HolesBefore(b, y) <= HolesBefore(b, MyBegin(u))
    <2>1. y <= MyBegin(u)
      BY <1>1, <1>2, <1>4
    <2>2. QED
      BY <1>1, <1>2, <2>1, Counted
  <1>5. QED
    BY <1>1, <1>3, <1>4 DEF b

(* The full blocks of bucket b in stripe u lie at its beginning, up to e.  *)
Share(u, b, e) ==
    /\ e \in Int /\ IsBlock(e) /\ MyBegin(u) <= e /\ e <= MyEnd(u)
    /\ \A p \in MyBegin(u) .. e - 1 :
         /\ p \in Fulls(b) /\ p \in Mine(u)
         /\ FullsFrom(b, p) = FullsFrom(b, StripeAt(u + 1)) + (e - p)
    /\ FullsFrom(b, StripeAt(u + 1)) \in Nat
    /\ FullsFrom(b, MyBegin(u)) = FullsFrom(b, StripeAt(u + 1)) + (e - MyBegin(u))
    /\ \A p \in Fulls(b) : p >= e => FullsFrom(b, p) <= FullsFrom(b, StripeAt(u + 1))
    /\ \A p \in Fulls(b) : p < MyBegin(u) => FullsFrom(b, MyBegin(u)) < FullsFrom(b, p)

(* So it is with the stripe of every thread a thread takes blocks from.    *)
LEMMA ShareFound ==
    ASSUME Layout, NEW t \in Thread, NEW u \in Thread, t < u, NEW b \in Bucket,
           BlockStart(b) < MyEnd(t), MyBegin(u) < BlockStart(b + 1),
           NEW e, e = Min({firstEmpty[u], BlockStart(b + 1)})
    PROVE  Share(u, b, e)
  <1> DEFINE S == BlockStart(b)
             E == BlockStart(b + 1)
             f == firstEmpty[u]
             z == StripeAt(u + 1)
  <1>1. /\ S \in Nat /\ E \in Nat /\ IsBlock(E)
    <2>1. b \in 0 .. NumBuckets /\ b + 1 \in 0 .. NumBuckets
      BY Borders
    <2>2. QED
      BY <2>1, Borders
  <1>2. /\ MyBegin(u) \in Nat /\ MyEnd(u) \in Nat /\ MyEnd(t) \in Nat /\ N \in Nat
        /\ MyEnd(t) <= MyBegin(u) /\ IsBlock(MyBegin(u)) /\ MyEnd(u) <= N
        /\ f \in Int /\ IsBlock(f) /\ MyBegin(u) <= f /\ f <= MyEnd(u)
    <2>1. GoodInput /\ IsBlock(f) /\ MyBegin(u) <= f /\ f <= MyEnd(u)
      BY DEF Layout
    <2>2. QED
      BY <2>1, Stripes DEF IsBlock, GoodInput
  <1>3. z \in Nat /\ MyEnd(u) <= z /\ (MyEnd(u) = z \/ MyEnd(u) = N)
    <2>1. GoodInput /\ u + 1 \in 0 .. T
      BY DEF Layout, GoodInput, Thread
    <2>2. z \in Nat /\ (u + 1 = T => z >= N)
      BY <2>1, StripeBorders
    <2>3. CASE u = T - 1
      <3>1. MyEnd(u) = N /\ u + 1 = T
        BY <2>1, <2>3, Stripes DEF Thread, GoodInput
      <3>2. QED
        BY <2>2, <3>1
    <2>4. CASE u # T - 1
      <3>1. u + 1 \in Thread /\ MyEnd(u) = MyBegin(u + 1)
        BY <2>1, <2>4, Stripes
      <3>2. MyBegin(u + 1) = StripeAt(u + 1)
        BY <2>1, <3>1, Stripes
      <3>3. QED
        BY <1>2, <2>2, <3>1, <3>2
    <2>5. QED
      BY <2>3, <2>4
  <1>4. e = IF f <= E THEN f ELSE E
    <2>1. f \in Int /\ E \in Int
      BY <1>1, <1>2
    <2> HIDE DEF f, E
    <2>2. Min({f, E}) = IF f <= E THEN f ELSE E
      BY <2>1, MaxMinOfTwo
    <2>3. QED
      BY <2>2 DEF f, E
  <1> HIDE DEF S, E, f, z
  <1>5. e \in Int /\ IsBlock(e) /\ MyBegin(u) <= e /\ e <= MyEnd(u) /\ e <= f /\ e <= E /\ e <= z
    BY <1>1, <1>2, <1>3, <1>4 DEF E
  <1>6. ASSUME NEW p \in MyBegin(u) .. e - 1
        PROVE  p \in Fulls(b) /\ p \in Mine(u)
    <2>1. p \in Int /\ MyBegin(u) <= p /\ p < MyEnd(u) /\ p < f /\ S <= p /\ p < E
      BY <1>1, <1>2, <1>5 DEF S
    <2>2. p \in Mine(u) /\ p \in Area(b)
      BY <1>1, <1>2, <2>1 DEF Mine, Area, S, E
    <2>3. p \in FlushedBy(Thread)
      BY <2>1, <2>2, FlushedPlaces DEF f
    <2>4. QED
      BY <2>2, <2>3 DEF Fulls
  <1>7. /\ \A p \in Fulls(b) : p \in Int /\ p < E /\ p \in FlushedBy(Thread) /\ p < N
    <2>1. \A p \in Fulls(b) : p \in Area(b) /\ p \in Pos /\ p \in FlushedBy(Thread)
      BY AreaSets DEF Fulls
    <2>2. QED
      BY <1>2, <2>1, AreaSets DEF E, Pos
  <1>8. ASSUME NEW p \in e .. z - 1, p \in Fulls(b) PROVE FALSE
    <2>1. p \in Int /\ e <= p /\ p < z /\ p < E /\ p < N
      BY <1>3, <1>5, <1>7, <1>8
    <2>2. p < MyEnd(u)
      BY <1>2, <1>3, <2>1
    <2>3. p \in Mine(u)
      BY <1>2, <1>5, <2>1, <2>2 DEF Mine
    <2>4. p < f
      BY <1>7, <1>8, <2>3, FlushedPlaces DEF f
    <2>5. QED
      BY <1>1, <1>2, <1>4, <2>1, <2>4
  <1>9. FullsFrom(b, e) = FullsFrom(b, z) /\ FullsFrom(b, z) \in Nat
    <2>1. z \in Int /\ \A p \in e .. z - 1 : p \notin Fulls(b)
      BY <1>3, <1>8
    <2>2. QED
      BY <1>5, <2>1, Counted
  <1>10. ASSUME NEW p \in Int, MyBegin(u) <= p, p <= e
         PROVE  FullsFrom(b, p) = FullsFrom(b, z) + (e - p)
    <2>1. \A q \in p .. e - 1 : q \in Fulls(b)
      BY <1>2, <1>5, <1>6, <1>10
    <2>2. FullsFrom(b, p) = FullsFrom(b, e) + (e - p)
      BY <1>5, <1>10, <2>1, Counted
    <2>3. QED
      BY <1>9, <2>2
  <1>11. ASSUME NEW p \in Fulls(b), p >= e PROVE FullsFrom(b, p) <= FullsFrom(b, z)
    <2>1. p \in Int /\ e <= p
      BY <1>5, <1>7, <1>11
    <2>2. FullsFrom(b, p) <= FullsFrom(b, e)
      BY <1>5, <2>1, Counted
    <2>3. QED
      BY <1>9, <2>2
  <1>12. ASSUME NEW p \in Fulls(b), p < MyBegin(u)
         PROVE  FullsFrom(b, MyBegin(u)) < FullsFrom(b, p)
    <2>1. p \in Int /\ MyBegin(u) \in Int /\ p <= MyBegin(u) /\ p <= p
      BY <1>2, <1>7, <1>12
    <2>2. QED
      BY <1>12, <2>1, Counted
  <1>13. \A p \in MyBegin(u) .. e - 1 : FullsFrom(b, p) = FullsFrom(b, z) + (e - p)
    BY <1>2, <1>5, <1>10
  <1>14. FullsFrom(b, MyBegin(u)) = FullsFrom(b, z) + (e - MyBegin(u))
    BY <1>2, <1>5, <1>10
  <1>15. QED
    BY <1>5, <1>6, <1>9, <1>11, <1>12, <1>13, <1>14 DEF z, Share

(* A shift by whole blocks keeps the places of a block together.           *)
LEMMA Shifted ==
    ASSUME NEW p \in Int, NEW d, IsBlock(d)
    PROVE  BlockOfPos(p + d) = BlockOfPos(p) + d
  <1> DEFINE e == BlockOfPos(p)
             g == BlockOfPos(p + d)
  <1>1. d \in Int /\ p + d \in Int /\ BlockSize \in Nat
    BY Sizes DEF IsBlock
  <1>2. /\ e \in Int /\ IsBlock(e) /\ e <= p /\ p < e + BlockSize
    BY InBlock
  <1>3. /\ g \in Int /\ g <= p + d
        /\ \A q \in Int : IsBlock(q) /\ q <= p + d => q <= g
        /\ \A q \in Int : IsBlock(q) /\ p + d < q => g + BlockSize <= q
    <2> DEFINE x == p + d
    <2>1. x \in Int
      BY <1>1
    <2> HIDE DEF x
    <2>2. /\ BlockOfPos(x) \in Int /\ BlockOfPos(x) <= x
          /\ \A q \in Int : IsBlock(q) /\ q <= x => q <= BlockOfPos(x)
          /\ \A q \in Int : IsBlock(q) /\ x < q => BlockOfPos(x) + BlockSize <= q
      BY <2>1, InBlock
    <2>3. QED
      BY <2>2 DEF x
  <1>4. IsBlock(e + d) /\ IsBlock((e + d) + BlockSize)
    <2>1. IsBlock(e + d)
      BY <1>2, BlockSum
    <2>2. QED
      BY <2>1, NextBlock
  <1> HIDE DEF e, g
  <1>5. e + d <= g
    BY <1>1, <1>2, <1>3, <1>4
  <1>6. g + BlockSize <= (e + d) + BlockSize
    BY <1>1, <1>2, <1>3, <1>4
  <1>7. g = e + d
    BY <1>1, <1>2, <1>3, <1>5, <1>6
  <1>8. QED
    BY <1>7 DEF e, g

(* A thread that does not move keeps what holds of it.                     *)
LEMMA Resting ==
    ASSUME SameSizes, NEW v, pc'[v] = pc[v], move'[v] = move[v]
    PROVE  /\ WrittenTo(v)' = WrittenTo(v) /\ (LoopOK(v) => LoopOK(v)')
           /\ \A p : (Fills(v, p)' <=> Fills(v, p)) /\ (Takes(v, p)' <=> Takes(v, p))
  <1>1. WrittenTo(v)' = WrittenTo(v)
    BY SameLayout DEF WrittenTo
  <1>2. \A p : Fills(v, p)' <=> Fills(v, p)
    BY <1>1, SameLayout DEF Fills
  <1>3. \A p : Takes(v, p)' <=> Takes(v, p)
    BY <1>1, SameLayout DEF Takes
  <1>4. LoopOK(v) => LoopOK(v)'
    BY SameLayout DEF LoopOK
  <1>5. QED
    BY <1>1, <1>2, <1>3, <1>4

(* What a thread that has holes left finds in the next stripe.             *)
LEMMA Turn ==
    ASSUME Layout, NEW t \in Thread, LoopOK(t), pc[t] = "moveBlocks", move[t].write < move[t].end,
           NEW u, u = move[t].from - 1, NEW b, b = MoveBucket(t)
    PROVE  /\ Overlaps(t) /\ move[t].bucket = b /\ move[t].end = FillTo(t)
           /\ u \in Thread /\ t < u /\ u + 1 = move[t].from /\ b \in Bucket
           /\ MyBegin(u) < BlockStart(b + 1) /\ BlockStart(b) < MyEnd(t)
           /\ firstBlock[u] = MyBegin(u) /\ MyBegin(u) = StripeAt(u)
           /\ HolesBefore(b, move[t].write) = FullsFrom(b, StripeAt(u + 1)) + move[t].reserved
           /\ IsBlock(move[t].write) /\ FillFrom(t) <= move[t].write
           /\ IsBlock(move[t].reserved) /\ move[t].reserved >= 0
  <1> DEFINE m == move[t]
             w == m.write
             r == m.reserved
  <1>1. /\ Overlaps(t) /\ m.bucket = b /\ m.end = FillTo(t)
        /\ IsBlock(w) /\ FillFrom(t) <= w /\ w < FillTo(t)
        /\ m.from \in t + 1 .. T /\ IsBlock(r) /\ r >= 0
        /\ m.from = t + 1 \/ BlockStart(b + 1) > MyBegin(m.from - 1)
        /\ FullsFrom(b, StripeAt(m.from)) + r = HolesBefore(b, w)
    BY DEF LoopOK
  <1>2. t \in Int /\ T \in Int /\ GoodInput /\ 0 <= t /\ t < T
    BY DEF Thread, Layout, GoodInput
  <1>3. m.from \in Int /\ t + 1 <= m.from /\ m.from <= T /\ w \in Int /\ r \in Int
    BY <1>1, <1>2 DEF IsBlock
  <1>4. /\ b \in Bucket /\ FillFrom(t) \in Int /\ FillTo(t) \in Int
        /\ t + 1 \in Thread /\ BlockStart(b) < MyEnd(t)
        /\ HolesBefore(b, w) < FullsFrom(b, MyBegin(t + 1))
    <2>1. /\ b \in Bucket /\ FillFrom(t) \in Int /\ FillTo(t) \in Int
          /\ FillFrom(t) < FillTo(t) =>
                /\ t # T - 1 /\ t + 1 \in Thread /\ IsBlock(FillTo(t)) /\ BlockStart(b) < MyEnd(t)
                /\ \A p \in FillFrom(t) .. FillTo(t) - 1 : p \in Holes(b) /\ p \in Mine(t)
                /\ \A y \in Int : FillFrom(t) <= y /\ y < FillTo(t) =>
                     HolesBefore(b, y) < FullsFrom(b, MyBegin(t + 1))
      BY <1>1, FillRange
    <2>2. FillFrom(t) < FillTo(t)
      BY <1>1, <1>3, <2>1
    <2> HIDE DEF m, w
    <2>3. QED
      BY <1>1, <1>3, <2>1, <2>2
  <1>5. MyBegin(t + 1) = StripeAt(t + 1) /\ MyBegin(t + 1) \in Int
    BY <1>2, <1>4, Stripes
  <1>6. m.from # t + 1
    <2>1. SUFFICES ASSUME m.from = t + 1 PROVE FALSE
      OBVIOUS
    <2>2. FullsFrom(b, StripeAt(t + 1)) \in Nat
      BY <1>4, <1>5, Counted
    <2>3. FullsFrom(b, StripeAt(t + 1)) + r < FullsFrom(b, StripeAt(t + 1))
      BY <1>1, <1>4, <1>5, <2>1
    <2>4. QED
      BY <1>1, <1>3, <2>2, <2>3
  <1>7. u \in Int /\ t < u /\ u < T /\ 0 <= u /\ u + 1 = m.from
    BY <1>2, <1>3, <1>6
  <1>8. u \in Thread
    BY <1>2, <1>7 DEF Thread
  <1>9. MyBegin(u) < BlockStart(b + 1)
    <2>1. BlockStart(b + 1) > MyBegin(u)
      BY <1>1, <1>6
    <2>2. b + 1 \in 0 .. NumBuckets
      BY <1>4, Borders
    <2>3. BlockStart(b + 1) \in Nat /\ MyBegin(u) \in Nat
      BY <1>2, <1>8, <2>2, Borders, Stripes
    <2>4. QED
      BY <2>1, <2>3
  <1>10. firstBlock[u] = MyBegin(u) /\ MyBegin(u) = StripeAt(u)
    BY <1>2, <1>8, Stripes DEF Layout
  <1>11. HolesBefore(b, w) = FullsFrom(b, StripeAt(u + 1)) + r
    BY <1>1, <1>7
  <1>12. QED
    BY <1>1, <1>4, <1>7, <1>8, <1>9, <1>10, <1>11

(* A step of thread t has its own part to keep, and what all share.        *)
LEMMA MoveFrame ==
    ASSUME MoveInv, NEW t \in Thread, SameSizes,
           pc' \in [Thread -> Moving], move' \in [Thread -> MoveLocals], DOMAIN ptr' = Bucket,
           \A v \in Thread \ {t} : pc'[v] = pc[v] /\ move'[v] = move[v],
           Uniform', Filled', \A c \in Bucket : SpareOf(c)',
           LoopOK(t)', \A v \in Thread : PointersOK(v)'
    PROVE  MoveInv'
  <1>1. Thread' = Thread /\ Bucket' = Bucket /\ Layout'
    BY SameLayout DEF MoveInv
  <1>2. \A v \in Thread : LoopOK(v)'
    <2> SUFFICES ASSUME NEW v \in Thread PROVE LoopOK(v)'
      OBVIOUS
    <2>1. CASE v = t
      BY <2>1
    <2>2. CASE v # t
      BY <2>2, Resting DEF MoveInv
    <2>3. QED
      BY <2>1, <2>2
  <1>3. QED
    BY <1>1, <1>2 DEF MoveInv

(* The array as it was, and nothing more filled or taken.                  *)
LEMMA SameContents ==
    ASSUME MoveInv, SameSizes, a' = a,
           \A v \in Thread : \A p : (Fills(v, p)' <=> Fills(v, p)) /\ (Takes(v, p)' <=> Takes(v, p))
    PROVE  Uniform' /\ Filled' /\ \A c \in Bucket : SpareOf(c)'
  <1>1. Thread' = Thread /\ Bucket' = Bucket /\ Pos' = Pos /\ N' = N
        /\ FlushedBy(Thread)' = FlushedBy(Thread) /\ bucketStart' = bucketStart
    BY SameLayout DEF SameSizes
  <1>2. Uniform'
    BY <1>1 DEF MoveInv, Uniform, BlockOfPos, Gone
  <1>3. \A p : Full(p)' <=> Full(p)
    BY <1>1 DEF Full
  <1>4. Filled'
    BY <1>1, <1>3 DEF MoveInv, Filled, Gone
  <1>5. \A c \in Bucket : SpareOf(c)'
    <2>1. \A c : FullBlocksOf(c)' = FullBlocksOf(c)
      BY <1>1 DEF FullBlocksOf
    <2>2. QED
      BY <1>1, <2>1 DEF MoveInv, SpareOf
  <1>6. QED
    BY <1>2, <1>4, <1>5

(* A step that sets no pointer keeps them as they are.                     *)
LEMMA PtrsKept ==
    ASSUME SameSizes, ptr' = ptr, NEW v, pc'[v] = pc[v], PointersOK(v)
    PROVE  PointersOK(v)'
  <1>1. \A b : PtrAt(b, FirstEmptyInBucket(b))' = PtrAt(b, FirstEmptyInBucket(b))
    BY SameLayout DEF PtrAt
  <1>2. /\ Bucket' = Bucket /\ RangeStart(v)' = RangeStart(v) /\ RangeEnd(v)' = RangeEnd(v)
        /\ MoveBucket(v)' = MoveBucket(v)
    BY SameLayout
  <1>3. QED
    BY <1>1, <1>2 DEF PointersOK

(* A stripe whose blocks are all for threads to the left is skipped.       *)
LEMMA SkipStep ==
    ASSUME MoveInv, NEW t \in Thread, MoveBlocks(t),
           NEW u, u = move[t].from - 1, NEW b, b = MoveBucket(t),
           NEW e, e = Min({firstEmpty[u], BlockStart(b + 1)}),
           move[t].reserved >= e - firstBlock[u]
    PROVE  MoveInv' /\ a' = a /\ input' = input
  <1> DEFINE m == move[t]
             r == m.reserved
             range == e - firstBlock[u]
  <1>1. /\ Layout /\ LoopOK(t) /\ pc[t] = "moveBlocks" /\ m.write < m.end
        /\ pc \in [Thread -> Moving] /\ move \in [Thread -> MoveLocals]
        /\ \A v \in Thread : LoopOK(v) /\ PointersOK(v)
    BY DEF MoveInv, MoveBlocks
  <1>2. /\ Overlaps(t) /\ m.bucket = b /\ m.end = FillTo(t)
        /\ u \in Thread /\ t < u /\ u + 1 = m.from /\ b \in Bucket
        /\ MyBegin(u) < BlockStart(b + 1) /\ BlockStart(b) < MyEnd(t)
        /\ firstBlock[u] = MyBegin(u) /\ MyBegin(u) = StripeAt(u)
        /\ HolesBefore(b, m.write) = FullsFrom(b, StripeAt(u + 1)) + r
        /\ IsBlock(r) /\ r >= 0
    BY <1>1, Turn
  <1>3. /\ e \in Int /\ IsBlock(e) /\ MyBegin(u) <= e
        /\ FullsFrom(b, StripeAt(u + 1)) \in Nat
        /\ FullsFrom(b, MyBegin(u)) = FullsFrom(b, StripeAt(u + 1)) + (e - MyBegin(u))
    <2>1. Share(u, b, e)
      BY <1>1, <1>2, ShareFound
    <2>2. QED
      BY <2>1 DEF Share
  <1>4. /\ move' = [move EXCEPT ![t].from = u, ![t].reserved = r - range]
        /\ a' = a /\ pc' = pc /\ ptr' = ptr /\ SameSizes
    BY <1>2 DEF MoveBlocks, SameSizes
  <1>5. IsBlock(r - range) /\ r - range \in Int /\ r \in Int /\ MyBegin(u) \in Int
    <2>1. IsBlock(MyBegin(u))
      BY <1>1, <1>2, Stripes DEF Layout
    <2>2. IsBlock(range)
      BY <1>2, <1>3, <2>1, BlockSum
    <2>3. QED
      BY <1>2, <2>1, <2>2, BlockSum DEF IsBlock
  <1>6. /\ move' \in [Thread -> MoveLocals]
        /\ \A v \in Thread \ {t} : pc'[v] = pc[v] /\ move'[v] = move[v]
        /\ move'[t] = [m EXCEPT !.from = u, !.reserved = r - range]
    <2>1. u \in Int
      BY <1>1, <1>2 DEF Thread, Layout, GoodInput
    <2> HIDE DEF r, range
    <2>2. QED
      BY <1>1, <1>4, <1>5, <2>1 DEF MoveLocals
  <1>7. /\ move'[t].from = u /\ move'[t].reserved = r - range /\ move'[t].bucket = m.bucket
        /\ move'[t].write = m.write /\ move'[t].end = m.end
    BY <1>1, <1>6 DEF MoveLocals
  <1>8. WrittenTo(t)' = WrittenTo(t)
    BY <1>4, <1>7, SameLayout DEF WrittenTo
  <1>9. \A v \in Thread : \A p : (Fills(v, p)' <=> Fills(v, p)) /\ (Takes(v, p)' <=> Takes(v, p))
    <2> SUFFICES ASSUME NEW v \in Thread, NEW p
                 PROVE  (Fills(v, p)' <=> Fills(v, p)) /\ (Takes(v, p)' <=> Takes(v, p))
      OBVIOUS
    <2>1. CASE v = t
      <3>1. Fills(t, p)' <=> Fills(t, p)
        BY <1>4, <1>8, SameLayout DEF Fills
      <3>2. Takes(t, p)' <=> Takes(t, p)
        BY <1>4, <1>8, SameLayout DEF Takes
      <3>3. QED
        BY <2>1, <3>1, <3>2
    <2>2. CASE v # t
      BY <1>4, <1>6, <2>2, Resting
    <2>3. QED
      BY <2>1, <2>2
  <1>10. Uniform' /\ Filled' /\ \A c \in Bucket : SpareOf(c)'
    BY <1>4, <1>9, SameContents
  <1>11. LoopOK(t)'
    <2>1. /\ Overlaps(t)' = Overlaps(t) /\ MoveBucket(t)' = b /\ T' = T
          /\ FillFrom(t)' = FillFrom(t) /\ FillTo(t)' = FillTo(t)
          /\ BlockStart(b + 1)' = BlockStart(b + 1) /\ MyBegin(u - 1)' = MyBegin(u - 1)
          /\ FullsFrom(b, StripeAt(u))' = FullsFrom(b, StripeAt(u))
          /\ HolesBefore(b, m.write)' = HolesBefore(b, m.write)'
      BY <1>4, SameLayout
    <2>2. u \in t + 1 .. T
      BY <1>1, <1>2 DEF Thread, Layout, GoodInput
    <2>3. u = t + 1 \/ BlockStart(b + 1) > MyBegin(u - 1)
      <3>1. CASE u # t + 1
        <4>1. GoodInput /\ t \in Int /\ u \in Int /\ T \in Int /\ 0 <= t /\ u < T
          BY <1>1, <1>2 DEF Thread, Layout, GoodInput
        <4>2. u - 1 \in Thread /\ u - 1 < u
          BY <1>2, <3>1, <4>1 DEF Thread
        <4>3. /\ MyBegin(u - 1) \in Int /\ MyEnd(u - 1) \in Int
              /\ MyBegin(u - 1) < MyEnd(u - 1) /\ MyEnd(u - 1) <= MyBegin(u)
          BY <1>2, <4>1, <4>2, Stripes
        <4>4. BlockStart(b + 1) \in Int
          BY <1>1, <1>2, Borders
        <4>5. QED
          BY <1>2, <1>5, <4>3, <4>4
      <3>2. QED
        BY <3>1
    <2>4. FullsFrom(b, StripeAt(u)) + (r - range) = HolesBefore(b, m.write)
      <3> HIDE DEF r, m
      <3>1. QED
        BY <1>2, <1>3, <1>5
    <2>5. r - range >= 0
      BY <1>2, <1>3, <1>5
    <2>6. /\ IsBlock(m.write) /\ FillFrom(t) <= m.write
          /\ m.write <= FillTo(t) \/ m.write = FillFrom(t)
      BY <1>1 DEF LoopOK
    <2>7. HolesBefore(b, m.write)' = HolesBefore(b, m.write)
      BY <1>4, <1>7, SameLayout
    <2> HIDE DEF r, range
    <2>8. FullsFrom(b, StripeAt(move[t].from))' + move'[t].reserved = HolesBefore(b, move[t].write)'
      BY <1>4, <1>7, <2>4, <2>7, SameLayout
    <2>9. QED
      BY <1>2, <1>4, <1>5, <1>7, <2>1, <2>2, <2>3, <2>5, <2>6, <2>8, SameLayout DEF LoopOK
  <1>12. ASSUME NEW v \in Thread PROVE PointersOK(v)'
    BY <1>1, <1>4, PtrsKept
  <1>13. pc' \in [Thread -> Moving] /\ DOMAIN ptr' = Bucket
    BY <1>4 DEF MoveInv
  <1>14. MoveInv'
    BY <1>4, <1>6, <1>10, <1>11, <1>12, <1>13, MoveFrame
  <1>15. QED
    BY <1>4, <1>14 DEF SameSizes

(* The size of what is taken is at least one block and no more than there  *)
(* is.                                                                     *)
LEMMA TakeSize ==
    ASSUME NEW x \in Int, NEW y \in Int, x > 0, y > 0
    PROVE  /\ Min({x, y}) \in Int /\ Min({x, y}) > 0 /\ Min({x, y}) <= x /\ Min({x, y}) <= y
           /\ Min({x, y}) = x \/ Min({x, y}) = y
  <1>1. Min({x, y}) = IF x <= y THEN x ELSE y
    BY MaxMinOfTwo
  <1>2. QED
    BY <1>1

(* The n places from s on are the next to be taken by t, and the n places  *)
(* from w on the next to be filled.                                        *)
Transfer(t, u, b, w, s, n) ==
    /\ w \in Int /\ s \in Int /\ n \in Int /\ n > 0
    /\ IsBlock(w) /\ IsBlock(s) /\ IsBlock(n)
    /\ FillFrom(t) <= w /\ w + n <= FillTo(t)
    /\ \A p \in w .. w + n - 1 : p \in Holes(b) /\ p \in Mine(t) /\ p \in Int
    /\ \A p \in s .. s + n - 1 : p \in Fulls(b) /\ p \in Mine(u) /\ p \in Int
    /\ \A p \in Fulls(b) :
         HolesBefore(b, w) < FullsFrom(b, p) /\ FullsFrom(b, p) <= HolesBefore(b, w + n)
         <=> p \in s .. s + n - 1
    /\ HolesBefore(b, FillFrom(t)) <= HolesBefore(b, w)
    /\ HolesBefore(b, w) <= HolesBefore(b, w + n)

(* The blocks a turn of the loop takes are the last full ones of the       *)
(* bucket that nobody needs to the left, and the holes they fill are the   *)
(* next ones of its thread.                                                *)
LEMMA Taking ==
    ASSUME Layout, NEW t \in Thread, Overlaps(t), NEW u \in Thread, t < u,
           NEW b \in Bucket, b = MoveBucket(t), MyBegin(u) < BlockStart(b + 1),
           NEW e, e = Min({firstEmpty[u], BlockStart(b + 1)}),
           NEW w \in Int, IsBlock(w), FillFrom(t) <= w, w < FillTo(t),
           NEW r \in Int, IsBlock(r), r >= 0, r < e - MyBegin(u),
           HolesBefore(b, w) = FullsFrom(b, StripeAt(u + 1)) + r,
           NEW left, left = (e - MyBegin(u)) - r, NEW room, room = FillTo(t) - w,
           NEW size, size = Min({left, room})
    PROVE  /\ Transfer(t, u, b, w, e - r - size, size)
           /\ w + size < FillTo(t) => FullsFrom(b, StripeAt(u)) = HolesBefore(b, w + size)
  <1> DEFINE F0 == FullsFrom(b, StripeAt(u + 1))
             s == MyBegin(u)
             H(y) == HolesBefore(b, y)
             f == FillFrom(t)
             g == FillTo(t)
  <1>1. /\ f \in Int /\ g \in Int /\ f < g /\ IsBlock(g) /\ BlockStart(b) < MyEnd(t)
        /\ \A p \in f .. g - 1 : p \in Holes(b) /\ p \in Mine(t)
    <2>1. /\ f \in Int /\ g \in Int
          /\ f < g => /\ IsBlock(g) /\ BlockStart(b) < MyEnd(t)
                      /\ \A p \in f .. g - 1 : p \in Holes(b) /\ p \in Mine(t)
      BY FillRange
    <2>2. f < g
      BY <2>1
    <2>3. QED
      BY <2>1, <2>2
  <1>2. /\ e \in Int /\ IsBlock(e) /\ s <= e
        /\ \A p \in s .. e - 1 :
             /\ p \in Fulls(b) /\ p \in Mine(u)
             /\ FullsFrom(b, p) = F0 + (e - p)
        /\ F0 \in Nat
        /\ FullsFrom(b, s) = F0 + (e - s)
        /\ \A p \in Fulls(b) : p >= e => FullsFrom(b, p) <= F0
        /\ \A p \in Fulls(b) : p < s => FullsFrom(b, s) < FullsFrom(b, p)
    <2>1. BlockStart(b) < MyEnd(t)
      BY <1>1
    <2>2. Share(u, b, e)
      BY <2>1, ShareFound
    <2>3. QED
      BY <2>2 DEF Share
  <1>3. s \in Int /\ IsBlock(s) /\ s = StripeAt(u)
    BY Stripes DEF Layout, IsBlock
  <1>4. /\ e - s \in Int /\ g - w \in Int /\ ~(r >= e - s) /\ g - w > 0
    BY <1>1, <1>2, <1>3
  <1>5. /\ size \in Int /\ size > 0 /\ size <= (e - s) - r /\ size <= g - w
        /\ size = (e - s) - r \/ size = g - w
    <2> DEFINE x == (e - s) - r
               y == g - w
    <2>1. size = Min({x, y})
      OBVIOUS
    <2>2. x \in Int /\ y \in Int /\ x > 0 /\ y > 0
      BY <1>4
    <2> HIDE DEF x, y
    <2>3. /\ Min({x, y}) \in Int /\ Min({x, y}) > 0 /\ Min({x, y}) <= x /\ Min({x, y}) <= y
          /\ Min({x, y}) = x \/ Min({x, y}) = y
      BY <2>2, TakeSize
    <2>4. /\ size \in Int /\ size > 0 /\ size <= x /\ size <= y
          /\ size = x \/ size = y
      BY <2>1, <2>3
    <2>5. QED
      BY <2>4 DEF x, y
  <1> HIDE DEF s, f, g
  <1>6. e - r \in Int /\ IsBlock(e - r) /\ IsBlock(size)
    <2>1. IsBlock(e - s) /\ IsBlock(e - r) /\ IsBlock(g - w)
      BY <1>1, <1>2, <1>3, BlockSum
    <2>2. IsBlock((e - s) - r)
      BY <2>1, BlockSum
    <2>3. QED
      BY <1>2, <1>5, <2>1, <2>2
  <1>7. w + size \in Int /\ w <= w + size /\ w + size <= g
    BY <1>1, <1>5
  <1>8. \A p \in w .. w + size - 1 : p \in Holes(b) /\ p \in Mine(t) /\ p \in Int
    <2>1. f <= w
      BY DEF f
    <2>2. \A p \in w .. w + size - 1 : p \in f .. g - 1 /\ p \in Int
      BY <1>1, <1>5, <1>7, <2>1
    <2>3. QED
      BY <1>1, <1>5, <2>2
  <1>9. H(w + size) = H(w) + size /\ H(w) \in Nat /\ H(f) <= H(w)
    <2> DEFINE z == w + size
    <2>1. ASSUME NEW p \in w .. z - 1 PROVE p \in Holes(b)
      <3>1. p \in w .. w + size - 1
        BY <1>5
      <3>2. QED
        BY <1>8, <3>1
    <2>2. z \in Int /\ w <= z /\ f \in Int /\ f <= w
      BY <1>1, <1>7 DEF f
    <2>3. z = w + size
      OBVIOUS
    <2> HIDE DEF z
    <2>4. HolesBefore(b, z) = HolesBefore(b, w) + (z - w) /\ HolesBefore(b, w) \in Nat
      BY <2>1, <2>2, Counted
    <2>5. HolesBefore(b, f) <= HolesBefore(b, w)
      BY <2>2, Counted
    <2>6. HolesBefore(b, z) = HolesBefore(b, w) + size
      BY <1>5, <2>3, <2>4
    <2>7. QED
      BY <2>4, <2>5, <2>6 DEF z
  <1>10. H(w) = F0 + r
    OBVIOUS
  <1> HIDE DEF F0, H
  <1>11. \A p \in e - r - size .. e - r - 1 : p \in s .. e - 1 /\ p \in Int
    BY <1>2, <1>3, <1>5
  <1>12. ASSUME NEW p \in Fulls(b)
         PROVE  H(w) < FullsFrom(b, p) /\ FullsFrom(b, p) <= H(w + size)
                <=> p \in e - r - size .. e - r - 1
    <2>1. p \in Int /\ FullsFrom(b, p) \in Nat /\ FullsFrom(b, s) \in Nat
      <3>1. p \in Int
        BY AreaSets
      <3>2. QED
        BY <1>3, <3>1, Counted
    <2>2. CASE p >= e
      <3>1. FullsFrom(b, p) <= F0
        BY <1>2, <2>2
      <3>2. ~(H(w) < FullsFrom(b, p))
        BY <1>2, <1>10, <2>1, <3>1
      <3>3. p \notin e - r - size .. e - r - 1
        BY <1>2, <1>5, <2>1, <2>2
      <3>4. QED
        BY <3>2, <3>3
    <2>3. CASE p < s
      <3>1. FullsFrom(b, s) < FullsFrom(b, p)
        BY <2>3, <1>2
      <3>2. ~(FullsFrom(b, p) <= H(w + size))
        BY <1>2, <1>3, <1>5, <1>9, <1>10, <2>1, <3>1
      <3>3. p \notin e - r - size .. e - r - 1
        BY <1>2, <1>3, <1>5, <2>1, <2>3
      <3>4. QED
        BY <3>2, <3>3
    <2>4. CASE p >= s /\ p < e
      <3>1. p \in s .. e - 1
        BY <1>2, <1>3, <2>1, <2>4
      <3>2. FullsFrom(b, p) = F0 + (e - p)
        BY <1>2, <3>1
      <3>3. p \in e - r - size .. e - r - 1 <=> e - r - size <= p /\ p < e - r
        BY <1>2, <1>5, <2>1
      <3>4. QED
        BY <1>2, <1>5, <1>9, <1>10, <2>1, <3>2, <3>3
    <2>5. QED
      BY <1>2, <1>3, <2>1, <2>2, <2>3, <2>4
  <1>13. w + size < g => FullsFrom(b, StripeAt(u)) = H(w + size)
    <2>1. SUFFICES ASSUME w + size < g PROVE FullsFrom(b, s) = H(w + size)
      BY <1>3
    <2>2. size = (e - s) - r
      BY <1>1, <1>5, <2>1
    <2>3. QED
      BY <1>2, <1>3, <1>9, <1>10, <2>2
  <1>14. H(w) <= H(w + size)
    BY <1>5, <1>9
  <1>15. \A p \in e - r - size .. e - r - 1 : p \in Fulls(b) /\ p \in Mine(u) /\ p \in Int
    BY <1>2, <1>5, <1>11
  <1>16. Transfer(t, u, b, w, e - r - size, size)
    <2> DEFINE x == e - r - size
    <2>1. x \in Int /\ IsBlock(x) /\ x .. x + size - 1 = e - r - size .. e - r - 1
      <3>1. x \in Int /\ IsBlock(x)
        BY <1>5, <1>6, BlockSum DEF IsBlock
      <3>2. x + size - 1 = e - r - 1
        BY <1>5, <1>6
      <3>3. QED
        BY <3>1, <3>2
    <2>2. /\ \A p \in x .. x + size - 1 : p \in Fulls(b) /\ p \in Mine(u) /\ p \in Int
          /\ \A p \in Fulls(b) :
               HolesBefore(b, w) < FullsFrom(b, p) /\ FullsFrom(b, p) <= HolesBefore(b, w + size)
               <=> p \in x .. x + size - 1
      BY <1>12, <1>15, <2>1 DEF H
    <2> HIDE DEF x
    <2>3. Transfer(t, u, b, w, x, size)
      BY <1>5, <1>6, <1>7, <1>8, <1>9, <1>14, <2>1, <2>2 DEF Transfer, H, g, f
    <2>4. QED
      BY <2>3 DEF x
  <1>17. QED
    BY <1>13, <1>16 DEF H, g

(* What a thread has filled was left empty by classification.              *)
LEMMA FilledHole ==
    ASSUME Layout, NEW v \in Thread, LoopOK(v), NEW p, Fills(v, p)
    PROVE  /\ p \in Int /\ p \notin FlushedBy(Thread) /\ p \in Holes(MoveBucket(v))
           /\ p \in Mine(v) /\ p < FillTo(v)
  <1>1. /\ Overlaps(v) /\ p \in FillFrom(v) .. WrittenTo(v) - 1
    BY DEF Fills
  <1>2. /\ WrittenTo(v) \in Int /\ FillFrom(v) <= WrittenTo(v)
        /\ WrittenTo(v) <= FillTo(v) \/ WrittenTo(v) = FillFrom(v)
    BY <1>1, Written
  <1>3. /\ FillFrom(v) \in Int /\ FillTo(v) \in Int
        /\ FillFrom(v) < FillTo(v) =>
             \A q \in FillFrom(v) .. FillTo(v) - 1 : q \in Holes(MoveBucket(v)) /\ q \in Mine(v)
    BY <1>1, FillRange
  <1>4. p \in Int /\ FillFrom(v) <= p /\ p < FillTo(v)
    BY <1>1, <1>2, <1>3
  <1>5. p \in FillFrom(v) .. FillTo(v) - 1 /\ FillFrom(v) < FillTo(v)
    BY <1>3, <1>4
  <1>6. p \in Holes(MoveBucket(v)) /\ p \in Mine(v)
    BY <1>3, <1>5
  <1>7. QED
    BY <1>4, <1>6 DEF Holes

(* No other thread takes what t is about to take.                          *)
LEMMA OnlyTaker ==
    ASSUME Layout, \A x \in Thread : LoopOK(x), NEW t \in Thread, Overlaps(t),
           NEW v \in Thread, v # t, NEW b \in Bucket, b = MoveBucket(t),
           NEW u, NEW w, NEW s, NEW n, Transfer(t, u, b, w, s, n), NEW p \in s .. s + n - 1
    PROVE  ~Takes(v, p)
  <1> SUFFICES ASSUME Takes(v, p) PROVE FALSE
    OBVIOUS
  <1>1. /\ w \in Int /\ w + n \in Int /\ p \in Fulls(b) /\ p \in Int
        /\ FillFrom(t) <= w /\ w + n <= FillTo(t)
        /\ HolesBefore(b, w) < FullsFrom(b, p) /\ FullsFrom(b, p) <= HolesBefore(b, w + n)
        /\ HolesBefore(b, FillFrom(t)) <= HolesBefore(b, w)
    BY DEF Transfer
  <1>2. Overlaps(v) /\ p \in Fulls(MoveBucket(v)) /\ MoveBucket(v) \in Bucket
    BY Ranges DEF Takes
  <1>3. MoveBucket(v) = b
    BY <1>1, <1>2, OnePlaceOneArea DEF Fulls
  <1>4. /\ HolesBefore(b, FillFrom(v)) < FullsFrom(b, p)
        /\ FullsFrom(b, p) <= HolesBefore(b, WrittenTo(v))
    BY <1>3 DEF Takes
  <1>5. /\ WrittenTo(v) \in Int /\ (WrittenTo(v) <= FillTo(v) \/ WrittenTo(v) = FillFrom(v))
        /\ FillFrom(v) \in Int /\ FillFrom(t) \in Int
    BY <1>2, Written, FillRange
  <1>6. /\ HolesBefore(b, w) \in Nat /\ HolesBefore(b, w + n) \in Nat /\ FullsFrom(b, p) \in Nat
        /\ HolesBefore(b, FillFrom(v)) \in Nat /\ HolesBefore(b, FillFrom(t)) \in Nat
        /\ HolesBefore(b, WrittenTo(v)) \in Nat
    <2>1. \A x \in Int : x <= x
      OBVIOUS
    <2>2. QED
      BY <1>1, <1>5, <2>1, Counted
  <1>7. CASE v < t
    <2>1. HolesBefore(b, WrittenTo(v)) <= HolesBefore(b, FillFrom(t))
      BY <1>2, <1>3, <1>5, <1>7, InTurn
    <2>2. QED
      BY <1>1, <1>4, <1>6, <2>1
  <1>8. CASE t < v
    <2>1. HolesBefore(b, w + n) <= HolesBefore(b, FillFrom(v))
      BY <1>1, <1>2, <1>3, <1>8, InTurn
    <2>2. QED
      BY <1>1, <1>4, <1>6, <2>1
  <1>9. QED
    BY <1>7, <1>8 DEF Thread, Layout, GoodInput

(* After a transfer the places taken are empty and the others filled.      *)
LEMMA TransferFull ==
    ASSUME Layout, \A x \in Thread : LoopOK(x), SameSizes, NEW t \in Thread, Overlaps(t),
           NEW b \in Bucket, b = MoveBucket(t),
           NEW u, NEW w, NEW s, NEW n, Transfer(t, u, b, w, s, n),
           WrittenTo(t) = w, WrittenTo(t)' = w + n,
           \A v \in Thread \ {t} : pc'[v] = pc[v] /\ move'[v] = move[v]
    PROVE  /\ \A p \in s .. s + n - 1 : Full(p) /\ ~(Full(p)') /\ p \notin w .. w + n - 1
           /\ \A p \in w .. w + n - 1 : Full(p)' /\ ~Full(p)
           /\ \A p : p \notin s .. s + n - 1 /\ p \notin w .. w + n - 1 => (Full(p)' <=> Full(p))
  <1> DEFINE Src == s .. s + n - 1
             Dst == w .. w + n - 1
  <1>1. /\ w \in Int /\ n \in Int /\ n > 0 /\ FillFrom(t) <= w /\ w + n <= FillTo(t)
        /\ \A p \in Dst : p \in Holes(b) /\ p \in Mine(t) /\ p \in Int
        /\ \A p \in Src : p \in Fulls(b) /\ p \in Int
        /\ \A p \in Fulls(b) :
             HolesBefore(b, w) < FullsFrom(b, p) /\ FullsFrom(b, p) <= HolesBefore(b, w + n)
             <=> p \in Src
        /\ HolesBefore(b, FillFrom(t)) <= HolesBefore(b, w)
        /\ HolesBefore(b, w) <= HolesBefore(b, w + n)
    BY DEF Transfer
  <1>2. /\ T' = T /\ Thread' = Thread /\ FlushedBy(Thread)' = FlushedBy(Thread)
        /\ Overlaps(t)' = Overlaps(t) /\ MoveBucket(t)' = MoveBucket(t)
        /\ FillFrom(t)' = FillFrom(t) /\ FillFrom(t) \in Int /\ FillTo(t) \in Int
        /\ Fulls(b)' = Fulls(b)
    BY SameLayout, FillRange
  <1>3. \A p : Fills(t, p)' <=> Fills(t, p) \/ p \in Dst
    <2> SUFFICES ASSUME NEW p PROVE Fills(t, p)' <=> Fills(t, p) \/ p \in Dst
      OBVIOUS
    <2>1. Fills(t, p)' <=> p \in FillFrom(t) .. (w + n) - 1
      BY <1>2 DEF Fills
    <2>2. Fills(t, p) <=> p \in FillFrom(t) .. w - 1
      BY DEF Fills
    <2>3. p \in FillFrom(t) .. (w + n) - 1 <=> p \in FillFrom(t) .. w - 1 \/ p \in Dst
      BY <1>1, <1>2
    <2>4. QED
      BY <2>1, <2>2, <2>3
  <1> HIDE DEF Src, Dst
  <1>4. \A p : Takes(t, p)' <=> Takes(t, p) \/ p \in Src
    <2> SUFFICES ASSUME NEW p PROVE Takes(t, p)' <=> Takes(t, p) \/ p \in Src
      OBVIOUS
    <2>1. CASE p \in Fulls(b)
      <3>1. p \in Int
        BY <2>1, AreaSets
      <3>2. /\ HolesBefore(b, w) \in Nat /\ HolesBefore(b, w + n) \in Nat /\ FullsFrom(b, p) \in Nat
            /\ HolesBefore(b, FillFrom(t)) \in Nat
        <4>1. w + n \in Int /\ \A x \in Int : x <= x
          BY <1>1
        <4>2. QED
          BY <1>1, <1>2, <3>1, <4>1, Counted
      <3>3. Takes(t, p)' <=> /\ HolesBefore(b, FillFrom(t)) < FullsFrom(b, p)
                             /\ FullsFrom(b, p) <= HolesBefore(b, w + n)
        BY <1>2, <2>1, SameLayout DEF Takes
      <3>4. Takes(t, p) <=> /\ HolesBefore(b, FillFrom(t)) < FullsFrom(b, p)
                            /\ FullsFrom(b, p) <= HolesBefore(b, w)
        BY <2>1 DEF Takes
      <3>5. p \in Src <=> /\ HolesBefore(b, w) < FullsFrom(b, p)
                          /\ FullsFrom(b, p) <= HolesBefore(b, w + n)
        BY <1>1, <2>1
      <3>6. QED
        BY <1>1, <3>2, <3>3, <3>4, <3>5
    <2>2. CASE p \notin Fulls(b)
      <3>1. p \notin Src
        BY <1>1, <2>2
      <3>2. ~Takes(t, p) /\ ~(Takes(t, p)')
        BY <1>2, <2>2 DEF Takes
      <3>3. QED
        BY <3>1, <3>2
    <2>3. QED
      BY <2>1, <2>2
  <1>5. \A v \in Thread \ {t} : \A p : (Fills(v, p)' <=> Fills(v, p)) /\ (Takes(v, p)' <=> Takes(v, p))
    BY Resting
  <1>6. ASSUME NEW p \in Src
        PROVE  Full(p) /\ ~(Full(p)') /\ p \notin Dst
    <2>1. p \in FlushedBy(Thread) /\ p \notin Dst
      BY <1>1 DEF Fulls, Holes
    <2>2. \A v \in Thread \ {t} : ~Takes(v, p)
      BY OnlyTaker DEF Src
    <2>3. ~Takes(t, p)
      <3>1. SUFFICES ASSUME Takes(t, p) PROVE FALSE
        OBVIOUS
      <3>2. FullsFrom(b, p) <= HolesBefore(b, w) /\ HolesBefore(b, w) < FullsFrom(b, p)
        BY <1>1, <3>1 DEF Takes
      <3>3. p \in Int /\ w \in Int /\ \A x \in Int : x <= x
        BY <1>1
      <3>4. HolesBefore(b, w) \in Nat /\ FullsFrom(b, p) \in Nat
        BY <3>3, Counted
      <3>5. QED
        BY <3>2, <3>4
    <2>4. Full(p)
      BY <2>1, <2>2, <2>3 DEF Full
    <2>5. \A v \in Thread : ~(Fills(v, p)')
      <3>1. \A v \in Thread : ~Fills(v, p)
        BY <2>1, FilledHole
      <3>2. QED
        BY <1>3, <1>5, <2>1, <3>1
    <2>6. ~(Full(p)')
      BY <1>2, <1>4, <2>5 DEF Full
    <2>7. QED
      BY <2>1, <2>4, <2>6
  <1>7. ASSUME NEW p \in Dst PROVE Full(p)' /\ ~Full(p)
    <2>1. Full(p)'
      BY <1>2, <1>3 DEF Full
    <2>2. p \notin FlushedBy(Thread)
      BY <1>1 DEF Holes
    <2>3. ASSUME NEW v \in Thread, Fills(v, p) PROVE FALSE
      <3>1. p \in Int /\ p \in Mine(v) /\ p \in Mine(t)
        BY <1>1, <2>3, FilledHole
      <3>2. v = t
        <4>1. GoodInput
          BY DEF Layout
        <4>2. /\ MyBegin(v) \in Int /\ MyEnd(v) \in Int /\ MyBegin(t) \in Int /\ MyEnd(t) \in Int
              /\ (v < t => MyEnd(v) <= MyBegin(t)) /\ (t < v => MyEnd(t) <= MyBegin(v))
          BY <4>1, Stripes
        <4>3. v \in Int /\ t \in Int
          BY <4>1 DEF Thread, GoodInput
        <4>4. MyBegin(v) <= p /\ p < MyEnd(v) /\ MyBegin(t) <= p /\ p < MyEnd(t)
          BY <3>1, <4>2 DEF Mine
        <4>5. QED
          BY <3>1, <4>2, <4>3, <4>4
      <3>3. p \in FillFrom(t) .. w - 1
        BY <2>3, <3>2 DEF Fills
      <3>4. p \in w .. w + n - 1
        BY DEF Dst
      <3>5. QED
        BY <1>1, <3>1, <3>3, <3>4
    <2>4. QED
      BY <2>1, <2>2, <2>3 DEF Full
  <1>8. ASSUME NEW p, p \notin Src, p \notin Dst PROVE Full(p)' <=> Full(p)
    <2>1. \A v \in Thread : (Fills(v, p)' <=> Fills(v, p)) /\ (Takes(v, p)' <=> Takes(v, p))
      BY <1>3, <1>4, <1>5, <1>8
    <2>2. QED
      BY <1>2, <2>1 DEF Full
  <1>9. QED
    BY <1>6, <1>7, <1>8 DEF Src, Dst

(* A step of the movement leaves every bucket as many full blocks as it    *)
(* had.                                                                    *)
SameFulls == \A c \in Bucket : Cardinality(FullBlocksOf(c)') = Cardinality(FullBlocksOf(c))

(* Whole blocks go over: the array stays made of blocks of one bucket each,*)
(* what is full is what should be, and no bucket gets more blocks.         *)
LEMMA TransferContents ==
    ASSUME MoveInv, SameSizes, NEW t \in Thread, Overlaps(t), NEW b \in Bucket, b = MoveBucket(t),
           NEW u \in Thread, NEW w, NEW s, NEW n, Transfer(t, u, b, w, s, n),
           WrittenTo(t) = w, WrittenTo(t)' = w + n,
           \A v \in Thread \ {t} : pc'[v] = pc[v] /\ move'[v] = move[v],
           a' = [p \in DOMAIN a |->
                   IF p \in w .. w + n - 1 THEN a[s + p - w]
                   ELSE IF p \in s .. s + n - 1 THEN Gone ELSE a[p]]
    PROVE  Uniform' /\ Filled' /\ (\A c \in Bucket : SpareOf(c)') /\ SameFulls
  <1> DEFINE Src == s .. s + n - 1
             Dst == w .. w + n - 1
             src(p) == s + p - w
  <1>1. /\ Layout /\ GoodInput /\ DOMAIN a = Pos
        /\ \A x \in Thread : LoopOK(x)
        /\ \A p \in Pos : a[p] = a[BlockOfPos(p)] /\ a[p] \in Bucket \cup {Gone}
        /\ \A p \in Pos : a[p] # Gone <=> Full(p)
        /\ \A c \in Bucket : SpareOf(c)
    BY DEF MoveInv, Uniform, Filled, Layout
  <1>2. /\ w \in Int /\ s \in Int /\ n \in Int /\ n > 0 /\ IsBlock(w) /\ IsBlock(s) /\ IsBlock(n)
        /\ \A p \in Dst : p \in Mine(t) /\ p \in Int
        /\ \A p \in Src : p \in Mine(u) /\ p \in Int
    BY DEF Transfer
  <1>3. Dst \subseteq Pos /\ Src \subseteq Pos
    BY <1>1, <1>2, Stripes
  <1>4. /\ \A p \in Src : Full(p) /\ ~(Full(p)') /\ p \notin Dst
        /\ \A p \in Dst : Full(p)' /\ ~Full(p)
        /\ \A p : p \notin Src /\ p \notin Dst => (Full(p)' <=> Full(p))
    BY <1>1, TransferFull
  <1>5. /\ Pos' = Pos /\ Bucket' = Bucket /\ N' = N /\ bucketStart' = bucketStart
    BY SameLayout DEF SameSizes
  <1>6. /\ \A p \in Dst : src(p) \in Src
        /\ \A p, q \in Dst : src(p) = src(q) => p = q
    BY <1>2
  <1>7. \A p \in Src : a[p] \in Bucket /\ a[p] # Gone
    BY <1>1, <1>3, <1>4
  <1>8. /\ DOMAIN a' = Pos
        /\ \A p \in Dst : a'[p] = a[src(p)]
        /\ \A p \in Src : a'[p] = Gone
        /\ \A p \in Pos : p \notin Src /\ p \notin Dst => a'[p] = a[p]
    BY <1>1, <1>3, <1>4
  <1>9. Gone \notin Bucket
    BY <1>1 DEF Gone, Bucket, GoodInput
  <1>10. ASSUME NEW p \in Int
         PROVE  /\ (BlockOfPos(p) \in Dst <=> p \in Dst) /\ (BlockOfPos(p) \in Src <=> p \in Src)
                /\ BlockOfPos(p) \in Int /\ BlockOfPos(p) <= p
                /\ src(BlockOfPos(p)) = BlockOfPos(src(p))
    <2> DEFINE q == BlockOfPos(p)
    <2>1. /\ q \in Int /\ q <= p
          /\ \A x \in Int : IsBlock(x) /\ x <= p => x <= q
      BY InBlock
    <2>2. IsBlock(w + n) /\ IsBlock(s + n) /\ IsBlock(s - w)
      BY <1>2, BlockSum
    <2>3. /\ w + n \in Int /\ s + n \in Int /\ s - w \in Int
      BY <1>2
    <2> HIDE DEF q
    <2>4. (w <= q <=> w <= p) /\ (q < w + n <=> p < w + n)
      BY <1>2, <2>1, <2>2, <2>3
    <2>5. (s <= q <=> s <= p) /\ (q < s + n <=> p < s + n)
      BY <1>2, <2>1, <2>2, <2>3
    <2>6. (q \in Dst <=> p \in Dst) /\ (q \in Src <=> p \in Src)
      BY <1>2, <2>1, <2>4, <2>5
    <2>7. BlockOfPos(p + (s - w)) = BlockOfPos(p) + (s - w)
      BY <2>2, Shifted
    <2>8. src(p) = p + (s - w) /\ src(q) = q + (s - w)
      BY <1>2, <2>1
    <2>9. QED
      BY <2>1, <2>6, <2>7, <2>8 DEF q
  <1> HIDE DEF Src, Dst, src
  <1>11. Uniform'
    <2>1. ASSUME NEW p \in Pos
          PROVE  a'[p] = a'[BlockOfPos(p)] /\ a'[p] \in Bucket \cup {Gone}
      <3> DEFINE q == BlockOfPos(p)
      <3>1. p \in Int /\ 0 <= p /\ p < N /\ N \in Int
        BY <1>1 DEF Pos, GoodInput
      <3>2. q \in Pos
        <4>1. q \in Nat /\ q <= p
          BY <3>1, InBlock
        <4> HIDE DEF q
        <4>2. QED
          BY <3>1, <4>1 DEF Pos
      <3>3. CASE p \in Dst
        <4>1. q \in Dst /\ src(q) = BlockOfPos(src(p))
          BY <1>10, <3>1, <3>3
        <4>2. src(p) \in Pos
          BY <1>3, <1>6, <3>3
        <4>3. a[src(p)] = a[BlockOfPos(src(p))] /\ a[src(p)] \in Bucket \cup {Gone}
          BY <1>1, <4>2
        <4>4. QED
          BY <1>8, <3>3, <4>1, <4>3
      <3>4. CASE p \in Src
        <4>1. q \in Src
          BY <1>10, <3>1, <3>4
        <4>2. QED
          BY <1>8, <3>4, <4>1
      <3>5. CASE p \notin Dst /\ p \notin Src
        <4>1. q \notin Dst /\ q \notin Src
          BY <1>10, <3>1, <3>5
        <4>2. a'[p] = a[p] /\ a'[q] = a[q]
          BY <1>8, <3>2, <3>5, <4>1
        <4>3. QED
          BY <1>1, <4>2
      <3>6. QED
        BY <3>3, <3>4, <3>5
    <2>2. \A p : BlockOfPos(p)' = BlockOfPos(p)
      BY DEF BlockOfPos
    <2>3. QED
      BY <1>5, <1>8, <2>1, <2>2 DEF Uniform, Gone, BlockOfPos
  <1>12. Filled'
    <2>1. ASSUME NEW p \in Pos PROVE a'[p] # Gone <=> Full(p)'
      <3>1. CASE p \in Dst
        <4>1. a'[p] \in Bucket
          BY <1>6, <1>7, <1>8, <3>1
        <4>2. QED
          BY <1>4, <1>9, <3>1, <4>1
      <3>2. CASE p \in Src
        BY <1>4, <1>8, <3>2
      <3>3. CASE p \notin Dst /\ p \notin Src
        BY <1>1, <1>4, <1>8, <3>3
      <3>4. QED
        BY <3>1, <3>2, <3>3
    <2>2. QED
      BY <1>5, <2>1 DEF Filled, Gone
  <1>13. ASSUME NEW c \in Bucket
         PROVE  SpareOf(c)' /\ Cardinality(FullBlocksOf(c)') = Cardinality(FullBlocksOf(c))
    <2> DEFINE F == FullBlocksOf(c)
               G == {p \in Pos : p % BlockSize = 0 /\ a'[p] = c}
               h == [p \in G |-> IF p \in Dst THEN src(p) ELSE p]
               dst(q) == w + q - s
               g == [q \in F |-> IF q \in Src THEN dst(q) ELSE q]
    <2>1. FullBlocksOf(c)' = G /\ F = {p \in Pos : p % BlockSize = 0 /\ a[p] = c}
      BY <1>5 DEF FullBlocksOf, Pos
    <2>2. c # Gone
      BY <1>9
    <2>3. ASSUME NEW p \in G
          PROVE  h[p] \in F /\ (p \notin Dst => p \notin Src)
      <3>1. CASE p \in Dst
        <4>1. src(p) \in Pos /\ a[src(p)] = c
          BY <1>3, <1>6, <1>8, <3>1
        <4>2. p \in Int /\ p % BlockSize = 0 /\ BlockOfPos(p) = p
          BY <1>1, InBlock DEF Pos, IsBlock, GoodInput
        <4>3. src(p) = BlockOfPos(src(p))
          BY <1>10, <4>2
        <4>4. src(p) \in Int
          BY <4>1, <1>1 DEF Pos, GoodInput
        <4>5. IsBlock(src(p))
          BY <4>3, <4>4, InBlock
        <4>6. QED
          BY <2>1, <3>1, <4>1, <4>5 DEF IsBlock
      <3>2. CASE p \notin Dst
        <4>1. p \notin Src
          BY <1>8, <2>2
        <4>2. a[p] = c
          BY <1>8, <3>2, <4>1
        <4>3. QED
          BY <2>1, <3>2, <4>1, <4>2
      <3>3. QED
        BY <3>1, <3>2
    <2>4. \A p, q \in G : h[p] = h[q] => p = q
      <3> SUFFICES ASSUME NEW p \in G, NEW q \in G, h[p] = h[q] PROVE p = q
        OBVIOUS
      <3>1. (p \notin Dst => p \notin Src) /\ (q \notin Dst => q \notin Src)
        BY <2>3
      <3>2. CASE p \in Dst /\ q \in Dst
        BY <1>6, <3>2
      <3>3. CASE p \in Dst /\ q \notin Dst
        BY <1>6, <3>1, <3>3
      <3>4. CASE p \notin Dst /\ q \in Dst
        BY <1>6, <3>1, <3>4
      <3>5. CASE p \notin Dst /\ q \notin Dst
        BY <3>5
      <3>6. QED
        BY <3>2, <3>3, <3>4, <3>5
    <2>5. h \in [G -> F]
      BY <2>3
    <2>6. IsFiniteSet(F)
      <3>1. F \in SUBSET Pos
        BY <2>1
      <3>2. QED
        BY <1>1, <3>1, PosFinite, FS_Subset
    <2>12. ASSUME NEW q \in F
           PROVE  /\ g[q] \in G /\ (q \in Src => g[q] \in Dst) /\ (q \notin Src => q \notin Dst)
                  /\ q \in Int
      <3>1. q \in Pos /\ q \in Int /\ q % BlockSize = 0 /\ a[q] = c
        BY <1>1, <2>1 DEF Pos, GoodInput
      <3>2. q \notin Dst
        BY <1>1, <1>4, <2>2, <3>1
      <3>3. CASE q \in Src
        <4>1. dst(q) \in Dst /\ dst(q) \in Int /\ src(dst(q)) = q
          BY <1>2, <3>1, <3>3 DEF Src, Dst, src
        <4>2. dst(q) \in Pos /\ a'[dst(q)] = c
          BY <1>3, <1>8, <3>1, <4>1
        <4>3. dst(q) % BlockSize = 0
          <5>1. IsBlock(w - s) /\ IsBlock(q)
            BY <1>2, <3>1, BlockSum DEF IsBlock
          <5>2. IsBlock(q + (w - s))
            BY <5>1, BlockSum
          <5>3. dst(q) = q + (w - s)
            BY <1>2, <3>1
          <5>4. QED
            BY <5>2, <5>3 DEF IsBlock
        <4>4. QED
          BY <3>1, <3>2, <3>3, <4>1, <4>2, <4>3
      <3>4. CASE q \notin Src
        BY <1>8, <3>1, <3>2, <3>4
      <3>5. QED
        BY <3>3, <3>4
    <2>13. \A p, q \in F : g[p] = g[q] => p = q
      <3> SUFFICES ASSUME NEW p \in F, NEW q \in F, g[p] = g[q] PROVE p = q
        OBVIOUS
      <3>1. /\ (p \in Src => g[p] \in Dst) /\ (p \notin Src => p \notin Dst) /\ p \in Int
            /\ (q \in Src => g[q] \in Dst) /\ (q \notin Src => q \notin Dst) /\ q \in Int
        BY <2>12
      <3>2. CASE p \in Src /\ q \in Src
        <4>1. dst(p) = dst(q)
          BY <3>2
        <4>2. QED
          BY <1>2, <3>1, <4>1
      <3>3. CASE ~(p \in Src /\ q \in Src)
        BY <3>1, <3>3
      <3>4. QED
        BY <3>2, <3>3
    <2>14. g \in [F -> G]
      BY <2>12
    <2>15. IsFiniteSet(G)
      <3>1. G \in SUBSET Pos
        OBVIOUS
      <3>2. QED
        BY <1>1, <3>1, PosFinite, FS_Subset
    <2> HIDE DEF h, g, F, G
    <2>16. Cardinality(F) <= Cardinality(G)
      BY <2>13, <2>14, <2>15, Injected
    <2>7. /\ Cardinality(G) \in Nat /\ Cardinality(F) \in Nat
          /\ Cardinality(G) <= Cardinality(F)
      BY <2>4, <2>5, <2>6, Injected
    <2>8. F = {} \/ BlockSize * Cardinality(F) < bucketStart[c + 1] - bucketStart[c]
      BY <1>1 DEF SpareOf, F
    <2>9. ASSUME F = {} PROVE SpareOf(c)'
      <3>1. G = {}
        BY <2>5, <2>9
      <3>2. QED
        BY <2>1, <3>1 DEF SpareOf
    <2>10. ASSUME F # {} PROVE SpareOf(c)'
      <3> DEFINE x == bucketStart[c + 1] - bucketStart[c]
                 i == Cardinality(G)
                 j == Cardinality(F)
      <3>1. BlockSize \in Nat /\ i \in Nat /\ j \in Nat /\ i <= j /\ x \in Int
        <4>1. c \in 0 .. NumBuckets /\ c + 1 \in 0 .. NumBuckets /\ N \in Nat /\ c <= c /\ c + 1 <= c + 1
          BY <1>1, Borders
        <4>2. bucketStart[c] \in 0 .. N /\ bucketStart[c + 1] \in 0 .. N
          BY <1>1, <4>1 DEF Layout
        <4>3. QED
          BY <2>7, <4>1, <4>2, Sizes
      <3>2. BlockSize * j < x
        BY <2>8, <2>10
      <3> HIDE DEF x, i, j
      <3>3. BlockSize * i \in Int /\ BlockSize * j \in Int /\ BlockSize * i <= BlockSize * j
        BY <3>1, Scaled
      <3>4. BlockSize * i < x
        BY <3>1, <3>2, <3>3
      <3>5. QED
        BY <1>5, <2>1, <3>4 DEF SpareOf, x, i
    <2>17. Cardinality(FullBlocksOf(c)') = Cardinality(FullBlocksOf(c))
      <3>1. Cardinality(G) = Cardinality(F)
        BY <2>7, <2>16
      <3>2. QED
        BY <2>1, <3>1 DEF F
    <2>11. QED
      BY <2>9, <2>10, <2>17
  <1>14. QED
    BY <1>11, <1>12, <1>13 DEF SameFulls

(* The locals of a thread that takes n places' worth of blocks from stripe *)
(* u.                                                                      *)
Took(f, t, u, n) == [f EXCEPT ![t].from = u, ![t].reserved = 0, ![t].write = @ + n]

(* A local that is set keeps the type of the locals.                       *)
LEMMA OneLocal ==
    ASSUME NEW r \in MoveLocals, NEW x \in Int
    PROVE  /\ [r EXCEPT !.from = x] \in MoveLocals
           /\ [r EXCEPT !.reserved = x] \in MoveLocals
           /\ [r EXCEPT !.write = x] \in MoveLocals
  <1>1. ASSUME NEW k, k = [r EXCEPT !.from = x] PROVE k \in MoveLocals
    BY <1>1 DEF MoveLocals
  <1>2. ASSUME NEW k, k = [r EXCEPT !.reserved = x] PROVE k \in MoveLocals
    BY <1>2 DEF MoveLocals
  <1>3. ASSUME NEW k, k = [r EXCEPT !.write = x] PROVE k \in MoveLocals
    BY <1>3 DEF MoveLocals
  <1>4. QED
    BY <1>1, <1>2, <1>3

(* What becomes of the locals of a thread that takes blocks.               *)
LEMMA LocalsChanged ==
    ASSUME NEW D, NEW f \in [D -> MoveLocals], NEW t \in D, NEW u \in Int, NEW n \in Int
    PROVE  /\ Took(f, t, u, n) \in [D -> MoveLocals]
           /\ \A v \in D \ {t} : Took(f, t, u, n)[v] = f[v]
           /\ LET k == Took(f, t, u, n)[t]
              IN  /\ k.from = u /\ k.reserved = 0 /\ k.write = f[t].write + n
                  /\ k.bucket = f[t].bucket /\ k.end = f[t].end
  <1> DEFINE r == f[t]
             w == f[t].write + n
             r1 == [r EXCEPT !.from = u]
             r2 == [r1 EXCEPT !.reserved = 0]
             r3 == [r2 EXCEPT !.write = w]
  <1>1. r \in MoveLocals
    OBVIOUS
  <1>2. w \in Int /\ 0 \in Int
    BY <1>1 DEF MoveLocals
  <1>3. Took(f, t, u, n) = [f EXCEPT ![t] = r3]
    BY DEF Took
  <1> HIDE DEF r, w
  <1>4. r3.from = u /\ r3.reserved = 0 /\ r3.write = w /\ r3.bucket = r.bucket /\ r3.end = r.end
    <2>1. ASSUME NEW k, k = [r EXCEPT !.from = u, !.reserved = 0, !.write = w]
          PROVE  k.from = u /\ k.reserved = 0 /\ k.write = w /\ k.bucket = r.bucket /\ k.end = r.end
      BY <1>1, <2>1 DEF MoveLocals
    <2>2. QED
      BY <2>1
  <1> HIDE DEF r1, r2, r3
  <1>5. r1 \in MoveLocals
    BY <1>1, OneLocal DEF r1
  <1>6. r2 \in MoveLocals
    BY <1>2, <1>5, OneLocal DEF r2
  <1>7. r3 \in MoveLocals
    BY <1>2, <1>6, OneLocal DEF r3
  <1>8. /\ Took(f, t, u, n) \in [D -> MoveLocals] /\ Took(f, t, u, n)[t] = r3
        /\ \A v \in D \ {t} : Took(f, t, u, n)[v] = f[v]
    BY <1>3, <1>7
  <1>9. QED
    BY <1>4, <1>8 DEF w, r

(* A turn of the loop that moves blocks keeps the invariant.               *)
LEMMA TakeStep ==
    ASSUME MoveInv, NEW t \in Thread, MoveBlocks(t),
           NEW u, u = move[t].from - 1, NEW b, b = MoveBucket(t),
           NEW e, e = Min({firstEmpty[u], BlockStart(b + 1)}),
           ~(move[t].reserved >= e - firstBlock[u])
    PROVE  MoveInv' /\ SameFulls
  <1> DEFINE m == move[t]
             r == m.reserved
             w == m.write
             n == Min({(e - MyBegin(u)) - r, FillTo(t) - w})
  <1>1. /\ Layout /\ LoopOK(t) /\ pc[t] = "moveBlocks" /\ m.write < m.end
        /\ pc \in [Thread -> Moving] /\ move \in [Thread -> MoveLocals]
        /\ \A v \in Thread : LoopOK(v) /\ PointersOK(v)
    BY DEF MoveInv, MoveBlocks
  <1>2. /\ Overlaps(t) /\ m.bucket = b /\ m.end = FillTo(t)
        /\ u \in Thread /\ t < u /\ u + 1 = m.from /\ b \in Bucket
        /\ MyBegin(u) < BlockStart(b + 1) /\ BlockStart(b) < MyEnd(t)
        /\ firstBlock[u] = MyBegin(u) /\ MyBegin(u) = StripeAt(u)
        /\ HolesBefore(b, m.write) = FullsFrom(b, StripeAt(u + 1)) + r
        /\ IsBlock(w) /\ FillFrom(t) <= w
        /\ IsBlock(r) /\ r >= 0
    BY <1>1, Turn
  <1>3. Share(u, b, e)
    BY <1>1, <1>2, ShareFound
  <1>4. /\ r \in Int /\ w \in Int /\ w < FillTo(t) /\ e \in Int /\ MyBegin(u) \in Int
        /\ r < e - MyBegin(u)
    <2>1. e \in Int /\ MyBegin(u) \in Int
      BY <1>1, <1>2, <1>3, Stripes DEF Share, Layout
    <2>2. QED
      BY <1>1, <1>2, <2>1 DEF IsBlock
  <1> DEFINE s == e - r - n
  <1>5. /\ Transfer(t, u, b, w, s, n)
        /\ w + n < FillTo(t) => FullsFrom(b, StripeAt(u)) = HolesBefore(b, w + n)
    <2> DEFINE left == (e - MyBegin(u)) - r
               room == FillTo(t) - w
    <2>1. HolesBefore(b, w) = FullsFrom(b, StripeAt(u + 1)) + r
      BY <1>2
    <2>2. n = Min({left, room})
      OBVIOUS
    <2>3. left = (e - MyBegin(u)) - r /\ room = FillTo(t) - w
      OBVIOUS
    <2>4. s = e - r - n
      OBVIOUS
    <2> HIDE DEF r, w, n, left, room, m, s
    <2>5. Layout /\ Overlaps(t) /\ u \in Thread /\ t < u /\ b \in Bucket /\ MyBegin(u) < BlockStart(b + 1)
      BY <1>1, <1>2
    <2>6. /\ w \in Int /\ IsBlock(w) /\ FillFrom(t) <= w /\ w < FillTo(t)
          /\ r \in Int /\ IsBlock(r) /\ r >= 0 /\ r < e - MyBegin(u)
      BY <1>2, <1>4
    <2>7. /\ Transfer(t, u, b, w, e - r - n, n)
          /\ w + n < FillTo(t) => FullsFrom(b, StripeAt(u)) = HolesBefore(b, w + n)
      BY <2>1, <2>2, <2>3, <2>5, <2>6, Taking
    <2>8. QED
      BY <2>4, <2>7
  <1>6. /\ move' = [move EXCEPT ![t].from = u, ![t].reserved = 0, ![t].write = @ + n]
        /\ a' = [p \in DOMAIN a |->
                   IF p \in w .. w + n - 1 THEN a[(e - r) - n + p - w]
                   ELSE IF p \in (e - r) - n .. (e - r) - 1 THEN Gone ELSE a[p]]
        /\ pc' = pc /\ ptr' = ptr /\ SameSizes
    <2>1. ~(m.reserved >= Min({firstEmpty[m.from - 1], BlockStart(m.bucket + 1)}) - firstBlock[m.from - 1])
      BY <1>2
    <2>2. QED
      BY <1>2, <2>1 DEF MoveBlocks, SameSizes
  <1>7. n \in Int /\ s \in Int /\ n > 0 /\ IsBlock(n) /\ w + n <= FillTo(t)
    <2> HIDE DEF n, s, w
    <2>1. QED
      BY <1>5 DEF Transfer
  <1>8. a' = [p \in DOMAIN a |->
                IF p \in w .. w + n - 1 THEN a[s + p - w]
                ELSE IF p \in s .. s + n - 1 THEN Gone ELSE a[p]]
    <2> HIDE DEF n, w, r
    <2>1. s = (e - r) - n
      OBVIOUS
    <2>2. s + n - 1 = (e - r) - 1
      BY <1>4, <1>7, <2>1
    <2> HIDE DEF s
    <2>3. a' = [p \in DOMAIN a |->
                  IF p \in w .. w + n - 1 THEN a[(e - r) - n + p - w]
                  ELSE IF p \in (e - r) - n .. (e - r) - 1 THEN Gone ELSE a[p]]
      BY <1>6
    <2>4. QED
      BY <2>1, <2>2, <2>3
  <1> HIDE DEF n, s
  <1>9. /\ move' \in [Thread -> MoveLocals]
        /\ \A v \in Thread \ {t} : pc'[v] = pc[v] /\ move'[v] = move[v]
        /\ move'[t].from = u /\ move'[t].reserved = 0 /\ move'[t].write = move[t].write + n
        /\ move'[t].bucket = move[t].bucket /\ move'[t].end = move[t].end
    <2>1. u \in Int /\ n \in Int
      BY <1>1, <1>2, <1>7 DEF Thread, Layout, GoodInput
    <2>2. pc' = pc /\ move \in [Thread -> MoveLocals]
          /\ move' = [move EXCEPT ![t].from = u, ![t].reserved = 0, ![t].write = @ + n]
      BY <1>1, <1>6
    <2>3. move' = Took(move, t, u, n)
      BY <2>2 DEF Took
    <2>4. /\ Took(move, t, u, n) \in [Thread -> MoveLocals]
          /\ \A v \in Thread \ {t} : Took(move, t, u, n)[v] = move[v]
          /\ LET k == Took(move, t, u, n)[t]
             IN  /\ k.from = u /\ k.reserved = 0 /\ k.write = move[t].write + n
                 /\ k.bucket = move[t].bucket /\ k.end = move[t].end
      BY <2>1, <2>2, LocalsChanged
    <2>5. QED
      BY <2>2, <2>3, <2>4
  <1>10. /\ move'[t].from = u /\ move'[t].reserved = 0 /\ move'[t].bucket = m.bucket
         /\ move'[t].write = w + n /\ move'[t].end = m.end
    BY <1>9
  <1>11. WrittenTo(t) = w /\ WrittenTo(t)' = w + n
    BY <1>1, <1>6, <1>10 DEF WrittenTo
  <1> HIDE DEF w, r, m
  <1>12. Uniform' /\ Filled' /\ (\A c \in Bucket : SpareOf(c)') /\ SameFulls
    <2>1. /\ Overlaps(t) /\ u \in Thread /\ b \in Bucket /\ SameSizes
          /\ Transfer(t, u, b, w, s, n) /\ WrittenTo(t) = w /\ WrittenTo(t)' = w + n
          /\ \A v \in Thread \ {t} : pc'[v] = pc[v] /\ move'[v] = move[v]
      BY <1>2, <1>5, <1>6, <1>9, <1>11
    <2>2. QED
      BY <1>8, <2>1, TransferContents
  <1>13. LoopOK(t)'
    <2>1. GoodInput /\ u \in t + 1 .. T
      BY <1>1, <1>2 DEF Thread, Layout, GoodInput
    <2>2. u = t + 1 \/ BlockStart(b + 1) > MyBegin(u - 1)
      <3>1. CASE u # t + 1
        <4>1. t \in Int /\ u \in Int /\ T \in Int /\ 0 <= t /\ u < T
          BY <1>1, <1>2, <2>1 DEF Thread, GoodInput
        <4>2. u - 1 \in Thread /\ u - 1 < u
          BY <1>2, <3>1, <4>1 DEF Thread
        <4>3. /\ MyBegin(u - 1) \in Int /\ MyEnd(u - 1) \in Int
              /\ MyBegin(u - 1) < MyEnd(u - 1) /\ MyEnd(u - 1) <= MyBegin(u)
          BY <1>2, <2>1, <4>2, Stripes
        <4>4. BlockStart(b + 1) \in Int
          BY <1>1, <1>2, Borders
        <4>5. QED
          BY <1>2, <1>4, <4>3, <4>4
      <3>2. QED
        BY <3>1
    <2>3. IsBlock(w + n) /\ FillFrom(t) <= w + n /\ IsBlock(0)
      <3>1. IsBlock(w + n) /\ IsBlock(n - n)
        BY <1>2, <1>7, BlockSum
      <3>2. FillFrom(t) \in Int
        BY <1>1, <1>2, FillRange
      <3>3. QED
        BY <1>2, <1>4, <1>7, <3>1, <3>2
    <2>4. w + n < m.end => FullsFrom(b, StripeAt(u)) + 0 = HolesBefore(b, w + n)
      <3>1. StripeAt(u) \in Int /\ \A x \in Int : x <= x
        BY <1>2, <1>4
      <3>2. FullsFrom(b, StripeAt(u)) \in Nat
        BY <1>1, <1>2, <3>1, Counted
      <3>3. QED
        BY <1>2, <1>5, <3>2 DEF m
    <2>5. /\ Overlaps(t)' = Overlaps(t) /\ MoveBucket(t)' = b /\ T' = T
          /\ FillFrom(t)' = FillFrom(t) /\ FillTo(t)' = FillTo(t)
          /\ BlockStart(b + 1)' = BlockStart(b + 1) /\ MyBegin(u - 1)' = MyBegin(u - 1)
          /\ FullsFrom(b, StripeAt(u))' = FullsFrom(b, StripeAt(u))
      BY <1>6, SameLayout
    <2>6. /\ FullsFrom(b, StripeAt(move[t].from))' = FullsFrom(b, StripeAt(u))
          /\ HolesBefore(b, move[t].write)' = HolesBefore(b, w + n)
          /\ MyBegin(move[t].from - 1)' = MyBegin(u - 1)
      BY <1>6, <1>10, SameLayout
    <2>7. /\ Overlaps(t) /\ m.bucket = b /\ m.end = FillTo(t)
      BY <1>2 DEF m
    <2>8. QED
      BY <1>6, <1>7, <1>10, <2>1, <2>2, <2>3, <2>4, <2>5, <2>6, <2>7, SameLayout DEF LoopOK
  <1>14. ASSUME NEW v \in Thread PROVE PointersOK(v)'
    BY <1>1, <1>6, PtrsKept
  <1>15. pc' \in [Thread -> Moving] /\ DOMAIN ptr' = Bucket
    BY <1>6 DEF MoveInv
  <1>16. MoveInv'
    BY <1>6, <1>9, <1>12, <1>13, <1>14, <1>15, MoveFrame
  <1>17. QED
    BY <1>12, <1>16

-----------------------------------------------------------------------------
(* The steps of the movement                                               *)

(* A turn of the loop, whichever way it goes.                              *)
LEMMA MoveBlocksStep ==
    ASSUME MoveInv, NEW t \in Thread, MoveBlocks(t)
    PROVE  MoveInv' /\ SameFulls
  <1> DEFINE u == move[t].from - 1
             b == MoveBucket(t)
             e == Min({firstEmpty[u], BlockStart(b + 1)})
  <1>1. CASE move[t].reserved >= e - firstBlock[u]
    <2>1. MoveInv' /\ a' = a /\ input' = input
      BY <1>1, SkipStep
    <2>2. QED
      BY <2>1 DEF SameFulls, FullBlocksOf, N
  <1>2. CASE ~(move[t].reserved >= e - firstBlock[u])
    BY <1>2, TakeStep
  <1>3. QED
    BY <1>1, <1>2

(* Pointers that are set are set once for all: what another thread sets    *)
(* does not disturb a thread.                                              *)
LEMMA PtrsAgree ==
    ASSUME SameSizes, NEW v, pc'[v] = pc[v], PointersOK(v),
           \A c \in Bucket : ptr'[c] = ptr[c] \/ ptr'[c] = PtrAt(c, FirstEmptyInBucket(c))
    PROVE  PointersOK(v)'
  <1>1. \A b : PtrAt(b, FirstEmptyInBucket(b))' = PtrAt(b, FirstEmptyInBucket(b))
    BY SameLayout DEF PtrAt
  <1>2. /\ Bucket' = Bucket /\ RangeStart(v)' = RangeStart(v) /\ RangeEnd(v)' = RangeEnd(v)
        /\ MoveBucket(v)' = MoveBucket(v)
    BY SameLayout
  <1>3. QED
    BY <1>1, <1>2 DEF PointersOK

(* A thread ends its loop when it has filled all its holes.                *)
LEMMA EndMoveStep ==
    ASSUME MoveInv, NEW t \in Thread, EndMove(t)
    PROVE  MoveInv'
  <1> DEFINE b == MoveBucket(t)
             w == move[t].write
  <1>1. /\ Layout /\ LoopOK(t) /\ PointersOK(t) /\ pc[t] = "moveBlocks" /\ DOMAIN ptr = Bucket
        /\ pc \in [Thread -> Moving] /\ move \in [Thread -> MoveLocals] /\ w >= move[t].end
    BY DEF MoveInv, EndMove
  <1>2. /\ Overlaps(t) /\ move[t].bucket = b /\ move[t].end = FillTo(t)
        /\ w \in Int /\ FillFrom(t) <= w /\ (w <= FillTo(t) \/ w = FillFrom(t))
    BY <1>1 DEF LoopOK, IsBlock
  <1>3. b \in Bucket /\ FillFrom(t) \in Int /\ FillTo(t) \in Int
    BY <1>1, <1>2, FillRange
  <1>4. /\ SameSizes /\ a' = a /\ pc' = [pc EXCEPT ![t] = "moved"]
        /\ move' = [move EXCEPT ![t] = NoMove]
        /\ ptr' = IF MyBegin(t) <= BlockStart(b)
                  THEN [ptr EXCEPT ![b] = PtrAt(b, FirstEmptyInBucket(b))] ELSE ptr
    BY <1>2 DEF EndMove, SameSizes, Goto
  <1>5. /\ pc'[t] = "moved" /\ pc' \in [Thread -> Moving]
        /\ \A v \in Thread \ {t} : pc'[v] = pc[v] /\ move'[v] = move[v]
    BY <1>1, <1>4 DEF Moving
  <1>6. move' \in [Thread -> MoveLocals]
    <2>1. NoMove \in MoveLocals
      BY DEF NoMove, MoveLocals
    <2>2. QED
      BY <1>1, <1>4, <2>1
  <1>7. WrittenTo(t)' = WrittenTo(t)
    <2>1. WrittenTo(t) = w
      BY <1>1 DEF WrittenTo
    <2>2. WrittenTo(t)' = IF FillFrom(t) < FillTo(t) THEN FillTo(t) ELSE FillFrom(t)
      BY <1>4, <1>5, SameLayout DEF WrittenTo
    <2>3. w >= FillTo(t)
      BY <1>1, <1>2
    <2> HIDE DEF w
    <2>4. QED
      BY <1>2, <1>3, <2>1, <2>2, <2>3
  <1>8. \A v \in Thread : \A p : (Fills(v, p)' <=> Fills(v, p)) /\ (Takes(v, p)' <=> Takes(v, p))
    <2> SUFFICES ASSUME NEW v \in Thread, NEW p
                 PROVE  (Fills(v, p)' <=> Fills(v, p)) /\ (Takes(v, p)' <=> Takes(v, p))
      OBVIOUS
    <2>1. CASE v = t
      <3>1. Fills(t, p)' <=> Fills(t, p)
        BY <1>4, <1>7, SameLayout DEF Fills
      <3>2. Takes(t, p)' <=> Takes(t, p)
        BY <1>4, <1>7, SameLayout DEF Takes
      <3>3. QED
        BY <2>1, <3>1, <3>2
    <2>2. CASE v # t
      BY <1>4, <1>5, <2>2, Resting
    <2>3. QED
      BY <2>1, <2>2
  <1>9. Uniform' /\ Filled' /\ \A c \in Bucket : SpareOf(c)'
    BY <1>4, <1>8, SameContents
  <1>10. LoopOK(t)'
    BY <1>5 DEF LoopOK
  <1>11. \A c \in Bucket : ptr'[c] = ptr[c] \/ ptr'[c] = PtrAt(c, FirstEmptyInBucket(c))
    BY <1>1, <1>3, <1>4
  <1>12. ASSUME NEW v \in Thread PROVE PointersOK(v)'
    <2>1. CASE v # t
      BY <1>4, <1>5, <1>11, <2>1, PtrsAgree DEF MoveInv
    <2>2. CASE v = t
      <3>1. \A c : PtrAt(c, FirstEmptyInBucket(c))' = PtrAt(c, FirstEmptyInBucket(c))
        BY <1>4, SameLayout DEF PtrAt
      <3>2. /\ Bucket' = Bucket /\ RangeStart(t)' = RangeStart(t) /\ RangeEnd(t)' = RangeEnd(t)
            /\ MoveBucket(t)' = MoveBucket(t)
        BY <1>4, SameLayout
      <3>3. ASSUME NEW c \in Bucket, RangeStart(t) <= c, c < RangeEnd(t)
            PROVE  ptr'[c] = PtrAt(c, FirstEmptyInBucket(c))
        <4>1. CASE c = b
          <5>1. c \in 0 .. NumBuckets
            BY <1>1, Borders
          <5>2. MyBegin(t) <= BlockStart(b)
            BY <1>1, <3>3, <4>1, <5>1, Ranges
          <5>3. QED
            BY <1>1, <1>3, <1>4, <4>1, <5>2
        <4>2. CASE c # b
          <5>1. ptr[c] = PtrAt(c, FirstEmptyInBucket(c))
            BY <1>1, <3>3, <4>2 DEF PointersOK
          <5>2. QED
            BY <1>11, <5>1
        <4>3. QED
          BY <4>1, <4>2
      <3>4. QED
        BY <2>2, <3>1, <3>2, <3>3 DEF PointersOK
    <2>3. QED
      BY <2>1, <2>2
  <1>13. DOMAIN ptr' = Bucket
    BY <1>1, <1>4
  <1>14. QED
    BY <1>4, <1>5, <1>6, <1>9, <1>10, <1>12, <1>13, MoveFrame

(* A bucket that lies inside one stripe is full up to the stripe's first   *)
(* empty block.                                                            *)
LEMMA FullUpToIs ==
    ASSUME Layout, NEW t \in Thread, NEW b \in Bucket, MyBegin(t) <= BlockStart(b),
           BlockStart(b + 1) <= MyEnd(t) \/ t = T - 1
    PROVE  FullUpTo(t, b) = FirstEmptyInBucket(b)
  <1> DEFINE S == BlockStart(b)
             E == BlockStart(b + 1)
             f == firstEmpty[t]
             X == FullUpTo(t, b)
  <1>1. S \in Nat /\ E \in Nat /\ S <= E
    <2>1. b \in 0 .. NumBuckets /\ b + 1 \in 0 .. NumBuckets /\ b \in Int /\ b <= b + 1
      BY Borders
    <2>2. QED
      BY <2>1, Borders
  <1>2. /\ MyBegin(t) \in Nat /\ MyEnd(t) \in Nat /\ N \in Nat /\ MyEnd(t) <= N
        /\ f \in Int /\ MyBegin(t) <= f /\ f <= MyEnd(t) /\ (t = T - 1 => MyEnd(t) = N)
    <2>1. GoodInput /\ IsBlock(f) /\ MyBegin(t) <= f /\ f <= MyEnd(t)
      BY DEF Layout
    <2>2. QED
      BY <2>1, Stripes DEF IsBlock, GoodInput
  <1>3. X = IF f <= S THEN S ELSE IF f <= E THEN f ELSE E
    <2> DEFINE y == Min({f, E})
    <2>1. y = IF f <= E THEN f ELSE E
      <3> HIDE DEF f, E
      <3>1. f \in Int /\ E \in Int
        BY <1>1, <1>2
      <3>2. Min({f, E}) = IF f <= E THEN f ELSE E
        BY <3>1, MaxMinOfTwo
      <3>3. QED
        BY <3>2 DEF f, E
    <2>2. y \in Int
      BY <1>1, <1>2, <2>1
    <2>3. X = Max({S, y})
      BY DEF FullUpTo
    <2> HIDE DEF y, S, E, f, X
    <2>4. Max({S, y}) = IF S >= y THEN S ELSE y
      BY <1>1, <2>2, MaxMinOfTwo
    <2>5. QED
      BY <1>1, <1>2, <2>1, <2>3, <2>4
  <1>4. Fulls(b) = S .. X - 1
    <2>1. ASSUME NEW p \in Fulls(b) PROVE p \in S .. X - 1
      <3>1. p \in Int /\ S <= p /\ p < E /\ p \in Pos /\ p \in FlushedBy(Thread)
        <4>1. p \in Area(b) /\ p \in Pos
          BY AreaSets
        <4>2. p \in FlushedBy(Thread)
          BY DEF Fulls
        <4>3. QED
          BY <4>1, <4>2, AreaSets
      <3>2. p < N
        BY <1>2, <3>1 DEF Pos
      <3>3. p \in Mine(t)
        <4>1. E <= MyEnd(t) \/ MyEnd(t) = N
          BY <1>2
        <4>2. MyBegin(t) <= p /\ p < MyEnd(t)
          <5> HIDE DEF S, E
          <5>1. MyBegin(t) <= S
            BY DEF S
          <5>2. QED
            BY <1>1, <1>2, <3>1, <3>2, <4>1, <5>1
        <4>3. QED
          BY <1>2, <3>1, <4>2 DEF Mine
      <3>4. p < f
        BY <3>1, <3>3, FlushedPlaces
      <3> HIDE DEF S, E, f, X
      <3>5. QED
        BY <1>1, <1>2, <1>3, <3>1, <3>4
    <2>2. ASSUME NEW p \in S .. X - 1 PROVE p \in Fulls(b)
      <3> HIDE DEF S, E, f, X
      <3>1. p \in Int /\ S <= p /\ p < E /\ p < f
        BY <1>1, <1>2, <1>3
      <3>2. p \in Mine(t) /\ p \in Area(b)
        BY <1>1, <1>2, <3>1 DEF Mine, Area, S, E
      <3>3. p \in FlushedBy(Thread)
        BY <3>1, <3>2, FlushedPlaces DEF f
      <3>4. QED
        BY <3>2, <3>3 DEF Fulls
    <2> HIDE DEF S, X
    <2>3. QED
      BY <2>1, <2>2
  <1> HIDE DEF S, E, f, X
  <1>5. Cardinality(S .. X - 1) = X - S
    <2>1. X \in Int /\ S \in Int /\ S <= X
      BY <1>1, <1>2, <1>3
    <2>2. Cardinality(S .. X - 1) = IF S > X - 1 THEN 0 ELSE (X - 1) - S + 1
      BY <2>1, FS_Interval
    <2>3. QED
      BY <2>1, <2>2
  <1>6. FirstEmptyInBucket(b) = S + Cardinality(Fulls(b))
    BY Balance DEF S
  <1>7. X \in Int
    BY <1>1, <1>2, <1>3
  <1>8. X = FirstEmptyInBucket(b)
    BY <1>1, <1>4, <1>5, <1>6, <1>7
  <1>9. QED
    BY <1>8 DEF X

(* What a thread finds when the movement starts.                           *)
LEMMA FirstTurn ==
    ASSUME Layout, NEW t \in Thread, Overlaps(t), NEW b, b = MoveBucket(t)
    PROVE  /\ ReadFrom(t, b) \in t + 1 .. T
           /\ ReadFrom(t, b) = t + 1 \/ BlockStart(b + 1) > MyBegin(ReadFrom(t, b) - 1)
           /\ FullsFrom(b, StripeAt(ReadFrom(t, b))) = 0
           /\ Reserved(t, b) = HolesBefore(b, FillFrom(t))
           /\ IsBlock(Reserved(t, b)) /\ Reserved(t, b) >= 0
  <1> DEFINE E == BlockStart(b + 1)
             S == {t} \cup {u \in t + 1 .. T - 1 : BlockStart(b + 1) > firstBlock[u]}
             k == Max(S)
  <1>1. /\ b \in Bucket /\ FillFrom(t) \in Int /\ IsBlock(FillFrom(t))
        /\ Reserved(t, b) = HolesBefore(b, FillFrom(t))
    BY FillRange
  <1>2. GoodInput /\ t \in Int /\ T \in Int /\ N \in Nat /\ 0 <= t /\ t < T
    BY DEF Thread, Layout, GoodInput
  <1>3. \A u \in t + 1 .. T - 1 : u \in Thread /\ firstBlock[u] = MyBegin(u) /\ MyBegin(u) = StripeAt(u)
    <2>1. \A u \in t + 1 .. T - 1 : u \in Thread
      BY <1>2 DEF Thread
    <2>2. QED
      BY <1>2, <2>1, Stripes DEF Layout
  <1>4. /\ k \in S /\ k \in t .. T - 1 /\ \A u \in S : u <= k
    <2>1. S \in SUBSET (t .. T - 1) /\ t \in S
      BY <1>2
    <2>2. IsFiniteSet(t .. T - 1)
      BY <1>2, FS_Interval
    <2>3. IsFiniteSet(S) /\ S \in SUBSET Int /\ S # {}
      BY <1>2, <2>1, <2>2, FS_Subset
    <2> HIDE DEF S
    <2>4. k \in S /\ \A u \in S : u <= k
      BY <2>3, MaxMin
    <2>5. QED
      BY <2>1, <2>4
  <1>5. ReadFrom(t, b) = k + 1
    BY DEF ReadFrom
  <1>6. k \in Int /\ t <= k /\ k < T /\ (k = t \/ E > MyBegin(k))
    BY <1>2, <1>3, <1>4
  <1>7. E \in Nat
    <2>1. b + 1 \in 0 .. NumBuckets
      BY <1>1, Borders
    <2>2. QED
      BY <2>1, Borders
  <1>8. ASSUME NEW p \in Fulls(b) PROVE p \in Int /\ StripeAt(k + 1) \in Int /\ p < StripeAt(k + 1)
    <2>1. p \in Int /\ p < E /\ p < N
      BY <1>1, <1>2, AreaSets DEF Fulls, Pos
    <2>2. CASE k + 1 = T
      <3>1. StripeAt(k + 1) \in Nat /\ StripeAt(k + 1) >= N
        BY <1>2, <1>6, <2>2, StripeBorders
      <3>2. QED
        BY <1>2, <2>1, <3>1
    <2>3. CASE k + 1 # T
      <3>1. k + 1 \in t + 1 .. T - 1 /\ ~(k + 1 <= k)
        BY <1>2, <1>6, <2>3
      <3>2. k + 1 \notin S
        BY <1>4, <3>1
      <3>3. ~(E > MyBegin(k + 1)) /\ MyBegin(k + 1) = StripeAt(k + 1)
        BY <1>3, <3>1, <3>2
      <3>4. k + 1 \in Thread
        BY <1>3, <3>1
      <3>5. MyBegin(k + 1) \in Nat
        BY <1>2, <3>4, Stripes
      <3> HIDE DEF E, k
      <3>6. QED
        BY <1>7, <2>1, <3>3, <3>5
    <2>4. QED
      BY <2>2, <2>3
  <1> HIDE DEF k, S, E
  <1>9. FullsFrom(b, StripeAt(k + 1)) = 0
    <2>1. {p \in Fulls(b) : p >= StripeAt(k + 1)} = {}
      BY <1>8
    <2>2. QED
      BY <2>1, FS_EmptySet DEF FullsFrom
  <1>10. IsBlock(Reserved(t, b)) /\ Reserved(t, b) >= 0
    <2>1. HolesBefore(b, FillFrom(t)) % BlockSize = 0
      BY <1>1, WholeBlocks
    <2>2. FillFrom(t) <= FillFrom(t)
      BY <1>1
    <2>3. HolesBefore(b, FillFrom(t)) \in Nat
      BY <1>1, <2>2, Counted
    <2>4. QED
      BY <1>1, <2>1, <2>3 DEF IsBlock
  <1>11. k + 1 \in t + 1 .. T /\ (k + 1 = t + 1 \/ E > MyBegin((k + 1) - 1))
    <2>1. (k + 1) - 1 = k
      BY <1>6
    <2>2. QED
      BY <1>2, <1>6, <2>1
  <1>12. QED
    BY <1>1, <1>5, <1>9, <1>10, <1>11 DEF E

(* A thread sets the pointers of the buckets that lie inside its stripe    *)
(* and begins its loop.                                                    *)
LEMMA StartMoveStep ==
    ASSUME MoveInv, NEW t \in Thread, StartMove(t)
    PROVE  MoveInv'
  <1> DEFINE b == MoveBucket(t)
             mine == RangeStart(t) .. (IF Overlaps(t) THEN b - 1 ELSE b)
             m == [bucket |-> b, from |-> ReadFrom(t, b), reserved |-> Reserved(t, b),
                   write |-> FillFrom(t), end |-> FillTo(t)]
  <1>1. /\ Layout /\ pc[t] = "move" /\ DOMAIN ptr = Bucket
        /\ pc \in [Thread -> Moving] /\ move \in [Thread -> MoveLocals]
        /\ \A v \in Thread : PointersOK(v)
    BY DEF MoveInv, StartMove
  <1>2. /\ SameSizes /\ a' = a
        /\ pc' = [pc EXCEPT ![t] = IF Overlaps(t) THEN "moveBlocks" ELSE "moved"]
        /\ move' = IF Overlaps(t) THEN [move EXCEPT ![t] = m] ELSE move
        /\ ptr' = [c \in Bucket |-> IF c \in mine THEN PtrAt(c, FullUpTo(t, c)) ELSE ptr[c]]
    BY DEF StartMove, SameSizes, Goto, MoveBucket, FillFrom, FillTo
  <1>3. /\ b \in Bucket /\ RangeStart(t) \in Int /\ RangeEnd(t) \in Int
        /\ b \in Int /\ b + 1 = RangeEnd(t)
    BY <1>1, Ranges DEF MoveBucket
  <1>4. ASSUME Overlaps(t) PROVE m \in MoveLocals
    <2>1. FillFrom(t) \in Int /\ FillTo(t) \in Int
      BY <1>1, <1>4, FillRange
    <2>2. ReadFrom(t, b) \in t + 1 .. T /\ Reserved(t, b) \in Int
      BY <1>1, <1>4, FirstTurn DEF IsBlock
    <2>3. ReadFrom(t, b) \in Int /\ b \in Int
      BY <1>1, <1>3, <2>2 DEF Thread, Bucket, Layout, GoodInput
    <2> HIDE DEF b
    <2>4. QED
      BY <2>1, <2>2, <2>3 DEF MoveLocals
  <1> HIDE DEF m
  <1>5. /\ pc'[t] = (IF Overlaps(t) THEN "moveBlocks" ELSE "moved") /\ pc' \in [Thread -> Moving]
        /\ \A v \in Thread \ {t} : pc'[v] = pc[v] /\ move'[v] = move[v]
        /\ move' \in [Thread -> MoveLocals] /\ (Overlaps(t) => move'[t] = m)
    BY <1>1, <1>2, <1>4 DEF Moving
  <1>6. Overlaps(t) => WrittenTo(t)' = WrittenTo(t)
    <2> SUFFICES ASSUME Overlaps(t) PROVE WrittenTo(t)' = WrittenTo(t)
      OBVIOUS
    <2>1. WrittenTo(t) = FillFrom(t)
      BY <1>1 DEF WrittenTo
    <2>2. WrittenTo(t)' = FillFrom(t)
      BY <1>5 DEF WrittenTo, m
    <2>3. QED
      BY <2>1, <2>2
  <1>7. \A v \in Thread : \A p : (Fills(v, p)' <=> Fills(v, p)) /\ (Takes(v, p)' <=> Takes(v, p))
    <2> SUFFICES ASSUME NEW v \in Thread, NEW p
                 PROVE  (Fills(v, p)' <=> Fills(v, p)) /\ (Takes(v, p)' <=> Takes(v, p))
      OBVIOUS
    <2>1. CASE v = t
      <3>1. Fills(t, p)' <=> Fills(t, p)
        BY <1>2, <1>6, SameLayout DEF Fills
      <3>2. Takes(t, p)' <=> Takes(t, p)
        BY <1>2, <1>6, SameLayout DEF Takes
      <3>3. QED
        BY <2>1, <3>1, <3>2
    <2>2. CASE v # t
      BY <1>2, <1>5, <2>2, Resting
    <2>3. QED
      BY <2>1, <2>2
  <1>8. Uniform' /\ Filled' /\ \A c \in Bucket : SpareOf(c)'
    BY <1>2, <1>7, SameContents
  <1>9. LoopOK(t)'
    <2>1. CASE ~Overlaps(t)
      BY <1>5, <2>1 DEF LoopOK
    <2>2. CASE Overlaps(t)
      <3>1. /\ move'[t].bucket = b /\ move'[t].from = ReadFrom(t, b)
            /\ move'[t].reserved = Reserved(t, b) /\ move'[t].write = FillFrom(t)
            /\ move'[t].end = FillTo(t)
        BY <1>5, <2>2 DEF m
      <3>2. FillFrom(t) \in Int /\ IsBlock(FillFrom(t))
        BY <1>1, <2>2, FillRange
      <3>3. /\ ReadFrom(t, b) \in t + 1 .. T
            /\ ReadFrom(t, b) = t + 1 \/ BlockStart(b + 1) > MyBegin(ReadFrom(t, b) - 1)
            /\ FullsFrom(b, StripeAt(ReadFrom(t, b))) = 0
            /\ Reserved(t, b) = HolesBefore(b, FillFrom(t))
            /\ IsBlock(Reserved(t, b)) /\ Reserved(t, b) >= 0
        BY <1>1, <2>2, FirstTurn
      <3>4. /\ Overlaps(t)' /\ MoveBucket(t)' = b /\ T' = T
            /\ FillFrom(t)' = FillFrom(t) /\ FillTo(t)' = FillTo(t)
            /\ BlockStart(b + 1)' = BlockStart(b + 1)
        BY <1>2, <2>2, SameLayout
      <3>5. /\ FullsFrom(b, StripeAt(move[t].from))' = FullsFrom(b, StripeAt(ReadFrom(t, b)))
            /\ HolesBefore(b, move[t].write)' = HolesBefore(b, FillFrom(t))
            /\ MyBegin(move[t].from - 1)' = MyBegin(ReadFrom(t, b) - 1)
        <4>1. /\ \A x, y : StripeAt(x)' = StripeAt(x)
          BY <1>2, SameLayout
        <4>2. QED
          BY <1>2, <3>1, SameLayout
      <3>6. 0 + HolesBefore(b, FillFrom(t)) = HolesBefore(b, FillFrom(t))
        <4>1. FillFrom(t) <= FillFrom(t)
          BY <3>2
        <4>2. HolesBefore(b, FillFrom(t)) \in Nat
          BY <1>1, <1>3, <3>2, <4>1, Counted
        <4>3. QED
          BY <4>2
      <3> HIDE DEF b
      <3>7. QED
        BY <1>2, <1>5, <2>2, <3>1, <3>2, <3>3, <3>4, <3>5, <3>6, SameLayout DEF LoopOK
    <2>3. QED
      BY <2>1, <2>2
  <1>10. ASSUME NEW c \in Bucket, c \in mine PROVE FullUpTo(t, c) = FirstEmptyInBucket(c)
    <2>1. /\ c \in Int /\ RangeStart(t) <= c /\ c + 1 <= RangeEnd(t)
          /\ Overlaps(t) => c + 1 < RangeEnd(t)
      BY <1>3, <1>10
    <2>2. c \in 0 .. NumBuckets /\ c + 1 \in 0 .. NumBuckets
      BY <1>1, Borders
    <2>3. MyBegin(t) <= BlockStart(c)
      BY <1>1, <2>1, <2>2, Ranges
    <2>4. BlockStart(c + 1) <= MyEnd(t) \/ t = T - 1
      <3>1. SUFFICES ASSUME t # T - 1 PROVE BlockStart(c + 1) <= MyEnd(t)
        OBVIOUS
      <3>2. BlockStart(c + 1) \in Int /\ MyEnd(t) \in Int
        BY <1>1, <2>2, Borders, Stripes DEF Layout
      <3>3. CASE c + 1 < RangeEnd(t)
        <4>1. ~(RangeEnd(t) <= c + 1)
          BY <1>3, <2>1, <3>3
        <4>2. ~(MyEnd(t) <= BlockStart(c + 1))
          BY <1>1, <2>2, <3>1, <4>1, Ranges
        <4>3. QED
          BY <3>2, <4>2
      <3>4. CASE c + 1 = RangeEnd(t)
        <4>1. ~Overlaps(t)
          BY <1>3, <2>1, <3>4
        <4>2. ~(BlockStart(c + 1) > MyEnd(t))
          BY <3>4, <4>1 DEF Overlaps
        <4>3. QED
          BY <3>2, <4>2
      <3>5. QED
        BY <1>3, <2>1, <3>3, <3>4
    <2>5. QED
      BY <1>1, <2>3, <2>4, FullUpToIs
  <1>11. \A c \in Bucket : ptr'[c] = IF c \in mine THEN PtrAt(c, FirstEmptyInBucket(c)) ELSE ptr[c]
    BY <1>2, <1>10
  <1>12. ASSUME NEW v \in Thread PROVE PointersOK(v)'
    <2>1. CASE v # t
      <3>1. \A c \in Bucket : ptr'[c] = ptr[c] \/ ptr'[c] = PtrAt(c, FirstEmptyInBucket(c))
        BY <1>11
      <3>2. QED
        BY <1>1, <1>2, <1>5, <2>1, <3>1, PtrsAgree
    <2>2. CASE v = t
      <3>1. \A c : PtrAt(c, FirstEmptyInBucket(c))' = PtrAt(c, FirstEmptyInBucket(c))
        BY <1>2, SameLayout DEF PtrAt
      <3>2. /\ Bucket' = Bucket /\ RangeStart(t)' = RangeStart(t) /\ RangeEnd(t)' = RangeEnd(t)
            /\ MoveBucket(t)' = b
        BY <1>2, SameLayout
      <3>3. ASSUME NEW c \in Bucket, RangeStart(t) <= c, c < RangeEnd(t),
                   ~Overlaps(t) \/ c # b
            PROVE  ptr'[c] = PtrAt(c, FirstEmptyInBucket(c))
        <4>1. c \in Int /\ b \in Int
          BY <1>1, <1>3, <3>3 DEF Bucket, Layout, GoodInput
        <4>2. c \in mine
          <5> HIDE DEF b
          <5>1. QED
            BY <1>3, <3>3, <4>1
        <4>3. QED
          BY <1>11, <3>3, <4>2
      <3>4. QED
        BY <1>5, <2>2, <3>1, <3>2, <3>3 DEF PointersOK
    <2>3. QED
      BY <2>1, <2>2
  <1>13. DOMAIN ptr' = Bucket
    BY <1>2
  <1>14. QED
    BY <1>2, <1>5, <1>8, <1>9, <1>12, <1>13, MoveFrame

-----------------------------------------------------------------------------
(* From classification to movement                                         *)

(* What the classification leaves to the movement.                         *)
Cleared ==
    /\ Layout /\ Uniform
    /\ \A p \in Pos : a[p] # Gone <=> p \in FlushedBy(Thread)
    /\ \A c \in Bucket : SpareOf(c)

(* The stripes make up the array.                                          *)
LEMMA AllSeen == GoodInput => SeenBy(Thread) = Pos
  BY Stripes DEF SeenBy

(* When every thread has classified its stripe, the sizes of the buckets   *)
(* are known, the full blocks lie at the beginning of the stripes, and     *)
(* every bucket has an element more than its full blocks hold.             *)
LEMMA ClassDone ==
    ASSUME ClassInv, \A t \in Thread : pc[t] = "classified"
    PROVE  /\ Cleared
           /\ \A c \in Bucket : /\ FullBlocksOf(c) = Blocks(Pos, c)
                               /\ Size(c) = Cardinality(Labelled(Pos, c))
  <1> DEFINE Below(i) == {p \in Pos : Label(p) < i}
  <1>1. /\ GoodInput /\ DOMAIN a = Pos /\ SeenBy(Thread) = Pos
        /\ T \in Nat /\ NumBuckets \in Nat \ {0} /\ N \in Nat
    BY AllSeen DEF ClassInv, GoodInput
  <1>2. Classified = Thread
    BY DEF Classified
  <1>3. \A u \in Thread : StripeDone(u)
    BY <1>2 DEF ClassInv
  <1>4. /\ \A i \in 0 .. NumBuckets : bucketStart[i] = Cardinality(Below(i))
        /\ \A c \in Bucket : Spare(Pos, c)
    BY <1>1, <1>2 DEF ClassInv, Sums
  <1>5. IsFiniteSet(Pos) /\ Cardinality(Pos) = N /\ \A p \in Pos : Label(p) \in Bucket
    BY <1>1, PosFinite, LabelType
  <1>6. \A p \in Pos : Label(p) \in Int /\ 0 <= Label(p) /\ Label(p) < NumBuckets
    BY <1>1, <1>5 DEF Bucket
  <1>7. ASSUME NEW i \in Int, NEW j \in Int, i <= j
        PROVE  /\ Cardinality(Below(i)) \in 0 .. N
               /\ Cardinality(Below(i)) <= Cardinality(Below(j))
    <2>1. Below(i) \in SUBSET Pos /\ Below(j) \in SUBSET Pos /\ Below(i) \subseteq Below(j)
      BY <1>6, <1>7
    <2>2. Pos \in SUBSET Pos
      OBVIOUS
    <2> HIDE DEF Below
    <2>3. Cardinality(Below(i)) \in Nat /\ Cardinality(Below(i)) <= Cardinality(Below(j))
      BY <1>5, <2>1, Cards
    <2>4. Cardinality(Below(i)) <= Cardinality(Pos)
      BY <1>5, <2>1, <2>2, Cards
    <2>5. QED
      BY <1>1, <1>5, <2>3, <2>4
  <1>8. Layout
    <2>1. \A u \in Thread :
            /\ firstBlock[u] = MyBegin(u)
            /\ IsBlock(firstEmpty[u]) /\ MyBegin(u) <= firstEmpty[u] /\ firstEmpty[u] <= MyEnd(u)
      BY <1>3 DEF StripeDone
    <2>2. ASSUME NEW b \in 0 .. NumBuckets, NEW c \in 0 .. NumBuckets, b <= c
          PROVE  bucketStart[b] \in 0 .. N /\ bucketStart[b] <= bucketStart[c]
      <3>1. b \in Int /\ c \in Int
        BY <1>1
      <3> HIDE DEF Below
      <3>2. QED
        BY <1>4, <1>7, <2>2, <3>1
    <2>3. Below(0) = {} /\ Below(NumBuckets) = Pos
      BY <1>6
    <2>4. bucketStart[0] = 0 /\ bucketStart[NumBuckets] = N
      <3>1. 0 \in 0 .. NumBuckets /\ NumBuckets \in 0 .. NumBuckets
        BY <1>1
      <3>2. QED
        BY <1>4, <1>5, <2>3, <3>1, FS_EmptySet
    <2>5. QED
      BY <1>1, <2>1, <2>2, <2>4 DEF Layout
  <1>9. /\ \A p \in Pos : a[p] = a[BlockOfPos(p)] /\ a[p] \in Bucket \cup {Gone}
        /\ \A p \in Pos : a[p] # Gone <=> p \in FlushedBy(Thread)
    <2> SUFFICES ASSUME NEW p \in Pos
                 PROVE  /\ a[p] = a[BlockOfPos(p)] /\ a[p] \in Bucket \cup {Gone}
                        /\ a[p] # Gone <=> p \in FlushedBy(Thread)
      OBVIOUS
    <2>1. PICK u \in Thread : p \in Mine(u)
      BY <1>1, Stripes
    <2>2. /\ a[p] = a[BlockOfPos(p)]
          /\ IF p < firstEmpty[u] THEN a[p] \in Bucket ELSE a[p] = Gone
      BY <1>3, <2>1 DEF StripeDone
    <2>3. p \in FlushedBy(Thread) <=> p < firstEmpty[u]
      BY <1>8, <2>1, FlushedPlaces
    <2>4. Gone \notin Bucket
      BY <1>1 DEF Gone, Bucket
    <2>5. QED
      BY <2>2, <2>3, <2>4
  <1>10. ASSUME NEW c \in Bucket
         PROVE  /\ SpareOf(c) /\ FullBlocksOf(c) = Blocks(Pos, c)
                /\ Size(c) = Cardinality(Labelled(Pos, c))
    <2>1. FullBlocksOf(c) = Blocks(Pos, c)
      BY DEF FullBlocksOf, Blocks, Pos
    <2>2. c \in Int /\ c \in 0 .. NumBuckets /\ c + 1 \in 0 .. NumBuckets /\ c + 1 \in Int /\ c <= c + 1
      BY <1>1 DEF Bucket
    <2>3. /\ Below(c + 1) = Below(c) \cup Labelled(Pos, c) /\ Below(c) \cap Labelled(Pos, c) = {}
          /\ Below(c) \in SUBSET Pos /\ Labelled(Pos, c) \in SUBSET Pos
      BY <1>6, <2>2 DEF Labelled
    <2> HIDE DEF Below
    <2>4. /\ Cardinality(Below(c + 1)) = Cardinality(Below(c)) + Cardinality(Labelled(Pos, c))
          /\ Cardinality(Below(c)) \in Nat /\ Cardinality(Labelled(Pos, c)) \in Nat
      BY <1>5, <2>3, Cards
    <2>5. bucketStart[c + 1] - bucketStart[c] = Cardinality(Labelled(Pos, c))
      BY <1>4, <2>2, <2>4
    <2>6. Spare(Pos, c)
      BY <1>4
    <2>7. SpareOf(c)
      BY <2>1, <2>5, <2>6 DEF Spare, SpareOf
    <2>8. QED
      BY <2>1, <2>5, <2>7 DEF Size
  <1>11. QED
    BY <1>1, <1>8, <1>9, <1>10 DEF Cleared, Uniform

(* The movement begins with nothing filled and nothing taken; one thread   *)
(* alone is through with it when its pointers are set.                     *)
LEMMA MoveBegins ==
    ASSUME Cleared, SameSizes, a' = a, move' \in [Thread -> MoveLocals], DOMAIN ptr' = Bucket,
           pc' \in [Thread -> {"move", "moved"}],
           \A t \in Thread : pc'[t] = "moved" =>
               t = T - 1 /\ \A b \in Bucket : ptr'[b] = PtrAt(b, FirstEmptyInBucket(b))
    PROVE  MoveInv'
  <1>1. /\ Thread' = Thread /\ Bucket' = Bucket /\ Pos' = Pos /\ N' = N /\ Layout /\ Layout'
        /\ FlushedBy(Thread)' = FlushedBy(Thread) /\ bucketStart' = bucketStart
    BY SameLayout DEF SameSizes, Cleared
  <1>2. ASSUME NEW t \in Thread, Overlaps(t) PROVE WrittenTo(t)' = FillFrom(t)
    <2>1. /\ FillFrom(t)' = FillFrom(t) /\ FillTo(t)' = FillTo(t)
      BY SameLayout
    <2>2. FillFrom(t) < FillTo(t) => t # T - 1
      BY <1>1, <1>2, FillRange
    <2>3. pc'[t] # "moveBlocks"
      OBVIOUS
    <2>4. QED
      BY <2>1, <2>2, <2>3 DEF WrittenTo
  <1>3. ASSUME NEW t \in Thread, NEW p PROVE ~(Fills(t, p)') /\ ~(Takes(t, p)')
    <2>1. Overlaps(t)' = Overlaps(t)
      BY SameLayout
    <2>2. CASE ~Overlaps(t)
      BY <2>1, <2>2 DEF Fills, Takes
    <2>3. CASE Overlaps(t)
      <3> DEFINE b == MoveBucket(t)
                 f == FillFrom(t)
      <3>1. b \in Bucket /\ f \in Int
        BY <1>1, <2>3, FillRange
      <3>2. WrittenTo(t)' = f /\ FillFrom(t)' = f
        BY <1>2, <2>3, SameLayout
      <3>3. ~(Fills(t, p)')
        <4> HIDE DEF f
        <4>1. p \notin f .. f - 1
          BY <3>1
        <4>2. QED
          BY <3>2, <4>1 DEF Fills
      <3>4. ~(Takes(t, p)')
        <4>1. /\ Fulls(MoveBucket(t))' = Fulls(b) /\ MoveBucket(t)' = b
              /\ HolesBefore(MoveBucket(t), FillFrom(t))' = HolesBefore(b, f)
              /\ HolesBefore(MoveBucket(t), WrittenTo(t))' = HolesBefore(b, f)
              /\ FullsFrom(MoveBucket(t), p)' = FullsFrom(b, p)
          BY <3>2, SameLayout
        <4>2. SUFFICES ASSUME p \in Fulls(b), HolesBefore(b, f) < FullsFrom(b, p),
                              FullsFrom(b, p) <= HolesBefore(b, f)
                       PROVE  FALSE
          BY <4>1 DEF Takes
        <4>3. p \in Int /\ p <= p /\ f <= f
          BY <1>1, <3>1, <4>2, AreaSets
        <4> HIDE DEF b, f
        <4>4. HolesBefore(b, f) \in Nat /\ FullsFrom(b, p) \in Nat
          BY <1>1, <3>1, <4>3, Counted
        <4>5. QED
          BY <4>2, <4>4
      <3>5. QED
        BY <3>3, <3>4
    <2>4. QED
      BY <2>2, <2>3
  <1>4. \A p : Full(p)' <=> p \in FlushedBy(Thread)
    BY <1>1, <1>3 DEF Full
  <1>5. Filled'
    BY <1>1, <1>4 DEF Filled, Cleared, Gone
  <1>6. Uniform'
    BY <1>1 DEF Cleared, Uniform, BlockOfPos, Gone
  <1>7. ASSUME NEW c \in Bucket PROVE SpareOf(c)'
    <2>1. FullBlocksOf(c)' = FullBlocksOf(c)
      BY <1>1 DEF FullBlocksOf
    <2>2. QED
      BY <1>1, <2>1 DEF Cleared, SpareOf
  <1>8. ASSUME NEW t \in Thread PROVE LoopOK(t)' /\ PointersOK(t)'
    <2>1. LoopOK(t)'
      BY DEF LoopOK
    <2>2. \A b : PtrAt(b, FirstEmptyInBucket(b))' = PtrAt(b, FirstEmptyInBucket(b))
      BY SameLayout DEF PtrAt
    <2>3. PointersOK(t)'
      BY <1>1, <2>2 DEF PointersOK
    <2>4. QED
      BY <2>1, <2>3
  <1>9. pc' \in [Thread -> Moving]
    BY DEF Moving
  <1>10. QED
    BY <1>1, <1>5, <1>6, <1>7, <1>8, <1>9 DEF MoveInv

-----------------------------------------------------------------------------
(* The end of the movement                                                 *)

(* Every bucket begins in the range of some thread, which sets its         *)
(* pointers.                                                               *)
LEMMA OneSets ==
    ASSUME Layout, NEW b \in Bucket
    PROVE  \E t \in Thread : RangeStart(t) <= b /\ b < RangeEnd(t)
  <1>1. /\ GoodInput /\ T \in Nat /\ T > 0 /\ NumBuckets \in Nat /\ N \in Nat
        /\ b \in 0 .. NumBuckets /\ b \in Int /\ b < NumBuckets
    BY Borders DEF Layout, GoodInput, Bucket
  <1>2. BlockStart(b) \in Nat
    BY <1>1, Borders
  <1>3. ASSUME NEW t \in Thread, MyBegin(t) <= BlockStart(b), BlockStart(b) < MyEnd(t) \/ t = T - 1
        PROVE  RangeStart(t) <= b /\ b < RangeEnd(t)
    <2>1. RangeStart(t) <= b
      BY <1>1, <1>3, Ranges
    <2>2. RangeEnd(t) \in Int
      BY Ranges
    <2>3. CASE t = T - 1
      <3>1. RangeEnd(t) = NumBuckets
        BY <2>3, Ranges
      <3>2. QED
        BY <1>1, <2>1, <3>1
    <2>4. CASE t # T - 1
      <3>1. RangeEnd(t) <= b <=> MyEnd(t) <= BlockStart(b)
        BY <1>1, <2>4, Ranges
      <3>2. MyEnd(t) \in Nat
        BY <1>1, Stripes
      <3>3. QED
        BY <1>1, <1>2, <1>3, <2>1, <2>2, <2>4, <3>1, <3>2
    <2>5. QED
      BY <2>3, <2>4
  <1>4. CASE BlockStart(b) < N
    <2>1. BlockStart(b) \in Pos
      BY <1>1, <1>2, <1>4 DEF Pos
    <2>2. PICK t \in Thread : BlockStart(b) \in Mine(t)
      BY <1>1, <2>1, Stripes
    <2>3. MyBegin(t) <= BlockStart(b) /\ BlockStart(b) < MyEnd(t)
      <3>1. MyBegin(t) \in Nat /\ MyEnd(t) \in Nat
        BY <1>1, Stripes
      <3>2. QED
        BY <1>2, <2>2, <3>1 DEF Mine
    <2>4. QED
      BY <1>3, <2>3
  <1>5. CASE BlockStart(b) >= N
    <2>1. T - 1 \in Thread
      BY <1>1 DEF Thread
    <2>2. MyBegin(T - 1) \in Nat /\ MyEnd(T - 1) \in Nat /\ MyBegin(T - 1) < MyEnd(T - 1)
          /\ MyEnd(T - 1) <= N
      BY <1>1, <2>1, Stripes
    <2>3. MyBegin(T - 1) <= BlockStart(b)
      BY <1>1, <1>2, <1>5, <2>2
    <2>4. QED
      BY <1>3, <2>1, <2>3
  <1>6. QED
    BY <1>1, <1>2, <1>4, <1>5

(* A hole among the places a bucket's full blocks will take has a thread   *)
(* that fills it: its stripe is followed by one with full blocks of the    *)
(* bucket, so that the bucket is the one its thread moves blocks for.      *)
LEMMA HoleFiller ==
    ASSUME Layout, NEW b \in Bucket, NEW h \in Holes(b), h < FirstEmptyInBucket(b)
    PROVE  \E u \in Thread : /\ Overlaps(u) /\ MoveBucket(u) = b
                             /\ h \in Int /\ FillFrom(u) <= h /\ h < FillTo(u)
  <1> DEFINE X == FirstEmptyInBucket(b)
             S == BlockStart(b)
             E == BlockStart(b + 1)
  <1>1. /\ GoodInput /\ T \in Nat /\ NumBuckets \in Nat /\ N \in Nat
        /\ b \in 0 .. NumBuckets /\ b + 1 \in 0 .. NumBuckets /\ b \in Int
    BY Borders DEF Layout, GoodInput
  <1>2. S \in Nat /\ E \in Nat
    BY <1>1, Borders
  <1>3. X \in Int /\ HolesBefore(b, X) = FullsFrom(b, X)
    BY Balance
  <1>4. h \in Int /\ S <= h /\ h < E /\ h \notin FlushedBy(Thread)
    <2>1. h \in Area(b)
      BY AreaSets
    <2>2. QED
      BY <2>1, AreaSets DEF Holes
  <1>5. \E q \in Fulls(b) : q >= X
    <2>1. HolesBefore(b, h) < HolesBefore(b, X) /\ HolesBefore(b, h) \in Nat
      <3> HIDE DEF X
      <3>1. h <= X /\ h <= h /\ h < X
        BY <1>3, <1>4 DEF X
      <3>2. QED
        BY <1>3, <1>4, <3>1, Counted
    <2>2. FullsFrom(b, X) # 0
      <3>1. FullsFrom(b, X) \in Nat /\ X <= X
        BY <1>3, Counted
      <3>2. QED
        BY <1>3, <2>1, <3>1
    <2>3. {p \in Fulls(b) : p >= X} # {}
      BY <2>2, FS_EmptySet DEF FullsFrom
    <2>4. QED
      BY <2>3
  <1>6. PICK q \in Fulls(b) : q >= X
    BY <1>5
  <1>7. q \in Int /\ q < E /\ q \in Pos /\ q \in FlushedBy(Thread) /\ q < N
    <2>1. q \in Area(b) /\ q \in Pos
      BY AreaSets
    <2>2. q \in FlushedBy(Thread)
      BY DEF Fulls
    <2>3. QED
      BY <1>1, <2>1, <2>2, AreaSets DEF Pos
  <1>8. h < q /\ h \in Pos
    <2>1. h < X
      OBVIOUS
    <2> HIDE DEF X, S, E
    <2>2. QED
      BY <1>1, <1>2, <1>3, <1>4, <1>6, <1>7, <2>1 DEF Pos
  <1>9. PICK u \in Thread : h \in Mine(u)
    BY <1>1, <1>8, Stripes
  <1>10. /\ MyBegin(u) \in Nat /\ MyEnd(u) \in Nat /\ MyBegin(u) <= h /\ h < MyEnd(u)
         /\ (u = T - 1 => MyEnd(u) = N) /\ firstEmpty[u] \in Int
    <2>1. MyBegin(u) \in Nat /\ MyEnd(u) \in Nat /\ (u = T - 1 => MyEnd(u) = N)
      BY <1>1, Stripes
    <2>2. firstEmpty[u] \in Int
      BY DEF Layout, IsBlock
    <2>3. QED
      BY <1>4, <1>9, <2>1, <2>2 DEF Mine
  <1>11. firstEmpty[u] <= h
    <2>1. ~(h < firstEmpty[u])
      BY <1>4, <1>9, FlushedPlaces
    <2>2. QED
      BY <1>4, <1>10, <2>1
  <1>12. MyEnd(u) <= q
    <2>1. SUFFICES ASSUME q < MyEnd(u) PROVE FALSE
      BY <1>7, <1>10
    <2>2. q \in Mine(u)
      BY <1>4, <1>7, <1>8, <1>10, <2>1 DEF Mine
    <2>3. q < firstEmpty[u]
      BY <1>7, <2>2, FlushedPlaces
    <2>4. QED
      BY <1>4, <1>7, <1>8, <1>10, <1>11, <2>3
  <1>13. u # T - 1
    BY <1>1, <1>7, <1>10, <1>12
  <1>14. RangeEnd(u) = b + 1 /\ MoveBucket(u) = b
    <2>1. /\ RangeEnd(u) \in 1 .. NumBuckets
          /\ \A c \in 0 .. NumBuckets : RangeEnd(u) <= c <=> MyEnd(u) <= BlockStart(c)
      BY <1>13, Ranges
    <2>2. ~(MyEnd(u) <= S)
      <3> HIDE DEF S
      <3>1. QED
        BY <1>2, <1>4, <1>10
    <2>3. MyEnd(u) <= E
      <3> HIDE DEF E
      <3>1. QED
        BY <1>2, <1>7, <1>10, <1>12
    <2>4. RangeEnd(u) <= b + 1 /\ ~(RangeEnd(u) <= b)
      BY <1>1, <2>1, <2>2, <2>3
    <2>5. QED
      BY <1>1, <2>1, <2>4 DEF MoveBucket
  <1>15. Overlaps(u)
    <2>1. E > MyEnd(u)
      <3> HIDE DEF E
      <3>1. QED
        BY <1>2, <1>7, <1>10, <1>12
    <2>2. QED
      BY <1>14, <2>1 DEF Overlaps
  <1>16. FillFrom(u) <= h
    <2> HIDE DEF S
    <2>1. Max({firstEmpty[u], S}) = IF firstEmpty[u] >= S THEN firstEmpty[u] ELSE S
      BY <1>2, <1>10, MaxMinOfTwo
    <2>2. FillFrom(u) = Max({firstEmpty[u], S})
      BY <1>14 DEF FillFrom, S
    <2>3. QED
      BY <1>2, <1>4, <1>10, <1>11, <2>1, <2>2
  <1>17. h < FillTo(u)
    <2> DEFINE y == MyEnd(u)
    <2>1. y \in Int
      BY <1>10
    <2>2. FillTo(u) = Min({X, y})
      BY <1>14 DEF FillTo
    <2>3. h < X /\ h < y
      BY <1>10
    <2> HIDE DEF X, y
    <2>4. Min({X, y}) = IF X <= y THEN X ELSE y
      BY <1>3, <2>1, MaxMinOfTwo
    <2>5. QED
      BY <2>2, <2>3, <2>4
  <1>18. QED
    BY <1>4, <1>14, <1>15, <1>16, <1>17

(* When all threads are through, every bucket has its full blocks first.   *)
LEMMA Compact ==
    ASSUME MoveInv, \A t \in Thread : pc[t] = "moved", NEW b \in Bucket, NEW p \in Area(b)
    PROVE  /\ p < FirstEmptyInBucket(b) => p \in Pos /\ Full(p)
           /\ p >= FirstEmptyInBucket(b) => ~Full(p)
  <1> DEFINE X == FirstEmptyInBucket(b)
             H(x) == HolesBefore(b, x)
             F(x) == FullsFrom(b, x)
  <1>1. Layout /\ (\A t \in Thread : LoopOK(t)) /\ GoodInput
    BY DEF MoveInv, Layout
  <1>2. X \in Int /\ H(X) = F(X) /\ p \in Int
    BY <1>1, Balance, AreaSets
  <1>3. \A x \in Int : H(x) \in Nat /\ F(x) \in Nat
    <2> SUFFICES ASSUME NEW x \in Int PROVE H(x) \in Nat /\ F(x) \in Nat
      OBVIOUS
    <2>1. x <= x
      OBVIOUS
    <2>2. QED
      BY <1>1, <2>1, Counted
  <1>4. ASSUME NEW t \in Thread, Overlaps(t), FillFrom(t) < FillTo(t)
        PROVE  WrittenTo(t) = FillTo(t)
    BY <1>4 DEF WrittenTo
  <1>5. ASSUME p < X PROVE p \in Pos /\ Full(p)
    <2>1. CASE p \in Fulls(b)
      <3>1. p \in Pos /\ p \in FlushedBy(Thread)
        BY <1>1, <2>1, AreaSets DEF Fulls
      <3>2. ASSUME NEW t \in Thread, Takes(t, p) PROVE FALSE
        <4>1. /\ Overlaps(t) /\ p \in Fulls(MoveBucket(t))
              /\ HolesBefore(MoveBucket(t), FillFrom(t)) < FullsFrom(MoveBucket(t), p)
              /\ FullsFrom(MoveBucket(t), p) <= HolesBefore(MoveBucket(t), WrittenTo(t))
          BY <3>2 DEF Takes
        <4>2. MoveBucket(t) = b
          <5>1. MoveBucket(t) \in Bucket
            BY <1>1, <4>1, FillRange
          <5>2. p \in Area(MoveBucket(t))
            BY <1>1, <4>1, <5>1, AreaSets
          <5>3. QED
            BY <1>1, <5>1, <5>2, OnePlaceOneArea
        <4>3. /\ FillFrom(t) \in Int /\ FillTo(t) \in Int /\ FillTo(t) <= X
          BY <1>1, <4>1, <4>2, FillRange
        <4>4. /\ WrittenTo(t) \in Int
              /\ WrittenTo(t) <= FillTo(t) \/ WrittenTo(t) = FillFrom(t)
          BY <1>1, <4>1, Written
        <4> DEFINE w == WrittenTo(t)
        <4>5. H(FillFrom(t)) < F(p) /\ F(p) <= H(w)
          BY <4>1, <4>2
        <4>6. CASE w = FillFrom(t)
          BY <1>2, <1>3, <4>3, <4>5, <4>6
        <4>7. CASE w <= FillTo(t)
          <5>1. w <= X /\ w \in Int
            BY <1>2, <4>3, <4>4, <4>7
          <5> HIDE DEF X, w
          <5>2. HolesBefore(b, w) <= HolesBefore(b, X)
            BY <1>1, <1>2, <5>1, Counted
          <5>3. FullsFrom(b, X) < FullsFrom(b, p)
            <6>1. p <= X /\ p <= p /\ p < X
              BY <1>2, <1>5
            <6>2. QED
              BY <1>1, <1>2, <2>1, <6>1, Counted
          <5>4. /\ FullsFrom(b, p) <= HolesBefore(b, w) /\ HolesBefore(b, X) = FullsFrom(b, X)
                /\ FullsFrom(b, p) \in Nat /\ FullsFrom(b, X) \in Nat /\ HolesBefore(b, w) \in Nat
            BY <1>2, <1>3, <4>5, <5>1
          <5>5. QED
            BY <5>2, <5>3, <5>4
        <4>8. QED
          BY <4>4, <4>6, <4>7
      <3>3. QED
        BY <3>1, <3>2 DEF Full
    <2>2. CASE p \in Holes(b)
      <3>1. PICK u \in Thread : /\ Overlaps(u) /\ MoveBucket(u) = b
                                /\ p \in Int /\ FillFrom(u) <= p /\ p < FillTo(u)
        BY <1>1, <1>5, <2>2, HoleFiller
      <3>2. FillFrom(u) \in Int /\ FillTo(u) \in Int
        BY <1>1, <3>1, FillRange
      <3>3. FillFrom(u) < FillTo(u)
        BY <3>1, <3>2
      <3>4. WrittenTo(u) = FillTo(u)
        BY <1>4, <3>1, <3>3
      <3>5. Fills(u, p)
        BY <3>1, <3>2, <3>4 DEF Fills
      <3>6. p \in Mine(u)
        BY <1>1, <3>5, FilledHole
      <3>7. p \in Pos
        BY <1>1, <3>6, Stripes
      <3>8. QED
        BY <3>5, <3>7 DEF Full
    <2>3. QED
      BY <1>1, <2>1, <2>2, AreaSets
  <1>6. ASSUME p >= X PROVE ~Full(p)
    <2>1. ASSUME NEW t \in Thread, Fills(t, p) PROVE FALSE
      <3>1. Overlaps(t) /\ p \in Holes(MoveBucket(t)) /\ p < FillTo(t)
        BY <1>1, <2>1, FilledHole DEF Fills
      <3>2. MoveBucket(t) \in Bucket
        BY <1>1, <3>1, FillRange
      <3>3. p \in Area(MoveBucket(t))
        BY <1>1, <3>1, <3>2, AreaSets
      <3>4. MoveBucket(t) = b
        BY <1>1, <3>2, <3>3, OnePlaceOneArea
      <3>5. FillTo(t) \in Int /\ FillTo(t) <= X
        BY <1>1, <3>1, <3>4, FillRange
      <3>6. QED
        BY <1>2, <1>6, <3>1, <3>5
    <2>2. ASSUME p \in FlushedBy(Thread) PROVE \E t \in Thread : Takes(t, p)
      <3> DEFINE k == F(p) - 1
      <3>1. p \in Fulls(b)
        BY <2>2 DEF Fulls
      <3>2. k \in Int /\ 0 <= k /\ k < HolesBefore(b, X) /\ FullsFrom(b, p) = k + 1
        <4> DEFINE z == p + 1
        <4>1. z \in Int /\ p <= z /\ p <= p /\ p < z
          BY <1>2
        <4> HIDE DEF z, X
        <4>2. FullsFrom(b, z) < FullsFrom(b, p) /\ FullsFrom(b, z) \in Nat
          BY <1>1, <1>2, <3>1, <4>1, Counted
        <4>3. FullsFrom(b, p) <= FullsFrom(b, X)
          BY <1>1, <1>2, <1>6, Counted
        <4>4. /\ FullsFrom(b, p) \in Nat /\ FullsFrom(b, X) \in Nat
              /\ HolesBefore(b, X) = FullsFrom(b, X)
          BY <1>2, <1>3
        <4>5. QED
          BY <4>2, <4>3, <4>4
      <3> HIDE DEF k
      <3>3. /\ Holes(b) \in SUBSET Int /\ IsFiniteSet(Holes(b))
            /\ Cardinality(Holes(b)) \in Nat
            /\ HolesBefore(b, X) <= Cardinality(Holes(b))
        <4>1. Holes(b) \in SUBSET Int /\ IsFiniteSet(Holes(b))
          BY <1>1, AreaSets, FS_Subset
        <4>2. Cardinality(Holes(b)) \in Nat /\ Position(Holes(b), X) \in 0 .. Cardinality(Holes(b))
          BY <1>2, <4>1, PositionGrows
        <4>3. QED
          BY <4>1, <4>2 DEF HolesBefore
      <3>4. k < Cardinality(Holes(b))
        BY <1>2, <1>3, <3>2, <3>3
      <3>5. \E h \in Holes(b) : Position(Holes(b), h) = k
        BY <3>2, <3>3, <3>4, PositionOnto
      <3>6. PICK h \in Holes(b) : HolesBefore(b, h) = k
        BY <3>5 DEF HolesBefore
      <3>7. h \in Int
        BY <3>3
      <3>8. h < X
        <4>1. SUFFICES ASSUME X <= h PROVE FALSE
          BY <1>2, <3>7
        <4> HIDE DEF X
        <4>2. HolesBefore(b, X) <= HolesBefore(b, h)
          BY <1>1, <1>2, <3>7, <4>1, Counted
        <4>3. HolesBefore(b, X) \in Nat
          BY <1>2, <1>3
        <4>4. QED
          BY <3>2, <3>6, <4>2, <4>3
      <3>9. PICK u \in Thread : /\ Overlaps(u) /\ MoveBucket(u) = b
                                /\ FillFrom(u) <= h /\ h < FillTo(u)
        BY <1>1, <3>8, HoleFiller
      <3>10. FillFrom(u) \in Int /\ FillTo(u) \in Int
        BY <1>1, <3>9, FillRange
      <3>11. WrittenTo(u) = FillTo(u)
        <4>1. FillFrom(u) < FillTo(u)
          BY <3>7, <3>9, <3>10
        <4>2. QED
          BY <1>4, <3>9, <4>1
      <3>12. HolesBefore(b, FillFrom(u)) <= k
        BY <1>1, <3>6, <3>7, <3>9, <3>10, Counted
      <3>13. k < HolesBefore(b, FillTo(u))
        <4>1. h <= FillTo(u) /\ h <= h
          BY <3>7, <3>9, <3>10
        <4>2. HolesBefore(b, h) < HolesBefore(b, FillTo(u))
          BY <1>1, <3>7, <3>9, <3>10, <4>1, Counted
        <4>3. QED
          BY <3>6, <4>2
      <3>14. /\ HolesBefore(b, FillFrom(u)) < FullsFrom(b, p)
             /\ FullsFrom(b, p) <= HolesBefore(b, WrittenTo(u))
        BY <1>3, <3>2, <3>10, <3>11, <3>12, <3>13
      <3>15. Takes(u, p)
        BY <3>1, <3>9, <3>14 DEF Takes
      <3>16. QED
        BY <3>15
    <2>3. QED
      BY <2>1, <2>2 DEF Full
  <1>7. QED
    BY <1>5, <1>6

(* So the permutation finds what it relies on.                             *)
LEMMA MoveDone == MoveInv => FullBlocksFirst
  <1> SUFFICES ASSUME MoveInv, \A t \in Thread : pc[t] = "moved" PROVE FullBlocksFirst
    BY DEF FullBlocksFirst
  <1>1. /\ Layout /\ Uniform /\ Filled /\ \A c \in Bucket : SpareOf(c)
        /\ \A t \in Thread : PointersOK(t)
    BY DEF MoveInv
  <1>2. /\ \A b, c \in 0 .. NumBuckets :
             b <= c => bucketStart[b] \in 0 .. N /\ bucketStart[b] <= bucketStart[c]
        /\ N \in Nat
    BY <1>1 DEF Layout, GoodInput
  <1>3. \A c \in Bucket : \/ FullBlocksOf(c) = {}
                          \/ BlockSize * Cardinality(FullBlocksOf(c)) < bucketStart[c + 1] - bucketStart[c]
    BY <1>1 DEF SpareOf
  <1>4. ASSUME NEW b \in Bucket
        PROVE  \E stop \in BlockStart(b) .. BlockStart(b + 1) :
                 stop % BlockSize = 0 /\ ptr[b] = PtrAt(b, stop) /\ BlocksThenEmpty(b, stop)
    <2> DEFINE X == FirstEmptyInBucket(b)
    <2>1. X \in BlockStart(b) .. BlockStart(b + 1) /\ X \in Int
      <3>1. b \in 0 .. NumBuckets /\ b + 1 \in 0 .. NumBuckets
        BY <1>1, Borders
      <3>2. BlockStart(b) \in Nat /\ BlockStart(b + 1) \in Nat
        BY <1>1, <3>1, Borders
      <3>3. X \in Int /\ BlockStart(b) <= X /\ X <= BlockStart(b + 1)
        BY <1>1, Balance
      <3> HIDE DEF X
      <3>4. QED
        BY <3>2, <3>3
    <2>2. X % BlockSize = 0
      BY <1>1, WholeBlocks DEF IsBlock
    <2>3. ptr[b] = PtrAt(b, X)
      <3>1. PICK t \in Thread : RangeStart(t) <= b /\ b < RangeEnd(t)
        BY <1>1, OneSets
      <3>2. pc[t] = "moved" /\ PointersOK(t)
        BY <1>1
      <3>3. QED
        BY <3>1, <3>2 DEF PointersOK
    <2>4. BlocksThenEmpty(b, X)
      <3>1. SUFFICES ASSUME NEW p \in Area(b)
                     PROVE  IF p < X THEN p < N /\ a[p] \in Bucket /\ a[p] = a[p - (p % BlockSize)]
                            ELSE p < N => a[p] = Gone
        BY DEF BlocksThenEmpty
      <3>2. p \in Int /\ 0 <= p
        <4>1. b \in 0 .. NumBuckets
          BY <1>1, Borders
        <4>2. BlockStart(b) \in Nat /\ p \in Int /\ BlockStart(b) <= p
          BY <1>1, <4>1, Borders, AreaSets
        <4>3. QED
          BY <4>2
      <3>3. CASE p < X
        <4>1. p \in Pos /\ Full(p)
          BY <3>3, Compact
        <4>2. a[p] # Gone /\ a[p] \in Bucket \cup {Gone} /\ a[p] = a[BlockOfPos(p)]
          BY <1>1, <4>1 DEF Filled, Uniform
        <4>3. QED
          BY <1>2, <3>3, <4>1, <4>2 DEF BlockOfPos, Pos
      <3>4. CASE ~(p < X)
        <4>1. p >= X
          BY <2>1, <3>2, <3>4
        <4>2. ~Full(p)
          BY <4>1, Compact
        <4>3. ASSUME p < N PROVE a[p] = Gone
          <5>1. p \in Pos
            BY <1>2, <3>2, <4>3 DEF Pos
          <5>2. QED
            BY <1>1, <4>2, <5>1 DEF Filled
        <4>4. QED
          BY <3>4, <4>3
      <3>5. QED
        BY <3>3, <3>4
    <2> HIDE DEF X
    <2>5. QED
      BY <2>1, <2>2, <2>3, <2>4
  <1>5. QED
    BY <1>2, <1>3, <1>4 DEF FullBlocksFirst

-----------------------------------------------------------------------------
(* The phases before the permutation                                       *)

(* The phases before the permutation: classification, then movement.       *)
EarlyInv ==
    \/ ClassInv /\ move \in [Thread -> MoveLocals] /\ DOMAIN ptr = Bucket
    \/ MoveInv

(* A step that changes nothing keeps what the classification has done.     *)
LEMMA ClassKept ==
    ASSUME ClassInv, UNCHANGED <<input, a, bucketStart, pc, firstBlock, firstEmpty>>
    PROVE  ClassInv'
  <1>1. /\ Thread' = Thread /\ Bucket' = Bucket /\ Pos' = Pos /\ NumBuckets' = NumBuckets
        /\ (GoodInput => GoodInput')
        /\ \A u : /\ MyBegin(u)' = MyBegin(u) /\ MyEnd(u)' = MyEnd(u) /\ Mine(u)' = Mine(u)
                  /\ Label(u)' = Label(u)
        /\ \A X : SeenBy(X)' = SeenBy(X)
    BY DEF Thread, Bucket, Pos, NumBuckets, T, N, GoodInput, MyBegin, MyEnd, Mine, StripeAt, Label,
           SeenBy
  <1>2. Classified' = Classified
    BY <1>1 DEF Classified
  <1>3. \A u : StripeDone(u)' <=> StripeDone(u)
    BY <1>1 DEF StripeDone, BlockOfPos, Gone
  <1>4. \A S, c : Blocks(S, c)' = Blocks(S, c) /\ Labelled(S, c)' = Labelled(S, c)
    BY <1>1 DEF Blocks, Labelled
  <1>5. SeenBy(Classified)' = SeenBy(Classified)
    BY <1>1, <1>2 DEF SeenBy
  <1>6. \A c : Spare(SeenBy(Classified), c)' <=> Spare(SeenBy(Classified), c)
    BY <1>4, <1>5 DEF Spare
  <1>7. Sums(Classified)' <=> Sums(Classified)
    BY <1>1, <1>5, <1>6 DEF Sums
  <1>8. QED
    BY <1>1, <1>2, <1>3, <1>7 DEF ClassInv

(* Nor does it disturb the movement.                                       *)
LEMMA MoveKept ==
    ASSUME MoveInv, SameSizes, UNCHANGED <<a, pc, move, ptr>>
    PROVE  MoveInv'
  <1>1. /\ pc \in [Thread -> Moving] /\ move \in [Thread -> MoveLocals] /\ DOMAIN ptr = Bucket
        /\ \A v \in Thread : LoopOK(v) /\ PointersOK(v)
        /\ 0 \in Thread
    BY DEF MoveInv, Layout, GoodInput, Thread
  <1>2. \A v \in Thread : \A p : (Fills(v, p)' <=> Fills(v, p)) /\ (Takes(v, p)' <=> Takes(v, p))
    BY Resting
  <1>3. Uniform' /\ Filled' /\ \A c \in Bucket : SpareOf(c)'
    BY <1>2, SameContents
  <1>4. LoopOK(0)'
    BY <1>1, Resting
  <1>5. ASSUME NEW v \in Thread PROVE PointersOK(v)'
    BY <1>1, PtrsKept
  <1>6. QED
    BY <1>1, <1>3, <1>4, <1>5, MoveFrame

(* When all stripes are classified the movement begins.                    *)
LEMMA BarrierToMove ==
    ASSUME ClassInv, move \in [Thread -> MoveLocals], DOMAIN ptr = Bucket,
           Barrier("classified", "move"),
           UNCHANGED <<input, a, bucketStart, ptr, firstBlock, firstEmpty, move>>
    PROVE  MoveInv'
  <1>1. Cleared
    BY ClassDone DEF Barrier
  <1>2. SameSizes
    BY DEF SameSizes
  <1>3. Thread' = Thread
    BY <1>2, SameLayout
  <1>4. /\ pc' \in [Thread -> {"move", "moved"}] /\ \A t \in Thread : pc'[t] # "moved"
    BY DEF Barrier
  <1>5. QED
    BY <1>1, <1>2, <1>4, MoveBegins

(* One thread alone sets all pointers and is done.                         *)
LEMMA SetPointersStep ==
    ASSUME ClassInv, move \in [Thread -> MoveLocals], NEW t \in Thread, SetPointers(t)
    PROVE  MoveInv'
  <1>1. /\ T = 1 /\ GoodInput /\ pc \in [Thread -> {"classify", "classified"}]
        /\ pc[t] = "classified" /\ pc' = [pc EXCEPT ![t] = "moved"]
        /\ ptr' = [b \in Bucket |-> PtrAt(b, FullUpTo(t, b))]
        /\ SameSizes /\ a' = a /\ move' = move
    BY DEF ClassInv, SetPointers, Goto, SameSizes, mvars
  <1>2. t = 0 /\ Thread = {t} /\ t = T - 1
    BY <1>1 DEF Thread
  <1>3. Cleared
    BY <1>1, <1>2, ClassDone
  <1>4. ASSUME NEW b \in Bucket PROVE FullUpTo(t, b) = FirstEmptyInBucket(b)
    <2>1. Layout /\ MyBegin(t) = 0
      BY <1>1, <1>2, <1>3, Stripes DEF Cleared
    <2>2. b \in 0 .. NumBuckets
      BY <2>1, Borders
    <2>3. BlockStart(b) \in Nat
      BY <2>1, <2>2, Borders
    <2>4. MyBegin(t) <= BlockStart(b)
      BY <2>1, <2>3
    <2>5. QED
      BY <1>2, <2>1, <2>4, FullUpToIs
  <1>5. \A b \in Bucket : ptr'[b] = PtrAt(b, FirstEmptyInBucket(b))
    BY <1>1, <1>4
  <1>6. pc' \in [Thread -> {"move", "moved"}]
    BY <1>1, <1>2
  <1>7. DOMAIN ptr' = Bucket
    BY <1>1
  <1>8. QED
    BY <1>1, <1>2, <1>3, <1>5, <1>6, <1>7, MoveBegins

(* Steps up to the barrier before the permutation.                         *)
LEMMA EarlyStep ==
    ASSUME EarlyInv, [Next]_vars, ~(Barriers /\ Barrier("moved", "pick"))
    PROVE  EarlyInv'
  <1>1. CASE ClassInv /\ move \in [Thread -> MoveLocals] /\ DOMAIN ptr = Bucket
    <2>1. 0 \in Thread /\ pc \in [Thread -> {"classify", "classified"}]
      BY <1>1 DEF ClassInv, GoodInput, Thread
    <2>2. CASE UNCHANGED vars
      <3>1. Thread' = Thread /\ Bucket' = Bucket
        BY <2>2 DEF vars, Thread, Bucket, T, NumBuckets
      <3>2. QED
        BY <1>1, <2>2, <3>1, ClassKept DEF vars, EarlyInv
    <2>3. CASE Barriers
      <3>1. Barrier("classified", "move")
        BY <2>1, <2>3 DEF Barriers, Barrier
      <3>2. QED
        BY <1>1, <2>3, <3>1, BarrierToMove DEF Barriers, mvars, EarlyInv
    <2>4. ASSUME NEW t \in Thread, Step(t) PROVE EarlyInv'
      <3>1. pc[t] \in {"classify", "classified"}
        BY <2>1
      <3>2. CASE Classify(t)
        <4>1. input' = input /\ ptr' = ptr /\ move' = move
          BY <3>2 DEF Classify
        <4>2. Thread' = Thread /\ Bucket' = Bucket
          BY <4>1 DEF Thread, Bucket, T, NumBuckets
        <4>3. QED
          BY <1>1, <3>2, <4>1, <4>2, ClassifyStep DEF EarlyInv
      <3>3. CASE SetPointers(t)
        BY <1>1, <3>3, SetPointersStep DEF EarlyInv
      <3>4. ~StartMove(t) /\ ~MoveBlocks(t) /\ ~EndMove(t)
        BY <3>1 DEF StartMove, MoveBlocks, EndMove
      <3>5. ~PermuteBlocks(t)
        BY <3>1 DEF PermuteBlocks, PermuteStep, StartRead, DecRead, ReadBlock, StopRead,
                    NextBucket, IncWrite, WaitForReaders, WriteBlock, LookAtBlock
      <3>6. ~Publish(t) /\ ~SaveMargins(t) /\ ~WriteMargin(t) /\ ~EndMargins(t)
        BY <3>1 DEF Publish, SaveMargins, WriteMargin, EndMargins
      <3>7. QED
        BY <2>4, <3>2, <3>3, <3>4, <3>5, <3>6 DEF Step
    <2>5. CASE Stop
      BY <2>2, <2>5 DEF Stop
    <2>6. QED
      BY <2>2, <2>3, <2>4, <2>5 DEF Next
  <1>2. CASE MoveInv
    <2>1. 0 \in Thread /\ pc \in [Thread -> Moving]
      BY <1>2 DEF MoveInv, Layout, GoodInput, Thread
    <2>2. CASE UNCHANGED vars
      BY <1>2, <2>2, MoveKept DEF vars, SameSizes, EarlyInv
    <2>3. ~Barriers
      <3>1. Barriers => Barrier("moved", "pick")
        BY <2>1 DEF Barriers, Barrier, Moving
      <3>2. QED
        BY <3>1
    <2>4. ASSUME NEW t \in Thread, Step(t) PROVE EarlyInv'
      <3>1. pc[t] \in Moving
        BY <2>1
      <3>2. CASE StartMove(t) \/ MoveBlocks(t) \/ EndMove(t)
        BY <1>2, <3>2, StartMoveStep, MoveBlocksStep, EndMoveStep DEF EarlyInv
      <3>3. ~Classify(t) /\ ~SetPointers(t)
        BY <3>1 DEF Moving, Classify, SetPointers
      <3>4. ~PermuteBlocks(t)
        BY <3>1 DEF Moving, PermuteBlocks, PermuteStep, StartRead, DecRead, ReadBlock, StopRead,
                    NextBucket, IncWrite, WaitForReaders, WriteBlock, LookAtBlock
      <3>5. ~Publish(t) /\ ~SaveMargins(t) /\ ~WriteMargin(t) /\ ~EndMargins(t)
        BY <3>1 DEF Moving, Publish, SaveMargins, WriteMargin, EndMargins
      <3>6. QED
        BY <2>4, <3>2, <3>3, <3>4, <3>5 DEF Step
    <2>5. CASE Stop
      BY <2>2, <2>5 DEF Stop
    <2>6. QED
      BY <2>2, <2>3, <2>4, <2>5 DEF Next
  <1>3. QED
    BY <1>1, <1>2 DEF EarlyInv

(* A step begins with classification.                                      *)
LEMMA EarlyInit == Init => EarlyInv
  <1> SUFFICES ASSUME Init PROVE EarlyInv
    OBVIOUS
  <1>1. ClassInv
    BY ClassInit
  <1>2. NoMove \in MoveLocals
    BY DEF NoMove, MoveLocals
  <1>3. move \in [Thread -> MoveLocals] /\ DOMAIN ptr = Bucket
    BY <1>2 DEF Init
  <1>4. QED
    BY <1>1, <1>3 DEF EarlyInv

(* Once they have moved the empty blocks, the full ones come first.        *)
LEMMA EarlyDone == EarlyInv => FullBlocksFirst
  <1>1. ASSUME ClassInv PROVE FullBlocksFirst
    <2>1. 0 \in Thread /\ pc \in [Thread -> {"classify", "classified"}]
      BY <1>1 DEF ClassInv, GoodInput, Thread
    <2>2. pc[0] # "moved"
      BY <2>1
    <2>3. QED
      BY <2>1, <2>2 DEF FullBlocksFirst
  <1>2. QED
    BY <1>1, MoveDone DEF EarlyInv

-----------------------------------------------------------------------------
(* The phases of the step                                                  *)

(* Where threads are before and after the permutation.                     *)
Early == {"classify", "classified", "move", "moveBlocks", "moved"}
Late == {"save", "saved", "margins", "done"}

(* The sizes of a step.                                                    *)
Team == T \in Nat \ {0} /\ NumBuckets \in Nat \ {0} /\ N \in Nat

(* Nothing the permutation works with has been touched but the pointers.   *)
BeforePermutation ==
    /\ Team
    /\ DOMAIN a = 0 .. N - 1
    /\ ptr = [b \in Bucket |-> ptr[b]]
    /\ reading = [b \in Bucket |-> 0]
    /\ swap = [t \in Thread |-> <<<<>>, <<>>>>]
    /\ overflow = [t \in Thread |-> <<>>]
    /\ me = [t \in Thread |-> AtStart(t)]
    /\ pc \in [Thread -> Early]

(* All that is left of the permutation is one overflow block at most.      *)
AfterPermutation ==
    /\ Team
    /\ DOMAIN overflow = Thread
    /\ pc \in [Thread -> Late]
    /\ OverflowForeseen

(* The invariant of the step, phase by phase.                              *)
PhaseInv == (BeforePermutation /\ EarlyInv) \/ PermInv \/ AfterPermutation

-----------------------------------------------------------------------------
(* At the start of a step nothing has been permuted.                       *)
LEMMA InitHolds == Init => PhaseInv
  <1> SUFFICES ASSUME Init PROVE BeforePermutation
    BY EarlyInit DEF PhaseInv
  <1> USE DEF Init
  <1>1. Team
    BY InputsAssumption DEF InputsAssumption, Team, T, NumBuckets, N
  <1>2. DOMAIN a = 0 .. N - 1 /\ ptr = [b \in Bucket |-> ptr[b]]
    OBVIOUS
  <1>3. pc \in [Thread -> Early]
    BY DEF Early
  <1>4. QED
    BY <1>1, <1>2, <1>3 DEF BeforePermutation

(* Every team has a primary thread.                                        *)
LEMMA SomeThread == Team => 0 \in Thread
  BY DEF Team, Thread

(* The team and the buckets do not change within a step.                   *)
LEMMA SameTeam ==
    ASSUME input' = input
    PROVE  T' = T /\ N' = N /\ NumBuckets' = NumBuckets /\ Thread' = Thread /\ Bucket' = Bucket
           /\ (Team => Team') /\ [t \in Thread' |-> AtStart(t)'] = [t \in Thread |-> AtStart(t)]
  <1>1. T' = T /\ N' = N /\ NumBuckets' = NumBuckets
    BY DEF T, N, NumBuckets
  <1>2. Thread' = Thread /\ Bucket' = Bucket
    BY <1>1 DEF Thread, Bucket
  <1>3. \A t : AtStart(t)' = AtStart(t)
    BY <1>1 DEF AtStart, StartBucket
  <1>4. QED
    BY <1>1, <1>2, <1>3 DEF Team

-----------------------------------------------------------------------------
(* The start of the permutation                                            *)

(* The block a place is in starts at the border below it.                  *)
LEMMA BlockOfPlace ==
    ASSUME NEW p, NEW q \in Int, IsBlock(p), p <= q, q < p + BlockSize
    PROVE  q - (q % BlockSize) = p
  <1> DEFINE i == p \div BlockSize
             j == q \div BlockSize
  <1>1. BlockSize \in Nat /\ BlockSize > 0 /\ p \in Int /\ i \in Int /\ p = BlockSize * i
    BY Sizes, Multiple DEF IsBlock
  <1>2. j \in Int /\ q = BlockSize * j + (q % BlockSize) /\ q % BlockSize \in 0 .. BlockSize - 1
    BY <1>1
  <1> HIDE DEF i, j
  <1>3. ~(i < j)
    <2>1. SUFFICES ASSUME i < j PROVE FALSE
      OBVIOUS
    <2>2. BlockSize * (i + 1) <= BlockSize * j
      BY <1>1, <1>2, <2>1
    <2>3. BlockSize * (i + 1) = BlockSize * i + BlockSize
      BY <1>1
    <2>4. QED
      BY <1>1, <1>2, <2>2, <2>3
  <1>4. ~(j < i)
    <2>1. SUFFICES ASSUME j < i PROVE FALSE
      OBVIOUS
    <2>2. BlockSize * (j + 1) <= BlockSize * i
      BY <1>1, <1>2, <2>1
    <2>3. BlockSize * (j + 1) = BlockSize * j + BlockSize
      BY <1>1, <1>2
    <2>4. QED
      BY <1>1, <1>2, <2>2, <2>3
  <1>5. i = j
    BY <1>1, <1>2, <1>3, <1>4
  <1>6. QED
    BY <1>1, <1>2, <1>5

(* Pointers typed one by one are typed as a function.                      *)
LEMMA PtrFunction ==
    ASSUME BeforePermutation, \A b \in Bucket : ptr[b] \in [w : Int, r : Int]
    PROVE  ptr \in [Bucket -> [w : Int, r : Int]]
  BY DEF BeforePermutation

(* Here the permutation takes over what FullBlocksFirst says.              *)
LEMMA Begins ==
    ASSUME BeforePermutation, FullBlocksFirst, Barrier("moved", "pick"),
           UNCHANGED <<input, a, bucketStart, ptr, reading, swap, overflow, me, mvars>>
    PROVE  PermInv'
  <1>1. /\ Team /\ 0 \in Thread
        /\ \A t \in Thread : pc[t] = "moved"
        /\ pc' = [t \in Thread |-> "pick"]
    BY SomeThread DEF BeforePermutation, Barrier
  <1>2. /\ input' = input /\ a' = a /\ bucketStart' = bucketStart /\ ptr' = ptr
        /\ reading' = reading /\ swap' = swap /\ overflow' = overflow /\ me' = me
    OBVIOUS
  <1>3. /\ Thread' = Thread /\ Bucket' = Bucket /\ N' = N /\ NumBuckets' = NumBuckets
        /\ MaxOffset' = MaxOffset /\ OverflowBucket' = OverflowBucket
        /\ \A b : Size(b)' = Size(b) /\ AreaStart(b)' = AreaStart(b) /\ AreaEnd(b)' = AreaEnd(b)
    BY <1>2, SameShape
  <1>4. /\ \A b, c \in 0 .. NumBuckets :
             b <= c => bucketStart[b] \in 0 .. N /\ bucketStart[b] <= bucketStart[c]
        /\ \A b \in Bucket : \E stop \in BlockStart(b) .. BlockStart(b + 1) :
             stop % BlockSize = 0 /\ ptr[b] = PtrAt(b, stop) /\ BlocksThenEmpty(b, stop)
        /\ \A c \in Bucket :
             \/ FullBlocksOf(c) = {}
             \/ BlockSize * Cardinality(FullBlocksOf(c)) < bucketStart[c + 1] - bucketStart[c]
    BY <1>1 DEF FullBlocksFirst
  <1>5. Shape
    <2>1. \A b \in 0 .. NumBuckets : b <= b
      BY <1>1 DEF Team
    <2>2. QED
      BY <1>1, <1>4, <2>1 DEF Shape, Team
  <1>6. \A b \in Bucket : /\ BlockStart(b) = AreaStart(b) /\ BlockStart(b + 1) = AreaEnd(b)
                          /\ AreaStart(b) \in Nat /\ AreaEnd(b) \in Nat
                          /\ IsBlock(AreaStart(b)) /\ IsBlock(AreaEnd(b))
    BY <1>5, Areas DEF BlockStart, AreaStart, AreaEnd
  <1>7. ASSUME NEW b \in Bucket
        PROVE  \E stop \in Int :
                  /\ IsBlock(stop) /\ AreaStart(b) <= stop /\ stop <= AreaEnd(b)
                  /\ ptr[b] = [w |-> AreaStart(b), r |-> stop - BlockSize]
                  /\ \A p \in AreaStart(b) .. AreaEnd(b) - 1 : p < stop =>
                        p < N /\ a[p] \in Bucket /\ a[p] = a[p - (p % BlockSize)]
    <2>1. PICK stop \in BlockStart(b) .. BlockStart(b + 1) :
             stop % BlockSize = 0 /\ ptr[b] = PtrAt(b, stop) /\ BlocksThenEmpty(b, stop)
      BY <1>4
    <2>2. stop \in Int /\ AreaStart(b) <= stop /\ stop <= AreaEnd(b)
      BY <1>6
    <2>3. ptr[b] = [w |-> AreaStart(b), r |-> stop - BlockSize]
      BY <1>6, <2>1 DEF PtrAt
    <2>4. \A p \in AreaStart(b) .. AreaEnd(b) - 1 : p < stop =>
             p < N /\ a[p] \in Bucket /\ a[p] = a[p - (p % BlockSize)]
      BY <1>6, <2>1 DEF BlocksThenEmpty, Area
    <2>5. QED
      BY <2>1, <2>2, <2>3, <2>4 DEF IsBlock
  <1>8. \A b \in Bucket : /\ ptr[b] \in [w : Int, r : Int] /\ ptr[b].w = AreaStart(b)
                          /\ IsBlock(ptr[b].r) /\ ptr[b].r + BlockSize <= AreaEnd(b)
    <2> SUFFICES ASSUME NEW b \in Bucket
                 PROVE  /\ ptr[b] \in [w : Int, r : Int] /\ ptr[b].w = AreaStart(b)
                        /\ IsBlock(ptr[b].r) /\ ptr[b].r + BlockSize <= AreaEnd(b)
      OBVIOUS
    <2>1. PICK stop \in Int :
             /\ IsBlock(stop) /\ stop <= AreaEnd(b)
             /\ ptr[b] = [w |-> AreaStart(b), r |-> stop - BlockSize]
      BY <1>7
    <2>2. BlockSize \in Nat /\ AreaStart(b) \in Int
      BY <1>6, Sizes
    <2>3. IsBlock(stop - BlockSize)
      BY <2>1, NextBlock
    <2>4. QED
      BY <2>1, <2>2, <2>3
  <1>9. ASSUME NEW b \in Bucket, NEW p, Between(b, p)
        PROVE  FullBlock(p)
    <2>1. PICK stop \in Int :
             /\ IsBlock(stop) /\ AreaStart(b) <= stop /\ stop <= AreaEnd(b)
             /\ ptr[b] = [w |-> AreaStart(b), r |-> stop - BlockSize]
             /\ \A q \in AreaStart(b) .. AreaEnd(b) - 1 : q < stop =>
                   q < N /\ a[q] \in Bucket /\ a[q] = a[q - (q % BlockSize)]
      BY <1>7
    <2>2. /\ p \in Int /\ IsBlock(p) /\ AreaStart(b) <= p /\ p + BlockSize <= stop
          /\ BlockSize \in Nat /\ BlockSize > 0 /\ AreaStart(b) \in Nat /\ AreaEnd(b) \in Nat
          /\ N \in Nat
      BY <1>1, <1>6, <1>9, <2>1, Sizes DEF Between, IsBlock, Team
    <2>3. ASSUME NEW q \in Places(p)
          PROVE  q < N /\ a[q] \in Bucket /\ a[q] = a[p]
      <3>1. q \in Int /\ p <= q /\ q < p + BlockSize
        BY <2>2 DEF Places
      <3>2. q - (q % BlockSize) = p
        BY <2>2, <3>1, BlockOfPlace
      <3>3. q \in AreaStart(b) .. AreaEnd(b) - 1 /\ q < stop
        BY <2>1, <2>2, <3>1
      <3>4. QED
        BY <2>1, <3>2, <3>3
    <2>4. p \in Places(p) /\ p + BlockSize - 1 \in Places(p)
      BY <2>2 DEF Places
    <2>5. p + BlockSize - 1 < N
      BY <2>3, <2>4
    <2>6. QED
      BY <2>2, <2>3, <2>4, <2>5 DEF FullBlock
  <1>10. Types'
    <2>1. ptr \in [Bucket -> [w : Int, r : Int]]
      BY <1>8, PtrFunction DEF BeforePermutation
    <2>2. \A t \in Thread : AtStart(t) \in Locals
      <3> SUFFICES ASSUME NEW t \in Thread PROVE AtStart(t) \in Locals
        OBVIOUS
      <3>1. StartBucket(t) \in Bucket
        <4>1. /\ t \in Nat /\ T \in Nat /\ T > 0 /\ NumBuckets \in Nat /\ NumBuckets > 0
          BY <1>1 DEF Team, Thread
        <4>2. t * NumBuckets \in Nat
          BY <4>1
        <4>3. (t * NumBuckets) \div T \in Int
          BY <4>1, <4>2
        <4>4. ((t * NumBuckets) \div T) % NumBuckets \in 0 .. NumBuckets - 1
          BY <4>1, <4>3
        <4>5. QED
          BY <4>4 DEF StartBucket, Bucket
      <3>2. NumBuckets \in Int
        BY <1>1 DEF Team
      <3>3. QED
        BY <3>1, <3>2 DEF AtStart, Locals
    <2>3. me \in [Thread -> Locals]
      BY <2>2 DEF BeforePermutation
    <2>4. pc' \in [Thread -> Permuting]
      BY <1>1 DEF Permuting
    <2>5. Locals' = Locals
      BY <1>3 DEF Locals
    <2>6. /\ DOMAIN a = 0 .. N - 1 /\ DOMAIN reading = Bucket /\ DOMAIN overflow = Thread
          /\ DOMAIN swap = Thread /\ \A t \in Thread : DOMAIN swap[t] = 1 .. 2
      BY DEF BeforePermutation
    <2>7. QED
      BY <1>2, <1>3, <2>1, <2>3, <2>4, <2>5, <2>6 DEF Types
  <1>11. Pointers'
    <2>1. \A p : FullBlock(p) => FullBlock(p)'
      BY <1>2, <1>3 DEF FullBlock
    <2>2. \A b, p : Between(b, p)' <=> Between(b, p)
      BY <1>2 DEF Between
    <2>3. \A b \in Bucket : /\ IsBlock(ptr[b].w) /\ IsBlock(ptr[b].r)
                            /\ AreaStart(b) <= ptr[b].w /\ ptr[b].r + BlockSize <= AreaEnd(b)
      BY <1>6, <1>8
    <2>4. QED
      BY <1>2, <1>3, <1>9, <2>1, <2>2, <2>3 DEF Pointers
  <1>12. \A t \in Thread : pc'[t] = "pick"
    BY <1>1
  <1>13. Threads' /\ Pairs'
    BY <1>3, <1>12 DEF Threads, Pairs, ThreadOK, PairOK, Writing
  <1>14. Counts'
    <2>1. \A b : Readers(b)' = {}
      BY <1>3, <1>12 DEF Readers
    <2>2. \A b \in Bucket : reading'[b] = 0
      BY <1>2 DEF BeforePermutation
    <2>3. QED
      BY <1>3, <2>1, <2>2, FS_EmptySet DEF Counts
  <1>15. Room'
    <2> SUFFICES ASSUME NEW c \in Bucket
                 PROVE  Taken(c)' = 0 \/ Taken(c)' < Size(c)'
      BY <1>3 DEF Room
    <2>1. Carriers(c)' = {}
      BY <1>3, <1>12 DEF Carriers, Carries
    <2>2. Unread(c)' \subseteq FullBlocksOf(c)
      BY <1>2, <1>3 DEF Unread, FullBlocksOf, Between, IsBlock
    <2>3. IsFiniteSet(FullBlocksOf(c))
      <3>1. 0 \in Int /\ N - 1 \in Int
        BY <1>1 DEF Team
      <3>2. IsFiniteSet(0 .. N - 1)
        BY <3>1, FS_Interval
      <3>3. FullBlocksOf(c) \subseteq 0 .. N - 1
        BY DEF FullBlocksOf
      <3>4. QED
        BY <3>2, <3>3, FS_Subset
    <2>4. /\ Cardinality(Unread(c)') \in Nat /\ Cardinality(FullBlocksOf(c)) \in Nat
          /\ Cardinality(Unread(c)') <= Cardinality(FullBlocksOf(c))
      BY <2>2, <2>3, FS_Subset, FS_CardinalityType
    <2>5. Left(c)' = Cardinality(Unread(c)')
      BY <2>1, <2>4, FS_EmptySet DEF Left
    <2>6. Taken(c)' = BlockSize * Cardinality(Unread(c)')
      <3>1. ptr'[c].w = AreaStart(c)' /\ AreaStart(c)' \in Nat
        BY <1>2, <1>3, <1>6, <1>8
      <3>2. BlockSize * Cardinality(Unread(c)') \in Int
        BY <2>4, Sizes
      <3>3. QED
        BY <2>5, <3>1, <3>2 DEF Taken
    <2>7. CASE FullBlocksOf(c) = {}
      <3>1. Cardinality(Unread(c)') = 0
        BY <2>2, <2>7, FS_EmptySet
      <3>2. QED
        BY <2>6, <3>1, Sizes
    <2>8. CASE BlockSize * Cardinality(FullBlocksOf(c)) < bucketStart[c + 1] - bucketStart[c]
      <3> DEFINE x == Cardinality(Unread(c)')
                 y == Cardinality(FullBlocksOf(c))
      <3>1. BlockSize \in Nat /\ x \in Nat /\ y \in Nat /\ x <= y
        BY <2>4, Sizes
      <3>2. Size(c)' = bucketStart[c + 1] - bucketStart[c] /\ Size(c)' \in Int
        BY <1>3, <1>5, Areas DEF Size
      <3>3. BlockSize * y < Size(c)'
        BY <2>8, <3>2
      <3> HIDE DEF x, y
      <3>4. BlockSize * x <= BlockSize * y /\ BlockSize * x \in Int /\ BlockSize * y \in Int
        BY <3>1
      <3>5. BlockSize * x < Size(c)'
        BY <3>2, <3>3, <3>4
      <3>6. QED
        BY <2>6, <3>5 DEF x
    <2>9. QED
      BY <1>4, <2>7, <2>8
  <1>16. Overflows'
    BY <1>2, <1>3 DEF Overflows, BeforePermutation
  <1>17. Shape'
    BY <1>2, <1>5, SameShape
  <1>18. QED
    BY <1>10, <1>11, <1>13, <1>14, <1>15, <1>16, <1>17 DEF PermInv

-----------------------------------------------------------------------------
(* The phases                                                              *)

(* Before the permutation every step keeps to the elements, the pointers   *)
(* and the variables of its own phase.                                     *)
LEMMA BeforeKept ==
    ASSUME BeforePermutation, UNCHANGED <<input, reading, swap, overflow, me>>,
           DOMAIN a' = DOMAIN a, ptr' = [b \in Bucket |-> ptr'[b]], pc' \in [Thread -> Early]
    PROVE  BeforePermutation'
  <1>1. /\ N' = N /\ Thread' = Thread /\ Bucket' = Bucket /\ (Team => Team')
        /\ [t \in Thread' |-> AtStart(t)'] = [t \in Thread |-> AtStart(t)]
    BY SameTeam
  <1>2. Team /\ Team'
    BY <1>1 DEF BeforePermutation
  <1>3. DOMAIN a' = 0 .. N' - 1 /\ ptr' = [b \in Bucket' |-> ptr'[b]]
    BY <1>1 DEF BeforePermutation
  <1>4. /\ reading' = [b \in Bucket' |-> 0]
        /\ swap' = [t \in Thread' |-> <<<<>>, <<>>>>]
        /\ overflow' = [t \in Thread' |-> <<>>]
    BY <1>1 DEF BeforePermutation
  <1>5. me' = [t \in Thread' |-> AtStart(t)']
    BY <1>1 DEF BeforePermutation
  <1>6. pc' \in [Thread' -> Early]
    BY <1>1
  <1>7. QED
    BY <1>2, <1>3, <1>4, <1>5, <1>6 DEF BeforePermutation

(* After the permutation only the margins are written; nobody goes back.   *)
LEMMA AfterKept ==
    ASSUME AfterPermutation, UNCHANGED <<input, bucketStart>>, pc' \in [Thread -> Late],
           DOMAIN overflow' = Thread,
           \A t \in Thread : overflow'[t] = overflow[t] \/ overflow'[t] = <<>>
    PROVE  AfterPermutation'
  <1>1. Thread' = Thread /\ (Team => Team') /\ OverflowBucket' = OverflowBucket
    BY SameTeam, SameShape
  <1>2. OverflowForeseen
    BY DEF AfterPermutation
  <1>3. \A t \in Thread : overflow'[t] # <<>> =>
            /\ overflow'[t] = [k \in 1 .. BlockSize |-> OverflowBucket]
            /\ \A u \in Thread \ {t} : overflow'[u] = <<>>
    BY <1>2 DEF OverflowForeseen
  <1>4. OverflowForeseen'
    BY <1>1, <1>3 DEF OverflowForeseen
  <1>5. QED
    BY <1>1, <1>4 DEF AfterPermutation

(* Steps before the permutation, up to the barrier that ends the movement. *)
LEMMA BeforeStep ==
    ASSUME BeforePermutation, [Next]_vars, ~(Barriers /\ Barrier("moved", "pick"))
    PROVE  BeforePermutation'
  <1>1. /\ Team /\ 0 \in Thread /\ pc \in [Thread -> Early]
        /\ ptr = [b \in Bucket |-> ptr[b]]
    BY SomeThread DEF BeforePermutation
  <1>2. CASE UNCHANGED vars
    BY <1>1, <1>2, BeforeKept DEF vars
  <1>3. CASE Barriers
    <2>1. UNCHANGED <<input, a, bucketStart, ptr, reading, swap, overflow, me, mvars>>
      BY <1>3 DEF Barriers
    <2>2. CASE Barrier("classified", "move")
      <3>1. pc' \in [Thread -> Early]
        BY <2>2 DEF Barrier, Early
      <3>2. QED
        BY <1>1, <2>1, <3>1, BeforeKept
    <2>3. ~Barrier("moved", "pick")
      BY <1>3
    <2>4. CASE Barrier("published", "save") \/ Barrier("saved", "margins")
      BY <1>1, <2>4 DEF Barrier, Early
    <2>5. QED
      BY <1>3, <2>2, <2>3, <2>4 DEF Barriers
  <1>4. ASSUME NEW t \in Thread, Step(t)
        PROVE  BeforePermutation'
    <2>1. pc[t] \in Early
      BY <1>1
    <2>2. CASE Classify(t)
      <3>1. DOMAIN a' = DOMAIN a /\ UNCHANGED <<input, ptr, reading, swap, overflow, me>>
        BY <2>2 DEF Classify
      <3>2. pc' \in [Thread -> Early]
        BY <1>1, <2>2 DEF Classify, Goto, Early
      <3>3. QED
        BY <1>1, <3>1, <3>2, BeforeKept
    <2>3. CASE SetPointers(t)
      <3>1. UNCHANGED <<input, a, reading, swap, overflow, me>>
            /\ ptr' = [b \in Bucket |-> ptr'[b]]
        BY <2>3 DEF SetPointers
      <3>2. pc' \in [Thread -> Early]
        BY <1>1, <2>3 DEF SetPointers, Goto, Early
      <3>3. QED
        BY <3>1, <3>2, BeforeKept
    <2>4. CASE StartMove(t)
      <3>1. UNCHANGED <<input, a, reading, swap, overflow, me>>
            /\ ptr' = [b \in Bucket |-> ptr'[b]]
        BY <2>4 DEF StartMove
      <3>2. pc' \in [Thread -> Early]
        BY <1>1, <2>4 DEF StartMove, Goto, Early
      <3>3. QED
        BY <3>1, <3>2, BeforeKept
    <2>5. CASE MoveBlocks(t)
      <3>1. DOMAIN a' = DOMAIN a /\ UNCHANGED <<input, ptr, reading, swap, overflow, me, pc>>
        BY <2>5 DEF MoveBlocks
      <3>2. QED
        BY <1>1, <3>1, BeforeKept
    <2>6. CASE EndMove(t)
      <3>1. UNCHANGED <<input, a, reading, swap, overflow, me>>
        BY <2>6 DEF EndMove
      <3>2. ptr' = [b \in Bucket |-> ptr'[b]]
        BY <1>1, <2>6 DEF EndMove
      <3>3. pc' \in [Thread -> Early]
        BY <1>1, <2>6 DEF EndMove, Goto, Early
      <3>4. QED
        BY <3>1, <3>2, <3>3, BeforeKept
    <2>7. ~PermuteBlocks(t)
      BY <2>1 DEF Early, PermuteBlocks, PermuteStep, StartRead, DecRead, ReadBlock, StopRead,
                  NextBucket, IncWrite, WaitForReaders, WriteBlock, LookAtBlock
    <2>8. ~Publish(t) /\ ~SaveMargins(t) /\ ~WriteMargin(t) /\ ~EndMargins(t)
      BY <2>1 DEF Early, Publish, SaveMargins, WriteMargin, EndMargins
    <2>9. QED
      BY <1>4, <2>2, <2>3, <2>4, <2>5, <2>6, <2>7, <2>8 DEF Step
  <1>5. CASE Stop
    BY <1>2, <1>5 DEF Stop
  <1>6. QED
    BY <1>2, <1>3, <1>4, <1>5 DEF Next

(* The permutation ends when the threads meet, or with its one thread.     *)
LEMMA Ends ==
    ASSUME PermInv, UNCHANGED <<input, bucketStart, overflow>>, pc' \in [Thread -> Late]
    PROVE  AfterPermutation'
  <1>1. Thread' = Thread /\ OverflowBucket' = OverflowBucket /\ Shape'
    BY SameShape DEF PermInv
  <1>2. OverflowForeseen /\ DOMAIN overflow = Thread
    BY Foreseen DEF PermInv, Types
  <1>3. OverflowForeseen'
    BY <1>1, <1>2 DEF OverflowForeseen
  <1>4. QED
    BY <1>1, <1>2, <1>3 DEF AfterPermutation, Team, Shape

(* A thread that publishes its overflow block has no block in use; alone,  *)
(* it goes on to the margins at once.                                      *)
LEMMA PublishStep ==
    ASSUME PermInv, NEW t \in Thread, Publish(t)
    PROVE  PermInv' \/ AfterPermutation'
  <1>1. Types /\ Shape /\ Team /\ 0 \in Thread /\ pc \in [Thread -> Permuting]
    BY SomeThread DEF PermInv, Team, Shape, Types
  <1>2. /\ pc[t] = "permuted"
        /\ pc' = [pc EXCEPT ![t] = IF T = 1 THEN "margins" ELSE "published"]
        /\ me' = [me EXCEPT ![t].bucket = IF T = 1 THEN 0 ELSE @]
        /\ UNCHANGED <<input, a, bucketStart, ptr, reading, swap, overflow>>
    BY DEF Publish, Goto
  <1>3. CASE T = 1
    <2>1. Thread = {t}
      BY <1>3 DEF Thread
    <2>2. pc' \in [Thread -> Late]
      BY <1>1, <1>2, <1>3, <2>1 DEF Late
    <2>3. QED
      BY <1>2, <2>2, Ends
  <1>4. CASE T # 1
    <2>1. Thread' = Thread /\ Bucket' = Bucket /\ N' = N
      BY <1>2, SameShape
    <2>2. me' = me
      <3>1. me \in [Thread -> Locals]
        BY <1>1 DEF Types
      <3>2. me' = [me EXCEPT ![t].bucket = @]
        BY <1>2, <1>4
      <3>3. QED
        BY <3>1, <3>2 DEF Locals
    <2>3. pc'[t] = "published" /\ pc' \in [Thread -> Permuting]
      BY <1>1, <1>2, <1>4 DEF Permuting
    <2>4. Types'
      BY <1>1, <1>2, <2>1, <2>2, <2>3 DEF Types, Locals
    <2>5. \A u \in Thread \ {t} : pc'[u] = pc[u] /\ me'[u] = me[u] /\ swap'[u] = swap[u]
      BY <1>1, <1>2, <2>2
    <2>6. ThreadOK(t)' /\ \A c : Carries(t, c)' <=> Carries(t, c)
      BY <1>2, <2>3 DEF ThreadOK, Carries, Writing
    <2>7. \A u \in Thread \ {t} : PairOK(t, u)' /\ PairOK(u, t)'
      BY <2>3 DEF PairOK, Writing
    <2>8. Counts'
      <3>1. \A b : t \in Readers(b)' <=> t \in Readers(b)
        BY <1>2, <2>1, <2>3 DEF Readers
      <3>2. QED
        BY <1>2, <2>1, <2>5, <3>1, CountsKept
    <2>9. PermInv'
      BY <1>2, <2>4, <2>5, <2>6, <2>7, <2>8, FullKept, QuietStep
    <2>10. QED
      BY <2>9
  <1>5. QED
    BY <1>3, <1>4

(* Steps during the permutation.                                           *)
LEMMA PermutationStep ==
    ASSUME PermInv, [Next]_vars
    PROVE  PermInv' \/ AfterPermutation'
  <1>1. pc \in [Thread -> Permuting] /\ Team /\ 0 \in Thread
    BY SomeThread DEF PermInv, Types, Team, Shape
  <1>2. CASE UNCHANGED vars
    BY <1>2, Unchanged DEF vars, pvars
  <1>3. CASE Barriers
    <2>1. UNCHANGED <<input, a, bucketStart, ptr, reading, swap, overflow, me, mvars>>
      BY <1>3 DEF Barriers
    <2>2. CASE Barrier("published", "save")
      <3>1. pc' \in [Thread -> Late]
        BY <2>2 DEF Barrier, Late
      <3>2. QED
        BY <2>1, <3>1, Ends
    <2>3. CASE Barrier("classified", "move") \/ Barrier("moved", "pick") \/ Barrier("saved", "margins")
      BY <1>1, <2>3 DEF Barrier, Permuting
    <2>4. QED
      BY <1>3, <2>2, <2>3 DEF Barriers
  <1>4. ASSUME NEW t \in Thread, Step(t)
        PROVE  PermInv' \/ AfterPermutation'
    <2>1. pc[t] \in Permuting
      BY <1>1
    <2>2. CASE PermuteBlocks(t)
      BY <2>2, PermuteStepKeeps DEF PermuteBlocks
    <2>3. CASE Publish(t)
      BY <2>3, PublishStep
    <2>4. ~Classify(t) /\ ~SetPointers(t) /\ ~StartMove(t) /\ ~MoveBlocks(t) /\ ~EndMove(t)
      BY <2>1 DEF Permuting, Classify, SetPointers, StartMove, MoveBlocks, EndMove
    <2>5. ~SaveMargins(t) /\ ~WriteMargin(t) /\ ~EndMargins(t)
      BY <2>1 DEF Permuting, SaveMargins, WriteMargin, EndMargins
    <2>6. QED
      BY <1>4, <2>2, <2>3, <2>4, <2>5 DEF Step
  <1>5. CASE Stop
    BY <1>2, <1>5 DEF Stop
  <1>6. QED
    BY <1>2, <1>3, <1>4, <1>5 DEF Next

(* Steps after the permutation, up to the next partitioning step.          *)
LEMMA AfterStep ==
    ASSUME AfterPermutation, [Next]_vars
    PROVE  AfterPermutation'
  <1>1. pc \in [Thread -> Late] /\ Team /\ 0 \in Thread /\ DOMAIN overflow = Thread
    BY SomeThread DEF AfterPermutation
  <1>2. CASE UNCHANGED vars
    BY <1>1, <1>2, AfterKept DEF vars
  <1>3. CASE Barriers
    <2>1. UNCHANGED <<input, a, bucketStart, ptr, reading, swap, overflow, me, mvars>>
      BY <1>3 DEF Barriers
    <2>2. CASE Barrier("saved", "margins")
      <3>1. pc' \in [Thread -> Late]
        BY <2>2 DEF Barrier, Late
      <3>2. QED
        BY <1>1, <2>1, <3>1, AfterKept
    <2>3. CASE Barrier("classified", "move") \/ Barrier("moved", "pick")
               \/ Barrier("published", "save")
      BY <1>1, <2>3 DEF Barrier, Late
    <2>4. QED
      BY <1>3, <2>2, <2>3 DEF Barriers
  <1>4. ASSUME NEW t \in Thread, Step(t)
        PROVE  AfterPermutation'
    <2>1. pc[t] \in Late
      BY <1>1
    <2>2. ~Classify(t) /\ ~SetPointers(t) /\ ~StartMove(t) /\ ~MoveBlocks(t) /\ ~EndMove(t)
          /\ ~Publish(t)
      BY <2>1 DEF Late, Classify, SetPointers, StartMove, MoveBlocks, EndMove, Publish
    <2>3. ~PermuteBlocks(t)
      BY <2>1 DEF Late, PermuteBlocks, PermuteStep, StartRead, DecRead, ReadBlock, StopRead,
                  NextBucket, IncWrite, WaitForReaders, WriteBlock, LookAtBlock
    <2>4. CASE SaveMargins(t)
      <3>1. UNCHANGED <<input, bucketStart, overflow>>
        BY <2>4 DEF SaveMargins
      <3>2. pc' \in [Thread -> Late]
        BY <1>1, <2>4 DEF SaveMargins, Goto, Late
      <3>3. QED
        BY <1>1, <3>1, <3>2, AfterKept
    <2>5. CASE WriteMargin(t)
      <3>1. UNCHANGED <<input, bucketStart, pc>>
            /\ \/ overflow' = [overflow EXCEPT ![sharedOverflow] = <<>>]
               \/ overflow' = overflow
        BY <2>5 DEF WriteMargin
      <3>2. DOMAIN overflow' = Thread
            /\ \A u \in Thread : overflow'[u] = overflow[u] \/ overflow'[u] = <<>>
        BY <1>1, <3>1
      <3>3. QED
        BY <1>1, <3>1, <3>2, AfterKept
    <2>6. CASE EndMargins(t)
      <3>1. UNCHANGED <<input, bucketStart, overflow>>
        BY <2>6 DEF EndMargins
      <3>2. pc' \in [Thread -> Late]
        BY <1>1, <2>6 DEF EndMargins, Goto, Late
      <3>3. QED
        BY <1>1, <3>1, <3>2, AfterKept
    <2>7. QED
      BY <1>4, <2>2, <2>3, <2>4, <2>5, <2>6 DEF Step
  <1>5. CASE Stop
    BY <1>2, <1>5 DEF Stop
  <1>6. QED
    BY <1>2, <1>3, <1>4, <1>5 DEF Next

-----------------------------------------------------------------------------
(* Every step keeps the phases.  Past the barrier that ends the movement   *)
(* the permutation finds full blocks first.                                *)
LEMMA PhaseStep ==
    ASSUME PhaseInv, [Next]_vars
    PROVE  PhaseInv'
  <1>1. CASE BeforePermutation /\ EarlyInv
    <2>1. CASE Barriers /\ Barrier("moved", "pick")
      <3>1. UNCHANGED <<input, a, bucketStart, ptr, reading, swap, overflow, me, mvars>>
        BY <2>1 DEF Barriers
      <3>2. FullBlocksFirst
        BY <1>1, EarlyDone
      <3>3. PermInv'
        BY <1>1, <2>1, <3>1, <3>2, Begins
      <3>4. QED
        BY <3>3 DEF PhaseInv
    <2>2. CASE ~(Barriers /\ Barrier("moved", "pick"))
      <3>1. BeforePermutation'
        BY <1>1, <2>2, BeforeStep
      <3>2. EarlyInv'
        BY <1>1, <2>2, EarlyStep
      <3>3. QED
        BY <3>1, <3>2 DEF PhaseInv
    <2>3. QED
      BY <2>1, <2>2
  <1>2. CASE PermInv
    BY <1>2, PermutationStep DEF PhaseInv
  <1>3. CASE AfterPermutation
    BY <1>3, AfterStep DEF PhaseInv
  <1>4. QED
    BY <1>1, <1>2, <1>3 DEF PhaseInv

(* What the phases say of the run's properties.                            *)
LEMMA PhasesSafe ==
    PhaseInv => FullBlocksFirst /\ BlocksExclusive /\ OverflowForeseen /\ BlocksInside
  <1>1. CASE BeforePermutation /\ EarlyInv
    <2>1. \A t \in Thread : pc[t] \notin {"read", "look", "write"} /\ overflow[t] = <<>>
      BY <1>1 DEF BeforePermutation, Early
    <2>2. FullBlocksFirst
      BY <1>1, EarlyDone
    <2>3. QED
      BY <2>1, <2>2 DEF BlocksExclusive, OverflowForeseen, BlocksInside
  <1>2. CASE PermInv
    <2>1. 0 \in Thread /\ pc \in [Thread -> Permuting]
      BY <1>2, SomeThread DEF PermInv, Types, Team, Shape
    <2>2. pc[0] # "moved"
      BY <2>1 DEF Permuting
    <2>3. FullBlocksFirst
      BY <2>1, <2>2 DEF FullBlocksFirst
    <2>4. QED
      BY <1>2, <2>3, Exclusive, Foreseen, Inside
  <1>3. CASE AfterPermutation
    <2>1. 0 \in Thread /\ pc \in [Thread -> Late]
      BY <1>3, SomeThread DEF AfterPermutation
    <2>2. \A t \in Thread : pc[t] \notin {"moved", "read", "look", "write"}
      BY <2>1 DEF Late
    <2>3. FullBlocksFirst
      BY <2>1, <2>2 DEF FullBlocksFirst
    <2>4. QED
      BY <1>3, <2>2, <2>3 DEF AfterPermutation, BlocksExclusive, BlocksInside
  <1>4. QED
    BY <1>1, <1>2, <1>3 DEF PhaseInv

(* The phases keep their invariant in every step of a sort.                *)
THEOREM PhasesHold == Spec => []PhaseInv
  <1>1. Init => PhaseInv
    BY InitHolds
  <1>2. PhaseInv /\ [Next]_vars => PhaseInv'
    BY PhaseStep
  <1>3. QED
    BY <1>1, <1>2, PTL DEF Spec

(* moveEmptyBlocks: whatever parts of whichever buckets the threads'       *)
(* stripes hold, and in whatever order the threads move blocks without     *)
(* waiting for each other, when all are through every bucket has its full  *)
(* blocks first and its pointers say how many (empty_block_movement.hpp).  *)
THEOREM FullFirst == Spec => []FullBlocksFirst
  <1>1. PhaseInv => FullBlocksFirst
    BY PhasesSafe
  <1>2. QED
    BY <1>1, PhasesHold, PTL

(* permuteBlocks: no block is read, looked at or written by two threads at *)
(* once, though nothing but the packed pointers and the count of readers   *)
(* stands between them (bucket_pointers.hpp:103-105).                      *)
THEOREM NoBlockShared == Spec => []BlocksExclusive
  <1>1. PhaseInv => BlocksExclusive
    BY PhasesSafe
  <1>2. QED
    BY <1>1, PhasesHold, PTL

(* swapBlock: the one block that does not fit into the array belongs to    *)
(* the bucket computeOverflowBucket foresaw, and writeMargins looks for it *)
(* there only.                                                             *)
THEOREM OneOverflow == Spec => []OverflowForeseen
  <1>1. PhaseInv => OverflowForeseen
    BY PhasesSafe
  <1>2. QED
    BY <1>1, PhasesHold, PTL

(* Blocks are read, looked at and written inside the array: the check of   *)
(* the write pointer against max_off_ is enough, and so is that of the     *)
(* read pointer against the write pointer.                                 *)
THEOREM NoBlockOutside == Spec => []BlocksInside
  <1>1. PhaseInv => BlocksInside
    BY PhasesSafe
  <1>2. QED
    BY <1>1, PhasesHold, PTL

=============================================================================
