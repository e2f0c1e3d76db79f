----------------------------- MODULE Classifier -----------------------------
(***************************************************************************)
(* The branchless decision tree of the sort (classifier.hpp), how it is    *)
(* built from a sorted sample (sampling.hpp, buildClassifier) and how many *)
(* buckets it gets (config.hpp).  No state: operators on values, samples   *)
(* and sizes, values being compared as integers.                           *)
(*                                                                         *)
(* A classifier is a record: its sorted splitters, padded by copies of the *)
(* last one to a power of two, the tree made of them, the number of its    *)
(* levels (log_buckets_) and whether each bucket is paired with one for    *)
(* the elements equal to its splitter.                                     *)
(***************************************************************************)
EXTENDS Integers, Sequences, FiniteSets, FiniteSetsExt, SequencesExt

CONSTANTS
    kBaseCaseSize,
    kLogBuckets,
    kEqualBucketsThreshold,
    kAllowEqualBuckets,
    kOversampling           \* OversampleF_, in percent

ASSUME ConfigAssumption ==
    /\ kBaseCaseSize \in Nat \ {0}
    /\ kLogBuckets \in 1 .. 8
    /\ kEqualBucketsThreshold \in Nat
    /\ kAllowEqualBuckets \in BOOLEAN
    /\ kOversampling \in Nat

\* The index of the highest bit of n.
Log2(n) == Max({k \in 0 .. n : 2 ^ k <= n})

kSingleLevelThreshold == kBaseCaseSize * 2 ^ kLogBuckets
kTwoLevelThreshold == kSingleLevelThreshold * 2 ^ kLogBuckets

logBuckets(n) ==
    CASE n <= kSingleLevelThreshold -> Max({1, Log2(n \div kBaseCaseSize)})
      [] n > kSingleLevelThreshold /\ n <= kTwoLevelThreshold
            -> Max({1, (Log2(n \div kBaseCaseSize) + 1) \div 2})
      [] OTHER -> kLogBuckets

\* oversamplingFactor, as the integer it becomes in buildClassifier.
Step(n) == Max({1, (kOversampling * Log2(n)) \div 100})
NumSamples(n) == Step(n) * 2 ^ logBuckets(n) - 1
-----------------------------------------------------------------------------
(* buildClassifier, from the sorted sample of a range of n elements *)

Picked(sample, n) == [i \in 1 .. 2 ^ logBuckets(n) - 1 |-> sample[i * Step(n)]]

\* "Skip duplicates"
Chosen(sample, n) ==
    LET p == Picked(sample, n)
        I == SelectSeq([i \in DOMAIN p |-> i], LAMBDA i : i = 1 \/ p[i - 1] < p[i])
    IN  [k \in DOMAIN I |-> p[I[k]]]

V_UseEqualBuckets(sample, n) ==
    /\ kAllowEqualBuckets
    /\ 2 ^ logBuckets(n) - 1 - Len(Chosen(sample, n)) > kEqualBucketsThreshold
UseEqualBuckets(sample, n) ==
    /\ kAllowEqualBuckets
    /\ 2 ^ logBuckets(n) - 1 - Len(Chosen(sample, n)) >= kEqualBucketsThreshold

Levels(sample, n) == Log2(Len(Chosen(sample, n))) + 1

\* "Fill the array to the next power of two", and one more copy (build).
Padded(sample, n) ==
    [i \in 1 .. 2 ^ Levels(sample, n) |->
        IF i <= Len(Chosen(sample, n)) THEN Chosen(sample, n)[i] ELSE Last(Picked(sample, n))]

\* The part of the splitters, from left to right (excluded), that node pos
\* divides; node 1 has all but the copy at the end.
Mid(l, r) == l + (r - l) \div 2
Part(numBuckets) ==
    LET part[pos \in 1 .. numBuckets - 1] ==
            IF pos = 1 THEN <<0, numBuckets - 1>>
            ELSE LET up == part[pos \div 2] IN
                 IF pos % 2 = 0 THEN <<up[1], Mid(up[1], up[2])>>
                 ELSE <<Mid(up[1], up[2]), up[2]>>
    IN  part

Tree(splitters) ==
    LET P == Part(Len(splitters)) IN
    [pos \in 1 .. Len(splitters) - 1 |-> splitters[Mid(P[pos][1], P[pos][2]) + 1]]

Build(sample, n) ==
    [splitters |-> Padded(sample, n), tree |-> Tree(Padded(sample, n)),
     levels |-> Levels(sample, n), equal |-> UseEqualBuckets(sample, n)]

NoClassifier == [splitters |-> <<>>, tree |-> <<>>, levels |-> 0, equal |-> FALSE]

\* used_buckets
NumBucketsOf(c) == 2 ^ (c.levels + IF c.equal THEN 1 ELSE 0)
-----------------------------------------------------------------------------
(* classify: one comparison a level, one more for equality *)

Bit(b) == IF b THEN 1 ELSE 0
V_NotGreater(c, b, v) == Bit(c.tree[b] <= v)
Right(c, b, v) == Bit(c.tree[b] < v)

Classify(c, v) ==
    LET node[l \in 0 .. c.levels] ==
            IF l = 0 THEN 1 ELSE 2 * node[l - 1] + Right(c, node[l - 1], v)
        leaf == node[c.levels] - 2 ^ c.levels
    IN  IF c.equal THEN 2 * leaf + Bit(~(v < c.splitters[leaf + 1])) ELSE leaf

\* What the tree stands for: the number of splitters less than v, the copy at
\* the end left out; with equality buckets, also whether v is its splitter.
RankOf(c, v) == Cardinality({i \in 1 .. Len(c.splitters) - 1 : c.splitters[i] < v})
Reference(c, v) ==
    IF c.equal THEN 2 * RankOf(c, v) + Bit(c.splitters[RankOf(c, v) + 1] <= v)
    ELSE RankOf(c, v)
=============================================================================
