--------------------------- MODULE SequentialSort ---------------------------
(***************************************************************************)
(* The sequential sort of PS4o (sequential.hpp, the sequential half of     *)
(* partitioning.hpp, base_case.hpp, sampling.hpp) and the ways into it     *)
(* (ps4o.hpp, SequentialSorter, ParallelSorter's path for small input).    *)
(*                                                                         *)
(* The recursion is a stack of frames, each a range of one of two arrays.  *)
(* Partitioning scatters a range to the other array, where its buckets are *)
(* sorted in turn; "stay" (in_input_array) says whether the result belongs *)
(* in the array the range is in or in the other one.  To choose its        *)
(* splitters a frame first sorts a sample of itself, in place, with the    *)
(* same classifier, bucket table and oracle it will then use.              *)
(*                                                                         *)
(* A place that was moved away from, or is raw memory, holds Gone.         *)
(***************************************************************************)
EXTENDS Classifier

CONSTANTS
    kBaseCaseMultiplier,
    Inputs,         \* the sequences of keys tried
    Entries         \* the ways in tried: [kind, threads]

Kinds == {"sort", "sorter", "small", "task", "parallel"}
ASSUME InputAssumption ==
    /\ kBaseCaseMultiplier \in Nat
    /\ \A s \in Inputs : Len(s) > 0 /\ \A i \in DOMAIN s : s[i] \in Nat
    /\ \A e \in Entries : e.kind \in Kinds /\ e.threads \in Nat \ {0}
\* Partitioning makes progress: enough equal splitters are possible to enable
\* equality buckets whenever the buckets are not the last level.
ASSUME ProgressAssumption ==
    \A s \in Inputs : \A n \in kSingleLevelThreshold + 1 .. Len(s) :
        kAllowEqualBuckets /\ 2 ^ logBuckets(n) - 2 >= kEqualBucketsThreshold

VARIABLES
    input, entry,   \* what is sorted, and how it was called
    arr,            \* arr.A: the caller's array, arr.B: the temporary one
    oracle,         \* oracle[p]: the bucket of place p, an unsigned char
    local,          \* LocalData and members: classifier, num_buckets_, bucket_start
    stack,          \* the calls of sequential, innermost first
    pc              \* of the entry point

vars == <<input, entry, arr, oracle, local, stack, pc>>

Gone == -1
Pos == 1 .. Len(input)
Small(n) == n <= 2 * kBaseCaseSize
Other(x) == IF x = "A" THEN "B" ELSE "A"
Size(f) == f.hi - f.lo + 1
Top == stack[1]
Content(x, lo, hi) == SubSeq(arr[x], lo, hi)

\* A call of sequential on arr[from], places lo .. hi; of the sequential that
\* queues its buckets if that is set.
Frame(from, lo, hi, stay, queues, at) ==
    [from |-> from, lo |-> lo, hi |-> hi, stay |-> stay, queues |-> queues, at |-> at,
     k |-> 0, start |-> <<>>, equal |-> FALSE]
Call(f) == stack' = <<f>> \o stack
At(f, at) == stack' = <<[f EXCEPT !.at = at, !.k = 0]>> \o Tail(stack)
Return == stack' = Tail(stack)

Init ==
    /\ input \in Inputs /\ entry \in Entries
    /\ arr = [A |-> input, B |-> [p \in Pos |-> Gone]]
    /\ oracle = [p \in Pos |-> 0]
    /\ local = [classifier |-> NoClassifier, buckets |-> 0, start |-> <<>>]
    /\ stack = <<>>
    /\ pc = "enter"
-----------------------------------------------------------------------------
(* Base cases *)

IsSortedSeq(s) == \A i \in 1 .. Len(s) - 1 : s[i] <= s[i + 1]

\* insertionSort puts each element behind those before it that are not greater.
Rank(s, i) == Cardinality({j \in DOMAIN s : IF j <= i THEN s[j] <= s[i] ELSE s[j] < s[i]})
InsertionSort(s) == [k \in DOMAIN s |-> s[CHOOSE i \in DOMAIN s : Rank(s, i) = k]]

\* sortedCaseSort: what becomes of the range, and whether it is sorted now.
NeverAscends(s) == \A i \in 1 .. Len(s) - 1 : ~(s[i] < s[i + 1])
SortedCase(s) ==
    CASE Last(s) >= Head(s) /\ IsSortedSeq(s) -> [sorted |-> TRUE, range |-> s]
      [] Last(s) < Head(s) /\ NeverAscends(s) -> [sorted |-> TRUE, range |-> Reverse(s)]
      [] OTHER -> [sorted |-> FALSE, range |-> s]

\* isSorted: each thread tests its stripe and the first element behind it.
V_Overlap == 0
Overlap == 1
StripesSorted(s, threads) ==
    LET n == Len(s)
        stripe == (n + threads - 1) \div threads
    IN  \A t \in 0 .. threads - 1 :
            IsSortedSeq(SubSeq(s, Min({stripe * t, n}) + 1,
                               Min({stripe * (t + 1) + Overlap, n})))
-----------------------------------------------------------------------------
(* Entry points *)

Sequential(at) ==
    /\ Call(Frame("A", 1, Len(input), TRUE, entry.kind = "task", at))
    /\ pc' = "sorting"

SetInput(s) == arr' = [arr EXCEPT !.A = s]

\* Up to which size an entry sorts without a sorter or before it allocates.
BaseThreshold ==
    IF entry.kind = "sort" THEN Max({kBaseCaseMultiplier, 2}) * kBaseCaseSize
    ELSE 2 * kBaseCaseSize

\* sort(), and operator() of the reusable SequentialSorter.
EnterSequential ==
    /\ pc = "enter" /\ entry.kind \in {"sort", "sorter"}
    /\ LET c == SortedCase(input) IN
       CASE c.sorted ->
              SetInput(c.range) /\ pc' = "done" /\ UNCHANGED stack
         [] ~c.sorted /\ Len(input) <= BaseThreshold ->
              SetInput(InsertionSort(input)) /\ pc' = "done" /\ UNCHANGED stack
         [] OTHER -> Sequential("call") /\ UNCHANGED arr
    /\ UNCHANGED <<input, entry, oracle, local>>

\* ParallelSorter, too little for two threads; a task of processSmallTasks.
EnterSmall ==
    /\ pc = "enter"
    /\ \/ entry.kind = "small" /\ Sequential("call")
       \/ entry.kind = "task" /\ ~Small(Len(input)) /\ Sequential("sample")
       \/ entry.kind = "task" /\ Small(Len(input)) /\ pc' = "none" /\ UNCHANGED stack
    /\ UNCHANGED <<input, entry, arr, oracle, local>>

\* parallel::sort only starts its threads when the input is not sorted.
EnterParallel ==
    /\ pc = "enter" /\ entry.kind = "parallel"
    /\ pc' = IF StripesSorted(input, entry.threads) THEN "done" ELSE "none"
    /\ UNCHANGED <<input, entry, arr, oracle, local, stack>>

Finish ==
    /\ pc = "sorting" /\ stack = <<>>
    /\ pc' = "done"
    /\ UNCHANGED <<input, entry, arr, oracle, local, stack>>
-----------------------------------------------------------------------------
(* sequential and sequential_rec *)

Running(at) == pc = "sorting" /\ stack # <<>> /\ Top.at = at

\* arr with places lo .. lo + Len(s) - 1 of x holding s.
Put(x, lo, s) ==
    [arr EXCEPT ![x] = [p \in Pos |-> IF p \in lo .. lo + Len(s) - 1 THEN s[p - lo + 1] ELSE @[p]]]
\* The same, with the elements coming from the other array.
PutFromOther(x, lo, s) ==
    [Put(x, lo, s) EXCEPT ![Other(x)] =
        [p \in Pos |-> IF p \in lo .. lo + Len(s) - 1 THEN Gone ELSE @[p]]]

BaseCase ==
    /\ Running("call") /\ Small(Size(Top))
    /\ LET s == InsertionSort(Content(Top.from, Top.lo, Top.hi))
       IN  arr' = IF Top.stay THEN Put(Top.from, Top.lo, s)
                  ELSE PutFromOther(Other(Top.from), Top.lo, s)
    /\ Return
    /\ UNCHANGED <<input, entry, oracle, local, pc>>

SequentialRec ==
    /\ Running("call") /\ ~Small(Size(Top))
    /\ At(Top, "sample")
    /\ UNCHANGED <<input, entry, arr, oracle, local, pc>>

\* selectSample: one swap with an element at or behind it.
SelectSample ==
    LET p == Top.lo + Top.k IN
    /\ Running("sample") /\ Top.k < NumSamples(Size(Top))
    /\ \E q \in p .. Top.hi :
         LET x == arr[Top.from]
         IN  arr' = [arr EXCEPT ![Top.from] = [x EXCEPT ![p] = x[q], ![q] = x[p]]]
    /\ stack' = <<[Top EXCEPT !.k = @ + 1]>> \o Tail(stack)
    /\ UNCHANGED <<input, entry, oracle, local, pc>>

SortSample ==
    LET n == NumSamples(Size(Top)) IN
    /\ Running("sample") /\ Top.k = n
    /\ stack' = <<Frame(Top.from, Top.lo, Top.lo + n - 1, TRUE, FALSE, "call"),
                  [Top EXCEPT !.at = "build", !.k = 0]>> \o Tail(stack)
    /\ UNCHANGED <<input, entry, arr, oracle, local, pc>>

BuildClassifier ==
    LET n == Size(Top)
        c == Build(Content(Top.from, Top.lo, Top.lo + NumSamples(n) - 1), n)
    IN
    /\ Running("build")
    /\ local' = [local EXCEPT !.classifier = c, !.buckets = NumBucketsOf(c)]
    /\ stack' = <<[Top EXCEPT !.at = "classify", !.equal = c.equal]>> \o Tail(stack)
    /\ UNCHANGED <<input, entry, arr, oracle, pc>>

\* sequentialClassification: start[b] is bucket_start_save of bucket b - 1.
Stored(b) == b % 256
SequentialClassification ==
    LET bucket == [p \in Top.lo .. Top.hi |-> Classify(local.classifier, arr[Top.from][p])]
        Before(b) == Cardinality({p \in DOMAIN bucket : bucket[p] < b})
        start == [b \in 1 .. local.buckets + 1 |-> Before(b - 1)]
    IN
    /\ Running("classify")
    /\ oracle' = [p \in Pos |-> IF p \in DOMAIN bucket THEN Stored(bucket[p]) ELSE oracle[p]]
    /\ local' = [local EXCEPT !.start = start]
    /\ stack' = <<[Top EXCEPT !.at = "distribute", !.start = start]>> \o Tail(stack)
    /\ UNCHANGED <<input, entry, arr, pc>>

\* distributeElements: the next free place of the bucket.
Target(p) ==
    Top.lo + local.start[oracle[p] + 1] + Cardinality({q \in Top.lo .. p - 1 : oracle[q] = oracle[p]})
DistributeElements ==
    LET to == Other(Top.from)
        Sources(p) == {q \in Top.lo .. Top.hi : Target(q) = p}
    IN
    /\ Running("distribute")
    /\ arr' = [x \in {"A", "B"} |-> [p \in Pos |->
                 CASE x = to /\ Sources(p) # {} -> arr[Top.from][Max(Sources(p))]
                   [] x = Top.from /\ p \in Top.lo .. Top.hi -> Gone
                   [] OTHER -> arr[x][p]]]
    /\ At(Top, "buckets")
    /\ UNCHANGED <<input, entry, oracle, local, pc>>

LastLevel == Size(Top) <= kSingleLevelThreshold
BucketLo(b) == Top.lo + Top.start[b + 1]
BucketHi(b) == Top.lo + Top.start[b + 2] - 1
BucketSize(b) == Top.start[b + 2] - Top.start[b + 1]

\* sort_and_move or move of one bucket.
EqualityBucket(b) == Top.equal /\ b % 2 = 1 /\ b # local.buckets - 1
FinishBucket ==
    LET b == Top.k
        to == Other(Top.from)
        s == Content(to, BucketLo(b), BucketHi(b))
        sorts == ~EqualityBucket(b) /\ (LastLevel \/ Small(BucketSize(b)))
        result == IF sorts THEN InsertionSort(s) ELSE s
    IN
    /\ Running("buckets") /\ b < local.buckets
    /\ arr' = IF Top.stay /\ (sorts \/ EqualityBucket(b))
              THEN PutFromOther(Top.from, BucketLo(b), result)
              ELSE Put(to, BucketLo(b), result)
    /\ stack' = <<[Top EXCEPT !.k = @ + 1]>> \o Tail(stack)
    /\ UNCHANGED <<input, entry, oracle, local, pc>>

\* The end of partition: local_.reset() and, on the last level, of the call.
V_Reset == local
Reset == [local EXCEPT !.classifier = NoClassifier]
EndPartition ==
    /\ Running("buckets") /\ Top.k = local.buckets
    /\ local' = Reset
    /\ IF LastLevel THEN Return ELSE At(Top, "recurse")
    /\ UNCHANGED <<input, entry, arr, oracle, pc>>

\* The buckets that are sorted by a call of their own, with the arrays swapped.
NumBuckets == Len(Top.start) - 1
Recurses(b) ==
    /\ Top.equal => b % 2 = 0 \/ b = NumBuckets - 1
    /\ ~Small(BucketSize(b))
Subtask(b, at) == Frame(Other(Top.from), BucketLo(b), BucketHi(b), ~Top.stay, Top.queues, at)

Recurse ==
    LET b == Top.k IN
    /\ Running("recurse") /\ ~Top.queues /\ b < NumBuckets
    /\ LET up == <<[Top EXCEPT !.k = @ + 1]>> \o Tail(stack)
       IN  stack' = IF Recurses(b) THEN <<Subtask(b, "call")>> \o up ELSE up
    /\ UNCHANGED <<input, entry, arr, oracle, local, pc>>

EndRecurse ==
    /\ Running("recurse") /\ ~Top.queues /\ Top.k = NumBuckets
    /\ Return
    /\ UNCHANGED <<input, entry, arr, oracle, local, pc>>

\* sequential of a task: the buckets are queued, from the last to the first, and
\* the queue gives back the one put in last.
QueueBuckets ==
    LET B == SelectSeq([i \in 1 .. NumBuckets |-> i - 1], Recurses) IN
    /\ Running("recurse") /\ Top.queues
    /\ stack' = [i \in DOMAIN B |-> Subtask(B[i], "sample")] \o Tail(stack)
    /\ UNCHANGED <<input, entry, arr, oracle, local, pc>>
-----------------------------------------------------------------------------
Done == pc \in {"done", "none"}
Stop == Done /\ UNCHANGED vars

Next ==
    \/ EnterSequential \/ EnterSmall \/ EnterParallel \/ Finish
    \/ BaseCase \/ SequentialRec \/ SelectSample \/ SortSample \/ BuildClassifier
    \/ SequentialClassification \/ DistributeElements \/ FinishBucket \/ EndPartition
    \/ Recurse \/ EndRecurse \/ QueueBuckets
    \/ Stop

Spec == Init /\ [][Next]_vars
-----------------------------------------------------------------------------
\* Where the recursion is: ranges are inside the array and nested or disjoint,
\* and a bucket table has the size its classifier was built for.
TypeOK ==
    /\ \A x \in {"A", "B"} : arr[x] \in [Pos -> Nat \cup {Gone}]
    /\ \A i \in DOMAIN stack :
        /\ stack[i].from \in {"A", "B"} /\ stack[i].lo >= 1 /\ stack[i].hi <= Len(input)
        /\ Size(stack[i]) > 0 /\ stack[i].stay \in BOOLEAN
    /\ \A p \in Pos : oracle[p] \in 0 .. 255

\* A classifier stands for the rank among its splitters, and the oracle keeps
\* every bucket number unchanged until the elements are scattered.
ClassifiedByRank ==
    Running("distribute") =>
        \A p \in Top.lo .. Top.hi :
            oracle[p] = Reference(local.classifier, arr[Top.from][p])

\* The nested sort of the sample has given the one classifier back before the
\* outer frame builds its own there, and nobody leaves one behind (the copies
\* of the splitters it holds are constructed in place and must be destroyed).
ClassifierFree ==
    Done \/ Running("build") \/ Running("call") => local.classifier = NoClassifier

\* Sorting leaves a sorted permutation of the input in the caller's array, and
\* no element in the other one.
SortsInput ==
    pc = "done" =>
        /\ IsSortedSeq(arr.A)
        /\ \A v \in {input[p] : p \in Pos} \cup {Gone} :
            Cardinality({p \in Pos : arr.A[p] = v}) = Cardinality({p \in Pos : input[p] = v})
        /\ \A p \in Pos : arr.B[p] = Gone

\* What a call starts, the sort of its sample or of a bucket, is smaller than its
\* own range, also where queued buckets replace it; only the call itself keeps its
\* range.  So the recursion ends.  Equal elements are what endangers it: without
\* equality buckets they stay together for ever.
RecursionShrinks ==
    [][stack # <<>> =>
          LET started == Len(stack') - Len(stack)
              Continues(f) == f.from = Top.from /\ f.lo = Top.lo /\ f.hi = Top.hi
          IN  \A i \in 1 .. started + 1 :
                \/ Size(stack'[i]) < Size(Top)
                \/ i = started + 1 /\ Continues(stack'[i])]_vars
=============================================================================
