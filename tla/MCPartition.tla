---------------------------- MODULE MCPartition ----------------------------
(* Distributions of N elements to the buckets the classifier can use,      *)
(* dealt to the places in a fixed order that mixes the stripes.            *)
EXTENDS Partition

\* Bucket num_buckets_ - 2 stays empty with equality buckets: an element of
\* the last leaf is larger than the last splitter.
Usable(equal) == IF equal THEN Bucket \ {NumBuckets - 2} ELSE Bucket

Sorted(f) == \A p \in Pos : p > 0 => f[p - 1] <= f[p]

Dealt(f) == [p \in Pos |-> f[(p * (N - 1)) % N]]

JobsWith(equals, ins, lasts, bs) ==
    {[bucketOf |-> Dealt(f), equal |-> e, inInput |-> i, lastLevel |-> l] :
        f \in {g \in [Pos -> bs] : Sorted(g)}, e \in equals, i \in ins, l \in lasts}

\* Bounds: all buckets with equality buckets on a level that goes on, five
\* of them on the last level, four without equality buckets.
AllJobs == JobsWith({TRUE}, BOOLEAN, {FALSE}, Usable(TRUE))
           \cup JobsWith({TRUE}, BOOLEAN, {TRUE}, {0, 1, 3, 4, 7})
           \cup JobsWith({FALSE}, BOOLEAN, {FALSE}, {0, 2, 5, 7})

\* A big task of a second level: what it sorts belongs in the array tmp.
SecondLevelJobs == JobsWith({TRUE}, {FALSE}, {FALSE}, Usable(TRUE))

FirstLevelJobs == JobsWith({TRUE}, {TRUE}, {FALSE}, Usable(TRUE))
=============================================================================
