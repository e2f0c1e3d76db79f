------------------------------ MODULE MCInPlace ------------------------------
(* Inputs for the partitioning step of IPS4o: one thread, two and three;    *)
(* a bucket over several stripes, all of one bucket, a last block that is   *)
(* partial and written to, buckets that end in the same block.              *)
EXTENDS InPlacePartition

In(t, b, trivial, labels) == [threads |-> t, buckets |-> b, trivial |-> trivial, labels |-> labels]

MCInputs == {
    In(1, 4, FALSE, <<2, 0, 2, 2, 2, 3, 2, 1, 2, 3, 1, 1, 1, 1, 0>>),
    In(2, 4, FALSE, <<3, 3, 3, 3, 3, 0, 0, 0, 0, 0, 1, 1, 1, 1, 1, 3, 0, 0, 0, 0, 0>>),
    In(2, 4, FALSE, <<0, 1, 1, 1, 1, 1, 2, 0, 3, 3, 2, 2, 2, 2, 2, 2, 3, 3, 3, 3>>),
    In(2, 4, FALSE, <<2, 3, 1, 3, 0, 0, 3, 1, 3, 2, 3, 2, 3, 2, 2, 1, 2, 2, 1>>),
    In(3, 4, TRUE, <<1, 1, 1>> \o [i \in 1 .. 26 |-> 2]),
    In(3, 8, TRUE, <<0, 1, 1, 1, 1, 1, 6, 6, 6, 6, 6, 6, 6, 6>>)}

\* The last of these, for a type whose move empties the source.
MCStrings == {In(3, 8, FALSE, <<0, 1, 1, 1, 1, 1, 6, 6, 6, 6, 6, 6, 6, 6>>)}
=============================================================================
