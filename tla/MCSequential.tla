---------------------------- MODULE MCSequential ----------------------------
(* Inputs for the sequential sort: few keys and many, of one level and two, *)
(* base cases, sorted and reversed ones, a descent at a stripe's end, and  *)
(* one of sixteen keys, whose sample is taken at steps of two.             *)
EXTENDS SequentialSort

MCInputs == {
    <<1, 0, 1, 1, 1, 1, 1, 1, 1, 2>>, <<1, 0, 1, 0, 1, 0, 1, 0, 1>>, <<3, 1, 4, 1, 5, 9, 2, 6, 5>>,
    <<2, 1, 0, 2, 1, 0>>, <<2, 0, 1, 2>>, <<1, 2, 0>>, <<2, 1>>, <<1>>,
    <<1, 0, 1, 1, 1, 1, 1, 2, 1, 1, 1, 1, 1, 0, 1, 1>>,
    <<4, 3, 2, 1, 0>>, <<0, 1, 2, 1, 3>>, <<0, 1, 2, 3>>}

MCEntries ==
    {[kind |-> k, threads |-> 1] : k \in Kinds \ {"parallel"}}
        \cup {[kind |-> "parallel", threads |-> t] : t \in {2, 3, 4}}
=============================================================================
