----------------------------- MODULE TaskRanges -----------------------------
(***************************************************************************)
(* The arithmetic of queueTasks (parallel.hpp): which threads get a task   *)
(* of the index range [begin, end).  The input is cut into stripes of      *)
(* ceil(n / threads) elements, one per thread; a task goes to the threads  *)
(* whose stripes it covers, with both ends rounded to the nearest stripe.  *)
(***************************************************************************)
EXTENDS Integers

\* (size + num_threads - 1) / num_threads
Stripe(size, threads) == (size + threads - 1) \div threads

\* thread_begin and thread_end are both the rounding of an absolute index.
ThreadAt(index, stripe) == (index + stripe \div 2) \div stripe

(* The owner of a task too small for two threads, relative to the first    *)
(* thread of the parent's group: the stripe, in the parent, of its middle. *)
V_OwnerOfEnd(begin, end, parentStripe) == end \div parentStripe
OwnerAt(begin, end, parentStripe) ==
    (begin + (end - begin) \div 2) \div parentStripe
=============================================================================
