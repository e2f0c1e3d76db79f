----------------------------- MODULE ThreadPool -----------------------------
(***************************************************************************)
(* StdThreadPool (thread_pool.hpp): the thread that owns the pool has id   *)
(* 0, workers 1 .. N-1 loop in Impl::main.  func_, num_threads_, done_ and *)
(* the counts of sync_ are plain variables, published to the workers only  *)
(* by pool_barrier_, which is used as Rendezvous promises (Barrier.tla     *)
(* implements it).  One action ends where a thread may be overtaken: at a  *)
(* barrier, and around each call of func_.                                 *)
(***************************************************************************)
EXTENDS Naturals, FiniteSets

CONSTANTS
    N,          \* size of the pool, std::max(1, num_threads)
    MaxJobs     \* bound: calls of operator() before the pool is destroyed

ASSUME PoolAssumption == N \in Nat \ {0} /\ MaxJobs \in Nat

Id == 0 .. N - 1
Worker == Id \ {0}
Meetings == 2 * MaxJobs + 1

VARIABLES
    func,       \* func_: the number of the job, 0 at first
    num_threads,
    sync_n,     \* the number of threads sync_ is set for
    done,
    pc,         \* pc[i]: where thread i is
    left,       \* pool_barrier_: meetings each thread has left
    inside,     \*                and the threads that are in one
    jobs,       \* history: calls of operator() so far
    asked,      \* history: the number of threads asked for by each call
    ran         \* history: ran[j][i], how often thread i has run job j

vars == <<func, num_threads, sync_n, done, pc, left, inside, jobs, asked, ran>>
state == <<func, num_threads, sync_n, done>>
history == <<jobs, asked, ran>>

PC == {"idle", "start", "func", "end", "alone", "exit", "join", "gone"}

PoolBarrier == INSTANCE Rendezvous WITH
    Thread <- Id, Rounds <- Meetings, Single <- {}, team <- Id, runs <- <<>>

Init ==
    /\ func = 0 /\ num_threads = N /\ sync_n = N /\ done = FALSE
    /\ pc = [i \in Id |-> IF i = 0 THEN "idle" ELSE "start"]
    /\ left = [i \in Id |-> 0]
    /\ inside = {}
    /\ jobs = 0
    /\ asked = [j \in 1 .. MaxJobs |-> 0]
    /\ ran = [j \in 1 .. MaxJobs |-> [i \in Id |-> 0]]

Goto(i, l) == pc' = [pc EXCEPT ![i] = l]

-----------------------------------------------------------------------------
(* The owner                                                               *)

NewJob(k) ==
    /\ pc[0] = "idle"
    /\ jobs < MaxJobs
    /\ jobs' = jobs + 1
    /\ asked' = [asked EXCEPT ![jobs + 1] = k]

\* operator() with more than one thread: run() up to its first barrier.
V_KeepThreads(k) == UNCHANGED num_threads
SetThreads(k) == num_threads' = k

Run(k) ==
    /\ NewJob(k)
    /\ k > 1
    /\ func' = jobs + 1
    /\ SetThreads(k)
    /\ sync_n' = k
    /\ Goto(0, "start")
    /\ UNCHANGED <<done, left, inside, ran>>

\* func(0, 1): the pool is not involved.
RunAlone ==
    /\ NewJob(1)
    /\ Goto(0, "alone")
    /\ UNCHANGED <<state, left, inside, ran>>

FinishAlone ==
    /\ pc[0] = "alone"
    /\ ran' = [ran EXCEPT ![jobs][0] = @ + 1]
    /\ Goto(0, "idle")
    /\ UNCHANGED <<state, left, inside, jobs, asked>>

\* ~Impl
V_KeepDone == UNCHANGED done
SetDone == done' = TRUE

Destroy ==
    /\ pc[0] = "idle"
    /\ SetDone
    /\ Goto(0, "exit")
    /\ UNCHANGED <<func, num_threads, sync_n, left, inside, history>>

Join ==
    /\ pc[0] = "join"
    /\ \A i \in Worker : pc[i] = "gone"
    /\ Goto(0, "gone")
    /\ UNCHANGED <<state, left, inside, history>>

-----------------------------------------------------------------------------
(* The pool barrier and the calls of func_, by every thread                *)

Come(i) ==
    /\ pc[i] \in {"start", "end", "exit"}
    /\ PoolBarrier!Come(i)
    /\ UNCHANGED <<state, pc, history>>

\* After the first barrier: if (done_) break; if (my_id < num_threads_) func_.
V_OneMore(i) == i <= num_threads
TakesPart(i) == i < num_threads

LeavesLoop(i) == i # 0 /\ done

LeaveStart(i) ==
    /\ pc[i] = "start"
    /\ PoolBarrier!Leave(i)
    /\ Goto(i, IF LeavesLoop(i) THEN "gone"
               ELSE IF TakesPart(i) THEN "func" ELSE "end")
    /\ UNCHANGED <<state, history>>

CallFunc(i) ==
    /\ pc[i] = "func"
    /\ ran' = [ran EXCEPT ![func][i] = @ + 1]
    /\ Goto(i, "end")
    /\ UNCHANGED <<state, left, inside, jobs, asked>>

\* After the second barrier: run() returns, a worker loops.
V_NoWait(i) == /\ i \in inside
               /\ left' = [left EXCEPT ![i] = @ + 1]
               /\ inside' = inside \ {i}
LeaveBarrier(i) == PoolBarrier!Leave(i)

LeaveEnd(i) ==
    /\ pc[i] = "end"
    /\ LeaveBarrier(i)
    /\ Goto(i, IF i = 0 THEN "idle" ELSE "start")
    /\ UNCHANGED <<state, history>>

LeaveExit ==
    /\ pc[0] = "exit"
    /\ PoolBarrier!Leave(0)
    /\ Goto(0, "join")
    /\ UNCHANGED <<state, history>>

Terminated ==
    /\ \A i \in Id : pc[i] = "gone"
    /\ UNCHANGED vars

Step(i) == Come(i) \/ LeaveStart(i) \/ CallFunc(i) \/ LeaveEnd(i)

OwnerStep == Step(0) \/ LeaveExit \/ FinishAlone \/ Join

Next ==
    \/ \E i \in Id : Step(i)
    \/ \E k \in Id : Run(k + 1)
    \/ RunAlone \/ FinishAlone \/ Destroy \/ LeaveExit \/ Join
    \/ Terminated

Spec == Init /\ [][Next]_vars

(* Every thread keeps running and func terminates; nothing forces the      *)
(* owner to submit a job or to destroy the pool.                           *)
FairSpec == Spec /\ WF_vars(OwnerStep) /\ \A i \in Worker : WF_vars(Step(i))

-----------------------------------------------------------------------------
TypeOK ==
    /\ func \in 0 .. MaxJobs
    /\ num_threads \in Id \cup {N}
    /\ sync_n \in Id \cup {N}
    /\ done \in BOOLEAN
    /\ pc \in [Id -> PC]
    /\ left \in [Id -> 0 .. Meetings]
    /\ inside \subseteq Id
    /\ jobs \in 0 .. MaxJobs
    /\ asked \in [1 .. MaxJobs -> 0 .. N]
    /\ ran \in [1 .. MaxJobs -> [Id -> 0 .. 1]]

(* When operator() returns, the job has run once on each of the threads    *)
(* asked for and on no other, and earlier jobs have not been run again: no *)
(* worker saw an old func_ or an old num_threads_.                         *)
JobsComplete ==
    pc[0] \in {"idle", "exit", "join", "gone"} =>
        \A j \in 1 .. jobs, i \in Id : ran[j][i] = IF i < asked[j] THEN 1 ELSE 0

(* func_, num_threads_, done_ and the counts of sync_ are written while    *)
(* every worker is between its last use of them and the first barrier of   *)
(* the next job, which the owner has not come to: none can read them, and  *)
(* none is waiting at sync_ (the condition setNumThreads states).          *)
HasFinished(i) ==
    \/ pc[i] = "end" /\ i \in inside /\ left[i] + 1 = left[0]
    \/ pc[i] = "start" /\ left[i] = left[0]
WritesAlone == [][state' # state => 0 \notin inside /\ \A i \in Worker : HasFinished(i)]_vars

(* A thread in func_ runs the job that was submitted last, and is one of   *)
(* the threads sync_ is set for: the barriers inside a job wait for just   *)
(* the threads that take part in it.                                       *)
TeamMatches ==
    \A i \in Id : pc[i] = "func" =>
        func = jobs /\ sync_n = asked[jobs] /\ i < sync_n

(* Every call of operator() returns, and a destroyed pool ends with all    *)
(* its threads joined.                                                     *)
CallsReturn == pc[0] \in {"start", "alone"} ~> pc[0] = "idle"
DestroyEnds == pc[0] = "exit" ~> \A i \in Id : pc[i] = "gone"
PoolEnds == CallsReturn /\ DestroyEnds
=============================================================================
