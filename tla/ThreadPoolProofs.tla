-------------------------- MODULE ThreadPoolProofs --------------------------
(***************************************************************************)
(* Theorems about ThreadPool, for any size of the pool and any number of   *)
(* jobs: operator() returns when its job has run once on each of the       *)
(* threads asked for, and the plain variables it writes are written while  *)
(* no worker can read them.                                                *)
(***************************************************************************)
EXTENDS ThreadPool, TLAPS

(* The owner is in a job that it shares with the workers, or between jobs. *)
Working == pc[0] \in {"start", "func", "end"}
Between == pc[0] \in {"idle", "exit", "join", "gone"}

(* The meetings that a thread which is in the current job has left.        *)
JobMeeting == IF pc[0] = "start" THEN left[0] + 1 ELSE left[0]

(* The thread is through with the current job.                             *)
HasRun(i) == left[i] > JobMeeting \/ (left[i] = JobMeeting /\ pc[i] = "end")

OwnerPhase ==
    /\ 0 \in inside => pc[0] \in {"start", "end", "exit"}
    /\ done <=> pc[0] \in {"exit", "join", "gone"}
    /\ pc[0] \in {"idle", "exit"} => left[0] <= 2 * jobs
    /\ pc[0] \in {"start", "alone"} => left[0] + 2 <= 2 * jobs
    /\ pc[0] \in {"func", "end"} => left[0] + 1 <= 2 * jobs
    /\ pc[0] \in {"join", "gone"} => left[0] <= 2 * jobs + 1
    /\ Working => func = jobs /\ num_threads = asked[jobs] /\ sync_n = asked[jobs]
    /\ pc[0] = "alone" => asked[jobs] = 1

(* Where a worker can be, seen from the owner: one meeting behind and      *)
(* already released from it, at the same one, or one ahead while the owner *)
(* has come but not left.                                                  *)
EvenPhase(w) ==
    \/ pc[w] = "end" /\ w \in inside /\ left[w] + 1 = left[0]
    \/ pc[w] = "start" /\ left[w] = left[0]
    \/ /\ 0 \in inside /\ left[w] = left[0] + 1
       /\ \/ pc[0] = "start" /\ pc[w] \in {"func", "end"}
          \/ pc[0] = "exit" /\ pc[w] = "gone" /\ w \notin inside

OddPhase(w) ==
    \/ pc[w] = "start" /\ w \in inside /\ left[w] + 1 = left[0]
    \/ pc[w] \in {"func", "end"} /\ left[w] = left[0]
    \/ pc[0] = "end" /\ 0 \in inside /\ pc[w] = "start" /\ left[w] = left[0] + 1

LastPhase(w) ==
    \/ pc[w] = "start" /\ w \in inside /\ left[w] + 1 = left[0]
    \/ pc[w] = "gone" /\ left[w] = left[0]

WorkerPhase ==
    \A w \in Worker :
        /\ pc[0] \in {"idle", "alone", "start", "exit"} => EvenPhase(w)
        /\ pc[0] \in {"func", "end"} => OddPhase(w)
        /\ pc[0] \in {"join", "gone"} => LastPhase(w)
        /\ w \in inside => pc[w] \in {"start", "end"}

(* Who is in func_ takes part in the job.                                  *)
FuncPart == \A i \in Id : pc[i] = "func" => i < num_threads

(* What has been run: every earlier job by all it was asked for, and the   *)
(* current one by those that are through with it.                          *)
Due(j, i) ==
    /\ i < asked[j]
    /\ j < jobs \/ (j = jobs /\ (Between \/ (Working /\ HasRun(i))))

RanRight ==
    \A j \in 1 .. MaxJobs, i \in Id : ran[j][i] = (IF Due(j, i) THEN 1 ELSE 0)

IInv == TypeOK /\ OwnerPhase /\ WorkerPhase /\ FuncPart /\ RanRight

USE DEF PC

-----------------------------------------------------------------------------
(* The pool barrier, with its parameters put in.                           *)
LEMMA BarrierCome ==
    ASSUME NEW i \in Id, PoolBarrier!Come(i)
    PROVE  /\ i \notin inside /\ left[i] < Meetings
           /\ inside' = inside \cup {i} /\ left' = left
  BY DEF PoolBarrier!Come, PoolBarrier!Same

(* What leaving the barrier of the pool says of the others: they have      *)
(* come.                                                                   *)
LEMMA BarrierLeave ==
    ASSUME NEW i \in Id, PoolBarrier!Leave(i)
    PROVE  /\ i \in inside /\ inside' = inside \ {i}
           /\ \A u \in Id : left[u] > left[i] \/ (left[u] = left[i] /\ u \in inside)
           /\ left' = [left EXCEPT ![i] = @ + 1]
  BY DEF PoolBarrier!Leave, PoolBarrier!HasCome, PoolBarrier!Same

(* The owner is not one of the workers; the types of the constants.        *)
LEMMA Ids == /\ 0 \in Id /\ Id = {0} \cup Worker /\ 0 \notin Worker
             /\ Id \subseteq Nat /\ Meetings \in Nat
  BY PoolAssumption DEF PoolAssumption, Id, Worker, Meetings

LEMMA InitIInv == Init => IInv
  <1> SUFFICES ASSUME Init PROVE IInv
    OBVIOUS
  <1>1. TypeOK
    <2>1. func \in 0 .. MaxJobs /\ jobs \in 0 .. MaxJobs
      BY PoolAssumption DEF PoolAssumption, Init
    <2>2. num_threads \in Id \cup {N} /\ sync_n \in Id \cup {N} /\ inside \subseteq Id
      BY DEF Init
    <2>3. done \in BOOLEAN
      BY DEF Init
    <2>4. pc \in [Id -> PC]
      BY DEF Init
    <2>5. left \in [Id -> 0 .. Meetings]
      BY Ids DEF Init
    <2>6. asked \in [1 .. MaxJobs -> 0 .. N]
      BY PoolAssumption DEF PoolAssumption, Init
    <2>7. ran \in [1 .. MaxJobs -> [Id -> 0 .. 1]]
      BY DEF Init
    <2>8. QED
      BY <2>1, <2>2, <2>3, <2>4, <2>5, <2>6, <2>7 DEF TypeOK
  <1>2. OwnerPhase /\ WorkerPhase /\ FuncPart
    BY Ids DEF Init, OwnerPhase, Working, WorkerPhase, EvenPhase, FuncPart
  <1>3. RanRight
    BY Ids DEF Init, RanRight, Due
  <1>4. QED
    BY <1>1, <1>2, <1>3 DEF IInv

(* A step that runs nothing and leaves the same threads through with the   *)
(* job keeps the record right.                                             *)
LEMMA RanSame ==
    ASSUME RanRight, UNCHANGED <<jobs, asked, ran>>,
           \A i \in Id : i < asked[jobs] =>
               ((Between' \/ (Working' /\ HasRun(i)')) <=> (Between \/ (Working /\ HasRun(i))))
    PROVE  RanRight'
  BY DEF RanRight, Due

(* Coming to the pool barrier.                                             *)
LEMMA ComeIInv ==
    ASSUME IInv, NEW i \in Id, Come(i)
    PROVE  IInv'
  <1> USE DEF IInv
  <1>1. /\ pc[i] \in {"start", "end", "exit"} /\ UNCHANGED <<state, pc, history, left>>
        /\ i \notin inside /\ inside' = inside \cup {i}
    BY BarrierCome DEF Come
  <1>2. TypeOK'
    BY <1>1 DEF TypeOK, state, history
  <1>3. OwnerPhase' /\ FuncPart'
    BY <1>1 DEF OwnerPhase, Working, FuncPart, state, history
  <1>4. WorkerPhase'
    <2> SUFFICES ASSUME NEW w \in Worker
                 PROVE  /\ pc[0] \in {"idle", "alone", "start", "exit"} => EvenPhase(w)'
                        /\ pc[0] \in {"func", "end"} => OddPhase(w)'
                        /\ pc[0] \in {"join", "gone"} => LastPhase(w)'
                        /\ w \in inside' => pc[w] \in {"start", "end"}
      BY <1>1 DEF WorkerPhase
    <2>1. EvenPhase(w) => EvenPhase(w)'
      BY <1>1 DEF EvenPhase
    <2>2. OddPhase(w) => OddPhase(w)'
      BY <1>1 DEF OddPhase
    <2>3. LastPhase(w) => LastPhase(w)'
      BY <1>1 DEF LastPhase
    <2>4. pc[w] # "exit"
      BY Ids DEF WorkerPhase, EvenPhase, OddPhase, LastPhase, TypeOK
    <2>5. QED
      BY <1>1, <2>1, <2>2, <2>3, <2>4 DEF WorkerPhase
  <1>5. RanRight'
    BY <1>1, RanSame DEF history, Between, Working, HasRun, JobMeeting
  <1>6. QED
    BY <1>2, <1>3, <1>4, <1>5

(* The owner leaves the first meeting of a job: every worker has come.     *)
LEMMA OwnerLeavesStart ==
    ASSUME IInv, LeaveStart(0)
    PROVE  IInv'
  <1> USE DEF IInv
  <1>1. /\ pc[0] = "start" /\ UNCHANGED <<state, history>>
        /\ 0 \in inside /\ inside' = inside \ {0}
        /\ \A u \in Id : left[u] > left[0] \/ (left[u] = left[0] /\ u \in inside)
        /\ left' = [left EXCEPT ![0] = @ + 1]
    BY Ids, BarrierLeave DEF LeaveStart
  <1>2. PICK l \in {"func", "end"} : pc' = [pc EXCEPT ![0] = l] /\ (l = "func" <=> TakesPart(0))
    BY DEF LeaveStart, LeavesLoop, Goto
  <1>3. /\ left[0] \in Nat /\ left'[0] = left[0] + 1 /\ pc'[0] = l
        /\ \A w \in Worker : left'[w] = left[w] /\ pc'[w] = pc[w]
                             /\ left[w] \in Nat /\ (w \in inside' <=> w \in inside)
    BY <1>1, <1>2, Ids DEF TypeOK
  <1>4. left[0] + 2 <= 2 * jobs /\ jobs \in 0 .. MaxJobs
    BY <1>1 DEF OwnerPhase, TypeOK
  <1>5. TypeOK'
    <2>1. left[0] + 1 \in 0 .. Meetings
      BY <1>3, <1>4, PoolAssumption DEF PoolAssumption, Meetings
    <2>2. left' \in [Id -> 0 .. Meetings]
      BY <1>1, <2>1 DEF TypeOK
    <2>3. pc' \in [Id -> PC]
      BY <1>2 DEF TypeOK
    <2>4. QED
      BY <1>1, <2>2, <2>3 DEF TypeOK, state, history
  <1>6. OwnerPhase'
    BY <1>1, <1>2, <1>3, <1>4 DEF OwnerPhase, Working, state, history
  <1>7. WorkerPhase'
    <2> SUFFICES ASSUME NEW w \in Worker
                 PROVE  OddPhase(w)' /\ (w \in inside' => pc'[w] \in {"start", "end"})
      BY <1>2, <1>3 DEF WorkerPhase
    <2>1. EvenPhase(w) /\ left[w] \in Nat /\ (left[w] > left[0] \/ (left[w] = left[0] /\ w \in inside))
      BY <1>1, <1>3, Ids DEF WorkerPhase
    <2>2. \/ pc[w] = "start" /\ left[w] = left[0] /\ w \in inside
          \/ pc[w] \in {"func", "end"} /\ left[w] = left[0] + 1
      BY <1>1, <1>3, <2>1 DEF EvenPhase
    <2>3. OddPhase(w)'
      BY <1>3, <2>2 DEF OddPhase
    <2>4. QED
      BY <1>3, <2>3 DEF WorkerPhase
  <1>8. FuncPart'
    BY <1>1, <1>2, <1>3, Ids DEF FuncPart, TakesPart, state
  <1>9. RanRight'
    <2>1. \A i \in Id : i < num_threads => (HasRun(i)' <=> HasRun(i))
      BY <1>1, <1>2, <1>3, Ids DEF HasRun, JobMeeting, TakesPart
    <2>2. Working /\ Working' /\ ~Between /\ ~Between' /\ num_threads = asked[jobs]
      BY <1>1, <1>2, <1>3 DEF Working, Between, OwnerPhase
    <2>3. QED
      BY <1>1, <2>1, <2>2, RanSame DEF history
  <1>10. QED
    BY <1>5, <1>6, <1>7, <1>8, <1>9

(* A worker leaves the first meeting of a job, to which the owner has come. *)
LEMMA WorkerLeavesStart ==
    ASSUME IInv, NEW i \in Worker, LeaveStart(i)
    PROVE  IInv'
  <1> USE DEF IInv
  <1>1. /\ pc[i] = "start" /\ UNCHANGED <<state, history>>
        /\ i \in inside /\ inside' = inside \ {i}
        /\ \A u \in Id : left[u] > left[i] \/ (left[u] = left[i] /\ u \in inside)
        /\ left' = [left EXCEPT ![i] = @ + 1]
    BY Ids, BarrierLeave DEF LeaveStart
  <1>2. PICK l \in {"func", "end", "gone"} :
            /\ pc' = [pc EXCEPT ![i] = l]
            /\ l = "gone" <=> done
            /\ l = "func" => TakesPart(i)
            /\ l = "end" => ~TakesPart(i)
    BY Ids DEF LeaveStart, LeavesLoop, Goto
  <1>3. /\ left[0] \in Nat /\ left'[0] = left[0] /\ pc'[0] = pc[0] /\ pc[0] \in PC
        /\ left[i] \in Nat /\ left'[i] = left[i] + 1 /\ pc'[i] = l
        /\ \A w \in Worker \ {i} : left'[w] = left[w] /\ pc'[w] = pc[w]
        /\ \A u \in Id \ {i} : u \in inside' <=> u \in inside
    BY <1>1, <1>2, Ids DEF TypeOK
  <1>4. \/ pc[0] \in {"start", "exit"} /\ 0 \in inside /\ left[i] = left[0]
        \/ pc[0] \in {"func", "end", "join", "gone"} /\ left[i] + 1 = left[0]
    <2>1. left[0] > left[i] \/ (left[0] = left[i] /\ 0 \in inside)
      BY <1>1, Ids
    <2>2. CASE pc[0] \in {"idle", "alone", "start", "exit"}
      BY <1>1, <1>3, <2>1, <2>2 DEF WorkerPhase, EvenPhase, OwnerPhase
    <2>3. CASE pc[0] \in {"func", "end"}
      BY <1>1, <1>3, <2>1, <2>3 DEF WorkerPhase, OddPhase
    <2>4. CASE pc[0] \in {"join", "gone"}
      BY <1>1, <1>3, <2>1, <2>4 DEF WorkerPhase, LastPhase
    <2>5. QED
      BY <1>3, <2>2, <2>3, <2>4
  <1>5. done <=> pc[0] \in {"exit", "join", "gone"}
    BY DEF OwnerPhase
  <1>6. TypeOK'
    <2>1. left[i] + 1 <= Meetings
      BY <1>3, <1>4, PoolAssumption DEF PoolAssumption, OwnerPhase, TypeOK, Meetings
    <2>2. left' \in [Id -> 0 .. Meetings]
      BY <1>1, <1>3, <2>1, Ids DEF TypeOK
    <2>3. pc' \in [Id -> PC]
      BY <1>2, Ids DEF TypeOK
    <2>4. QED
      BY <1>1, <2>2, <2>3 DEF TypeOK, state, history
  <1>7. OwnerPhase'
    BY <1>1, <1>3, Ids DEF OwnerPhase, Working, state, history
  <1>8. WorkerPhase'
    <2> SUFFICES ASSUME NEW w \in Worker
                 PROVE  /\ pc[0] \in {"idle", "alone", "start", "exit"} => EvenPhase(w)'
                        /\ pc[0] \in {"func", "end"} => OddPhase(w)'
                        /\ pc[0] \in {"join", "gone"} => LastPhase(w)'
                        /\ w \in inside' => pc'[w] \in {"start", "end"}
      BY <1>3 DEF WorkerPhase
    <2>1. CASE w = i
      BY <1>1, <1>2, <1>3, <1>4, <1>5, <2>1, Ids DEF EvenPhase, OddPhase, LastPhase
    <2>2. CASE w # i
      BY <1>3, <2>2, Ids DEF WorkerPhase, EvenPhase, OddPhase, LastPhase
    <2>3. QED
      BY <2>1, <2>2
  <1>9. FuncPart'
    BY <1>1, <1>2, <1>3, Ids DEF FuncPart, TakesPart, state
  <1>10. RanRight'
    <2>1. (Working' <=> Working) /\ (Between' <=> Between) /\ JobMeeting' = JobMeeting
      BY <1>3 DEF Working, Between, JobMeeting
    <2>2. CASE Working
      <3>1. num_threads = asked[jobs] /\ ~done /\ left[i] + 1 = JobMeeting
        BY <1>3, <1>4, <1>5, <2>2 DEF Working, OwnerPhase, JobMeeting
      <3>2. i < num_threads => (HasRun(i)' <=> HasRun(i))
        BY <1>1, <1>2, <1>3, <2>1, <3>1, Ids DEF HasRun, TakesPart
      <3>3. \A u \in Id \ {i} : HasRun(u)' <=> HasRun(u)
        BY <1>3, <2>1, Ids DEF HasRun
      <3>4. QED
        BY <1>1, <2>1, <3>1, <3>2, <3>3, RanSame DEF history
    <2>3. CASE ~Working
      BY <1>1, <2>1, <2>3, RanSame DEF history
    <2>4. QED
      BY <2>2, <2>3
  <1>11. QED
    BY <1>6, <1>7, <1>8, <1>9, <1>10

(* A call of func_: it is the job submitted last, and the thread has not   *)
(* run it yet.                                                             *)
LEMMA CallFuncIInv ==
    ASSUME IInv, NEW i \in Id, CallFunc(i)
    PROVE  IInv'
  <1> USE DEF IInv
  <1>1. /\ pc[i] = "func" /\ pc' = [pc EXCEPT ![i] = "end"]
        /\ ran' = [ran EXCEPT ![func][i] = @ + 1]
        /\ UNCHANGED <<state, left, inside, jobs, asked>>
    BY DEF CallFunc, Goto
  <1>2. /\ pc' \in [Id -> PC] /\ pc'[i] = "end" /\ \A u \in Id \ {i} : pc'[u] = pc[u]
        /\ \A u \in Id : left[u] \in Nat
    BY <1>1, Ids DEF TypeOK
  <1>3. Working /\ left[i] = JobMeeting /\ pc[0] \in {"start", "func", "end"}
    <2>1. CASE i = 0
      BY <1>1, <2>1 DEF Working, JobMeeting
    <2>2. CASE i \in Worker
      BY <1>1, <1>2, <2>2, Ids
         DEF TypeOK, Working, JobMeeting, WorkerPhase, EvenPhase, OddPhase, LastPhase
    <2>3. QED
      BY <2>1, <2>2, Ids
  <1>4. /\ func = jobs /\ num_threads = asked[jobs] /\ i < asked[jobs]
        /\ jobs \in 1 .. MaxJobs
    BY <1>1, <1>2, <1>3, Ids DEF OwnerPhase, FuncPart, TypeOK, Working
  <1>5. ~HasRun(i) /\ HasRun(i)' /\ Working' /\ JobMeeting' = JobMeeting
        /\ \A u \in Id \ {i} : HasRun(u)' <=> HasRun(u)
    <2>1. pc'[0] \in {"start", "func", "end"} /\ (pc'[0] = "start" <=> pc[0] = "start")
      BY <1>1, <1>2, <1>3, Ids
    <2>2. Working' /\ JobMeeting' = JobMeeting
      BY <1>1, <2>1 DEF Working, JobMeeting
    <2>3. JobMeeting \in Nat
      BY <1>2, Ids DEF JobMeeting
    <2>4. QED
      BY <1>1, <1>2, <1>3, <2>2, <2>3 DEF HasRun
  <1>6. ran[jobs][i] = 0
    BY <1>3, <1>4, <1>5 DEF RanRight, Due, Between, Working
  <1>7. /\ ran'[jobs][i] = 1
        /\ \A j \in 1 .. MaxJobs, u \in Id : j # jobs \/ u # i => ran'[j][u] = ran[j][u]
        /\ ran' \in [1 .. MaxJobs -> [Id -> 0 .. 1]]
    <2>1. ran' = [ran EXCEPT ![jobs] = [ran[jobs] EXCEPT ![i] = 1]]
      BY <1>1, <1>4, <1>6 DEF TypeOK
    <2>2. QED
      BY <1>4, <2>1 DEF TypeOK
  <1>8. TypeOK'
    BY <1>1, <1>2, <1>7 DEF TypeOK, state
  <1>9. OwnerPhase'
    BY <1>1, <1>2, <1>3, <1>5, Ids DEF OwnerPhase, Working, state
  <1>10. WorkerPhase'
    <2> SUFFICES ASSUME NEW w \in Worker
                 PROVE  /\ pc'[0] \in {"idle", "alone", "start", "exit"} => EvenPhase(w)'
                        /\ pc'[0] \in {"func", "end"} => OddPhase(w)'
                        /\ pc'[0] \in {"join", "gone"} => LastPhase(w)'
                        /\ w \in inside => pc'[w] \in {"start", "end"}
      BY <1>1 DEF WorkerPhase
    <2>1. CASE i = 0
      BY <1>1, <1>2, <2>1, Ids DEF WorkerPhase, OddPhase
    <2>2. CASE i = w
      BY <1>1, <1>2, <1>3, <2>2, Ids DEF WorkerPhase, EvenPhase, OddPhase
    <2>3. CASE i # 0 /\ i # w
      BY <1>1, <1>2, <1>3, <2>3, Ids DEF WorkerPhase, EvenPhase, OddPhase
    <2>4. QED
      BY <2>1, <2>2, <2>3
  <1>11. FuncPart'
    BY <1>1, <1>2 DEF FuncPart, state
  <1>12. RanRight'
    <2> SUFFICES ASSUME NEW j \in 1 .. MaxJobs, NEW u \in Id
                 PROVE  ran'[j][u] = (IF Due(j, u)' THEN 1 ELSE 0)
      BY DEF RanRight
    <2>1. CASE j = jobs /\ u = i
      BY <1>1, <1>4, <1>5, <1>7, <2>1 DEF Due
    <2>2. CASE j # jobs \/ u # i
      <3>1. Due(j, u)' <=> Due(j, u)
        BY <1>1, <1>3, <1>5, <2>2 DEF Due, Between, Working
      <3>2. QED
        BY <1>7, <2>2, <3>1 DEF RanRight
    <2>3. QED
      BY <2>1, <2>2
  <1>13. QED
    BY <1>8, <1>9, <1>10, <1>11, <1>12

(* run() returns: every thread is through with the job.                    *)
LEMMA OwnerLeavesEnd ==
    ASSUME IInv, LeaveEnd(0)
    PROVE  IInv'
  <1> USE DEF IInv
  <1>1. /\ pc[0] = "end" /\ UNCHANGED <<state, history>>
        /\ 0 \in inside /\ inside' = inside \ {0}
        /\ \A u \in Id : left[u] > left[0] \/ (left[u] = left[0] /\ u \in inside)
        /\ left' = [left EXCEPT ![0] = @ + 1]
        /\ pc' = [pc EXCEPT ![0] = "idle"]
    BY Ids, BarrierLeave DEF LeaveEnd, LeaveBarrier, Goto
  <1>2. /\ left[0] \in Nat /\ left'[0] = left[0] + 1 /\ pc'[0] = "idle"
        /\ \A w \in Worker : left'[w] = left[w] /\ pc'[w] = pc[w]
                             /\ left[w] \in Nat /\ (w \in inside' <=> w \in inside)
    BY <1>1, Ids DEF TypeOK
  <1>3. left[0] + 1 <= 2 * jobs /\ jobs \in 0 .. MaxJobs
    BY <1>1 DEF OwnerPhase, TypeOK
  <1>4. TypeOK'
    <2>1. left[0] + 1 \in 0 .. Meetings
      BY <1>2, <1>3, PoolAssumption DEF PoolAssumption, Meetings
    <2>2. left' \in [Id -> 0 .. Meetings] /\ pc' \in [Id -> PC]
      BY <1>1, <2>1 DEF TypeOK
    <2>3. QED
      BY <1>1, <2>2 DEF TypeOK, state, history
  <1>5. OwnerPhase'
    BY <1>1, <1>2, <1>3 DEF OwnerPhase, Working, state, history
  <1>6. \A w \in Worker :
            \/ pc[w] = "end" /\ left[w] = left[0] /\ w \in inside
            \/ pc[w] = "start" /\ left[w] = left[0] + 1
    <2> SUFFICES ASSUME NEW w \in Worker
                 PROVE  \/ pc[w] = "end" /\ left[w] = left[0] /\ w \in inside
                        \/ pc[w] = "start" /\ left[w] = left[0] + 1
      OBVIOUS
    <2>1. left[w] > left[0] \/ (left[w] = left[0] /\ w \in inside)
      BY <1>1, Ids
    <2>2. OddPhase(w) /\ (w \in inside => pc[w] \in {"start", "end"})
      BY <1>1 DEF WorkerPhase
    <2>3. QED
      BY <1>2, <2>1, <2>2 DEF OddPhase
  <1>7. WorkerPhase'
    BY <1>2, <1>6 DEF WorkerPhase, EvenPhase
  <1>8. FuncPart'
    BY <1>1, <1>2, Ids DEF FuncPart, state
  <1>9. RanRight'
    <2>1. \A i \in Id : HasRun(i)
      BY <1>1, <1>2, <1>6, Ids DEF HasRun, JobMeeting
    <2>2. Working /\ Between'
      BY <1>1, <1>2 DEF Working, Between
    <2>3. QED
      BY <1>1, <2>1, <2>2, RanSame DEF history
  <1>10. QED
    BY <1>4, <1>5, <1>7, <1>8, <1>9

(* A worker leaves the second meeting of a job and loops.                  *)
LEMMA WorkerLeavesEnd ==
    ASSUME IInv, NEW i \in Worker, LeaveEnd(i)
    PROVE  IInv'
  <1> USE DEF IInv
  <1>1. /\ pc[i] = "end" /\ UNCHANGED <<state, history>>
        /\ i \in inside /\ inside' = inside \ {i}
        /\ \A u \in Id : left[u] > left[i] \/ (left[u] = left[i] /\ u \in inside)
        /\ left' = [left EXCEPT ![i] = @ + 1]
        /\ pc' = [pc EXCEPT ![i] = "start"]
    BY Ids, BarrierLeave DEF LeaveEnd, LeaveBarrier, Goto
  <1>2. /\ left[0] \in Nat /\ left'[0] = left[0] /\ pc'[0] = pc[0] /\ pc[0] \in PC
        /\ left[i] \in Nat /\ left'[i] = left[i] + 1 /\ pc'[i] = "start"
        /\ \A w \in Worker \ {i} : left'[w] = left[w] /\ pc'[w] = pc[w]
        /\ \A u \in Id \ {i} : u \in inside' <=> u \in inside
    BY <1>1, Ids DEF TypeOK
  <1>3. \/ pc[0] \in {"idle", "alone", "start", "exit"} /\ left[i] + 1 = left[0]
        \/ pc[0] = "end" /\ 0 \in inside /\ left[i] = left[0]
    <2>1. left[0] > left[i] \/ (left[0] = left[i] /\ 0 \in inside)
      BY <1>1, Ids
    <2>2. CASE pc[0] \in {"idle", "alone", "start", "exit"}
      BY <1>1, <1>2, <2>1, <2>2 DEF WorkerPhase, EvenPhase
    <2>3. CASE pc[0] \in {"func", "end"}
      BY <1>1, <1>2, <2>1, <2>3 DEF WorkerPhase, OddPhase, OwnerPhase
    <2>4. CASE pc[0] \in {"join", "gone"}
      BY <1>1, <1>2, <2>1, <2>4 DEF WorkerPhase, LastPhase
    <2>5. QED
      BY <1>2, <2>2, <2>3, <2>4
  <1>4. TypeOK'
    <2>1. left[i] + 1 <= Meetings
      BY <1>2, <1>3, PoolAssumption DEF PoolAssumption, OwnerPhase, TypeOK, Meetings
    <2>2. left' \in [Id -> 0 .. Meetings] /\ pc' \in [Id -> PC]
      BY <1>1, <1>2, <2>1, Ids DEF TypeOK
    <2>3. QED
      BY <1>1, <2>2 DEF TypeOK, state, history
  <1>5. OwnerPhase'
    BY <1>1, <1>2, Ids DEF OwnerPhase, Working, state, history
  <1>6. WorkerPhase'
    <2> SUFFICES ASSUME NEW w \in Worker
                 PROVE  /\ pc[0] \in {"idle", "alone", "start", "exit"} => EvenPhase(w)'
                        /\ pc[0] \in {"func", "end"} => OddPhase(w)'
                        /\ pc[0] \in {"join", "gone"} => LastPhase(w)'
                        /\ w \in inside' => pc'[w] \in {"start", "end"}
      BY <1>2 DEF WorkerPhase
    <2>1. CASE w = i
      BY <1>1, <1>2, <1>3, <2>1, Ids DEF EvenPhase, OddPhase, LastPhase
    <2>2. CASE w # i
      BY <1>2, <2>2, Ids DEF WorkerPhase, EvenPhase, OddPhase, LastPhase
    <2>3. QED
      BY <2>1, <2>2
  <1>7. FuncPart'
    BY <1>1, <1>2, Ids DEF FuncPart, state
  <1>8. RanRight'
    <2>1. (Working' <=> Working) /\ (Between' <=> Between) /\ JobMeeting' = JobMeeting
      BY <1>2 DEF Working, Between, JobMeeting
    <2>2. CASE Working
      <3>1. HasRun(i)' <=> HasRun(i)
        BY <1>1, <1>2, <1>3, <2>1, <2>2 DEF HasRun, JobMeeting, Working
      <3>2. \A u \in Id \ {i} : HasRun(u)' <=> HasRun(u)
        BY <1>2, <2>1, Ids DEF HasRun
      <3>3. QED
        BY <1>1, <2>1, <3>1, <3>2, RanSame DEF history
    <2>3. CASE ~Working
      BY <1>1, <2>1, <2>3, RanSame DEF history
    <2>4. QED
      BY <2>2, <2>3
  <1>9. QED
    BY <1>4, <1>5, <1>6, <1>7, <1>8

(* The pool has been told to end: every worker is leaving or has left.     *)
LEMMA OwnerLeavesExit ==
    ASSUME IInv, LeaveExit
    PROVE  IInv'
  <1> USE DEF IInv
  <1>1. /\ pc[0] = "exit" /\ UNCHANGED <<state, history>>
        /\ 0 \in inside /\ inside' = inside \ {0}
        /\ \A u \in Id : left[u] > left[0] \/ (left[u] = left[0] /\ u \in inside)
        /\ left' = [left EXCEPT ![0] = @ + 1]
        /\ pc' = [pc EXCEPT ![0] = "join"]
    BY Ids, BarrierLeave DEF LeaveExit, Goto
  <1>2. /\ left[0] \in Nat /\ left'[0] = left[0] + 1 /\ pc'[0] = "join"
        /\ \A w \in Worker : left'[w] = left[w] /\ pc'[w] = pc[w]
                             /\ left[w] \in Nat /\ (w \in inside' <=> w \in inside)
    BY <1>1, Ids DEF TypeOK
  <1>3. left[0] <= 2 * jobs /\ jobs \in 0 .. MaxJobs
    BY <1>1 DEF OwnerPhase, TypeOK
  <1>4. TypeOK'
    <2>1. left[0] + 1 \in 0 .. Meetings
      BY <1>2, <1>3, PoolAssumption DEF PoolAssumption, Meetings
    <2>2. left' \in [Id -> 0 .. Meetings] /\ pc' \in [Id -> PC]
      BY <1>1, <2>1 DEF TypeOK
    <2>3. QED
      BY <1>1, <2>2 DEF TypeOK, state, history
  <1>5. OwnerPhase'
    BY <1>1, <1>2, <1>3 DEF OwnerPhase, Working, state, history
  <1>6. WorkerPhase'
    <2> SUFFICES ASSUME NEW w \in Worker
                 PROVE  LastPhase(w)' /\ (w \in inside' => pc'[w] \in {"start", "end"})
      BY <1>2 DEF WorkerPhase
    <2>1. left[w] > left[0] \/ (left[w] = left[0] /\ w \in inside)
      BY <1>1, Ids
    <2>2. EvenPhase(w) /\ (w \in inside => pc[w] \in {"start", "end"})
      BY <1>1 DEF WorkerPhase
    <2>3. QED
      BY <1>1, <1>2, <2>1, <2>2 DEF EvenPhase, LastPhase
  <1>7. FuncPart'
    BY <1>1, <1>2, Ids DEF FuncPart, state
  <1>8. RanRight'
    BY <1>1, <1>2, RanSame DEF Between, Working, history
  <1>9. QED
    BY <1>4, <1>5, <1>6, <1>7, <1>8

(* From here one lemma for each action of the owner: it keeps the          *)
(* invariant.                                                              *)
LEMMA JoinIInv ==
    ASSUME IInv, Join
    PROVE  IInv'
  <1> USE DEF IInv
  <1>1. /\ pc[0] = "join" /\ UNCHANGED <<state, left, inside, history>>
        /\ pc' = [pc EXCEPT ![0] = "gone"]
    BY DEF Join, Goto
  <1>2. pc' \in [Id -> PC] /\ pc'[0] = "gone" /\ \A w \in Worker : pc'[w] = pc[w]
    BY <1>1, Ids DEF TypeOK
  <1>3. TypeOK'
    BY <1>1, <1>2 DEF TypeOK, state, history
  <1>4. OwnerPhase'
    BY <1>1, <1>2 DEF OwnerPhase, Working, state, history
  <1>5. WorkerPhase'
    BY <1>1, <1>2 DEF WorkerPhase, LastPhase
  <1>6. FuncPart'
    BY <1>1, <1>2, Ids DEF FuncPart, state
  <1>7. RanRight'
    BY <1>1, <1>2, RanSame DEF Between, Working, history
  <1>8. QED
    BY <1>3, <1>4, <1>5, <1>6, <1>7

(* Between two jobs no worker is in func_, and every worker is behind the  *)
(* first meeting of the next job.                                          *)
LEMMA AllBehind ==
    ASSUME IInv, pc[0] = "idle"
    PROVE  /\ 0 \notin inside
           /\ \A w \in Worker : HasFinished(w)
           /\ \A i \in Id : pc[i] # "func" /\ left[i] \in Nat /\ left[i] <= left[0]
  <1>1. 0 \notin inside
    BY DEF IInv, OwnerPhase
  <1>2. \A i \in Id : left[i] \in Nat
    BY DEF IInv, TypeOK
  <1>3. \A w \in Worker : HasFinished(w) /\ pc[w] # "func" /\ left[w] <= left[0]
    BY <1>1, <1>2, Ids DEF IInv, WorkerPhase, EvenPhase, HasFinished
  <1>4. QED
    BY <1>1, <1>2, <1>3, Ids

(* The owner hands a job to the pool, or runs it alone.                    *)
LEMMA NewJobIInv ==
    ASSUME IInv, NEW k \in 1 .. N, NewJob(k), NEW l \in {"start", "alone"}, Goto(0, l),
           UNCHANGED <<done, left, inside, ran>>,
           \/ l = "start" /\ func' = jobs + 1 /\ num_threads' = k /\ sync_n' = k
           \/ l = "alone" /\ k = 1 /\ UNCHANGED <<func, num_threads, sync_n>>
    PROVE  IInv'
  <1> USE DEF IInv
  <1>1. /\ pc[0] = "idle" /\ jobs < MaxJobs /\ jobs' = jobs + 1
        /\ asked' = [asked EXCEPT ![jobs + 1] = k]
        /\ pc' = [pc EXCEPT ![0] = l]
    BY DEF NewJob, Goto
  <1>2. /\ jobs \in Nat /\ jobs + 1 \in 1 .. MaxJobs /\ MaxJobs \in Nat
        /\ asked'[jobs + 1] = k
        /\ \A j \in 1 .. MaxJobs : j # jobs + 1 => asked'[j] = asked[j]
        /\ asked' \in [1 .. MaxJobs -> 0 .. N]
    BY <1>1, PoolAssumption DEF PoolAssumption, TypeOK
  <1>3. pc' \in [Id -> PC] /\ pc'[0] = l /\ \A w \in Worker : pc'[w] = pc[w]
    BY <1>1, Ids DEF TypeOK
  <1>4. /\ 0 \notin inside
        /\ \A i \in Id : pc[i] # "func" /\ left[i] \in Nat /\ left[i] <= left[0]
    BY <1>1, AllBehind
  <1>5. TypeOK'
    <2>1. k \in Id \cup {N}
      BY PoolAssumption DEF PoolAssumption, Id
    <2>2. num_threads' \in Id \cup {N} /\ sync_n' \in Id \cup {N}
      BY <2>1 DEF TypeOK
    <2>3. func' \in 0 .. MaxJobs /\ jobs' \in 0 .. MaxJobs
      BY <1>1, <1>2 DEF TypeOK
    <2>4. QED
      BY <1>2, <1>3, <2>2, <2>3 DEF TypeOK
  <1>6. OwnerPhase'
    <2>1. left[0] <= 2 * jobs /\ ~done /\ left[0] \in Nat
      BY <1>1, <1>4, Ids DEF OwnerPhase
    <2>2. left[0] + 2 <= 2 * jobs'
      BY <1>1, <1>2, <2>1
    <2>3. QED
      BY <1>1, <1>2, <1>3, <1>4, <2>1, <2>2 DEF OwnerPhase, Working
  <1>7. WorkerPhase'
    BY <1>1, <1>3, <1>4 DEF WorkerPhase, EvenPhase
  <1>8. FuncPart'
    BY <1>3, <1>4, Ids DEF FuncPart
  <1>9. RanRight'
    <2> SUFFICES ASSUME NEW j \in 1 .. MaxJobs, NEW i \in Id
                 PROVE  Due(j, i)' <=> Due(j, i)
      BY DEF RanRight
    <2>1. Between /\ ~Between'
      BY <1>1, <1>3 DEF Between
    <2>2. ~(Working' /\ HasRun(i)')
      BY <1>3, <1>4, Ids DEF Working, HasRun, JobMeeting
    <2>3. QED
      BY <1>1, <1>2, <2>1, <2>2 DEF Due
  <1>10. QED
    BY <1>5, <1>6, <1>7, <1>8, <1>9

LEMMA RunIInv ==
    ASSUME IInv, NEW k \in Id, Run(k + 1)
    PROVE  IInv'
  <1>1. k + 1 \in 1 .. N
    BY PoolAssumption DEF PoolAssumption, Id
  <1>2. QED
    BY <1>1, NewJobIInv DEF Run, SetThreads

LEMMA RunAloneIInv ==
    ASSUME IInv, RunAlone
    PROVE  IInv'
  <1>1. 1 \in 1 .. N
    BY PoolAssumption DEF PoolAssumption
  <1>2. QED
    BY <1>1, NewJobIInv DEF RunAlone, state

LEMMA FinishAloneIInv ==
    ASSUME IInv, FinishAlone
    PROVE  IInv'
  <1> USE DEF IInv
  <1>1. /\ pc[0] = "alone" /\ pc' = [pc EXCEPT ![0] = "idle"]
        /\ ran' = [ran EXCEPT ![jobs][0] = @ + 1]
        /\ UNCHANGED <<state, left, inside, jobs, asked>>
    BY DEF FinishAlone, Goto
  <1>2. pc' \in [Id -> PC] /\ pc'[0] = "idle" /\ \A w \in Worker : pc'[w] = pc[w]
    BY <1>1, Ids DEF TypeOK
  <1>3. left[0] \in Nat /\ left[0] + 2 <= 2 * jobs /\ jobs \in 1 .. MaxJobs
    BY <1>1, Ids DEF OwnerPhase, TypeOK
  <1>4. ran[jobs][0] = 0 /\ \A i \in Id : i < asked[jobs] <=> i = 0
    BY <1>1, <1>3, Ids DEF RanRight, Due, Between, Working, OwnerPhase
  <1>5. /\ ran'[jobs][0] = 1
        /\ \A j \in 1 .. MaxJobs, i \in Id : j # jobs \/ i # 0 => ran'[j][i] = ran[j][i]
        /\ ran' \in [1 .. MaxJobs -> [Id -> 0 .. 1]]
    <2>1. ran' = [ran EXCEPT ![jobs] = [ran[jobs] EXCEPT ![0] = 1]]
      BY <1>1, <1>3, <1>4, Ids DEF TypeOK
    <2>2. QED
      BY <1>3, <2>1, Ids DEF TypeOK
  <1>6. TypeOK'
    BY <1>1, <1>2, <1>5 DEF TypeOK, state
  <1>7. OwnerPhase'
    BY <1>1, <1>2, <1>3 DEF OwnerPhase, Working, state
  <1>8. WorkerPhase'
    BY <1>1, <1>2 DEF WorkerPhase, EvenPhase
  <1>9. FuncPart'
    BY <1>1, <1>2, Ids DEF FuncPart, state
  <1>10. RanRight'
    <2> SUFFICES ASSUME NEW j \in 1 .. MaxJobs, NEW i \in Id
                 PROVE  ran'[j][i] = (IF Due(j, i)' THEN 1 ELSE 0)
      BY DEF RanRight
    <2>1. ~Between /\ ~Working /\ Between'
      BY <1>1, <1>2 DEF Between, Working
    <2>2. CASE j = jobs /\ i = 0
      BY <1>1, <1>4, <1>5, <2>1, <2>2 DEF Due
    <2>3. CASE j # jobs \/ i # 0
      <3>1. Due(j, i)' <=> Due(j, i)
        BY <1>1, <1>4, <2>1, <2>3 DEF Due
      <3>2. QED
        BY <1>5, <2>3, <3>1 DEF RanRight
    <2>4. QED
      BY <2>2, <2>3
  <1>11. QED
    BY <1>6, <1>7, <1>8, <1>9, <1>10

LEMMA DestroyIInv ==
    ASSUME IInv, Destroy
    PROVE  IInv'
  <1> USE DEF IInv
  <1>1. /\ pc[0] = "idle" /\ pc' = [pc EXCEPT ![0] = "exit"] /\ done' = TRUE
        /\ UNCHANGED <<func, num_threads, sync_n, left, inside, history>>
    BY DEF Destroy, SetDone, Goto
  <1>2. pc' \in [Id -> PC] /\ pc'[0] = "exit" /\ \A w \in Worker : pc'[w] = pc[w]
    BY <1>1, Ids DEF TypeOK
  <1>3. TypeOK'
    <2>1. done' \in BOOLEAN
      BY <1>1
    <2>2. QED
      BY <1>1, <1>2, <2>1 DEF TypeOK, history
  <1>4. OwnerPhase'
    BY <1>1, <1>2 DEF OwnerPhase, Working, history
  <1>5. WorkerPhase'
    BY <1>1, <1>2, AllBehind DEF WorkerPhase, EvenPhase
  <1>6. FuncPart'
    BY <1>1, <1>2, Ids DEF FuncPart
  <1>7. RanRight'
    BY <1>1, <1>2, RanSame DEF Between, Working, history
  <1>8. QED
    BY <1>3, <1>4, <1>5, <1>6, <1>7

(* Every step keeps the invariant.                                         *)
LEMMA NextIInv == IInv /\ [Next]_vars => IInv'
  <1> SUFFICES ASSUME IInv, [Next]_vars PROVE IInv'
    OBVIOUS
  <1>1. CASE \E i \in Id : Come(i)
    BY <1>1, ComeIInv
  <1>2. CASE \E i \in Id : LeaveStart(i)
    BY <1>2, Ids, OwnerLeavesStart, WorkerLeavesStart
  <1>3. CASE \E i \in Id : CallFunc(i)
    BY <1>3, CallFuncIInv
  <1>4. CASE \E i \in Id : LeaveEnd(i)
    BY <1>4, Ids, OwnerLeavesEnd, WorkerLeavesEnd
  <1>5. CASE \E k \in Id : Run(k + 1)
    BY <1>5, RunIInv
  <1>6. CASE RunAlone \/ FinishAlone \/ Destroy \/ LeaveExit \/ Join
    BY <1>6, RunAloneIInv, FinishAloneIInv, DestroyIInv, OwnerLeavesExit, JoinIInv
  <1>7. CASE Terminated \/ UNCHANGED vars
    <2>1. UNCHANGED <<func, num_threads, sync_n, done, pc, left, inside, jobs, asked, ran>>
      BY <1>7 DEF Terminated, vars
    <2>2. TypeOK' /\ OwnerPhase' /\ FuncPart'
      BY <2>1 DEF IInv, TypeOK, OwnerPhase, Working, FuncPart
    <2>3. WorkerPhase'
      BY <2>1 DEF IInv, WorkerPhase, EvenPhase, OddPhase, LastPhase
    <2>4. RanRight'
      BY <2>1 DEF IInv, RanRight, Due, Between, Working, HasRun, JobMeeting
    <2>5. QED
      BY <2>2, <2>3, <2>4 DEF IInv
  <1>8. QED
    BY <1>1, <1>2, <1>3, <1>4, <1>5, <1>6, <1>7 DEF Next, Step

LEMMA Invariance == Spec => []IInv
  <1>1. QED
    BY InitIInv, NextIInv, PTL DEF Spec

-----------------------------------------------------------------------------
(* The variables of the pool keep their types: no thread meets more often  *)
(* than the jobs explain, and no job is run twice on a thread.             *)
THEOREM TypeCorrect == Spec => []TypeOK
  <1>1. IInv => TypeOK
    BY DEF IInv
  <1>2. QED
    BY <1>1, Invariance, PTL

(* Whenever operator() has returned, every job so far has run once on each *)
(* of the threads asked for and on no other (StdThreadPool::operator()).   *)
THEOREM JobsRunOnce == Spec => []JobsComplete
  <1>1. IInv => JobsComplete
    <2> SUFFICES ASSUME IInv, pc[0] \in {"idle", "exit", "join", "gone"},
                        NEW j \in 1 .. jobs, NEW i \in Id
                 PROVE  ran[j][i] = IF i < asked[j] THEN 1 ELSE 0
      BY DEF JobsComplete
    <2>1. Between /\ j \in 1 .. MaxJobs /\ (j < jobs \/ j = jobs)
      BY PoolAssumption DEF PoolAssumption, Between, IInv, TypeOK
    <2>2. QED
      BY <2>1 DEF IInv, RanRight, Due
  <1>2. QED
    BY <1>1, Invariance, PTL

(* Who is in func_ runs the job submitted last and is one of the threads   *)
(* that sync_ was set for by setNumThreads.                                *)
THEOREM TeamIsRight == Spec => []TeamMatches
  <1>1. IInv => TeamMatches
    <2> SUFFICES ASSUME IInv, NEW i \in Id, pc[i] = "func"
                 PROVE  func = jobs /\ sync_n = asked[jobs] /\ i < sync_n
      BY DEF TeamMatches
    <2>1. i < num_threads
      BY DEF IInv, FuncPart
    <2>2. Working
      BY Ids DEF IInv, TypeOK, Working, WorkerPhase, EvenPhase, OddPhase, LastPhase
    <2>3. QED
      BY <2>1, <2>2 DEF IInv, OwnerPhase
  <1>2. QED
    BY <1>1, Invariance, PTL

(* func_, num_threads_, done_ and the counts of sync_ are plain variables: *)
(* the owner writes them only while every worker has finished the previous *)
(* job and none can be past the first barrier of the next.                 *)
THEOREM WritesAreAlone == Spec => WritesAlone
  <1>1. IInv /\ [Next]_vars
            => [state' # state => 0 \notin inside /\ \A i \in Worker : HasFinished(i)]_vars
    <2> SUFFICES ASSUME IInv, [Next]_vars, state' # state
                 PROVE  0 \notin inside /\ \A i \in Worker : HasFinished(i)
      OBVIOUS
    <2>1. (\E k \in Id : Run(k + 1)) \/ Destroy
      BY DEF Next, Step, Come, LeaveStart, CallFunc, LeaveEnd, RunAlone, FinishAlone,
             LeaveExit, Join, Terminated, vars, state
    <2>2. pc[0] = "idle"
      BY <2>1 DEF Run, NewJob, Destroy
    <2>3. QED
      BY <2>2, AllBehind
  <1>2. QED
    BY <1>1, Invariance, PTL DEF Spec, WritesAlone
=============================================================================
