-------------------------- MODULE SchedulerProofs --------------------------
(***************************************************************************)
(* Theorems about Scheduler, for any finite set of threads, any forest of  *)
(* tasks and any number of sorts.                                          *)
(***************************************************************************)
EXTENDS Scheduler, FiniteSetTheorems, TLAPS

(* The queue operations stay within sequences of tasks, and PopBack of a   *)
(* one-element queue leaves it empty.                                      *)
LEMMA QueueTypes ==
    ASSUME NEW S, NEW q \in Seq(S), q # <<>>
    PROVE  /\ PopBack(q) \in Seq(S)
           /\ q[Len(q)] \in S
           /\ PopFront(q) \in Seq(S)
           /\ Head(q) \in S
  <1>1. Len(q) \in Nat /\ Len(q) > 0
    OBVIOUS
  <1>2. PopBack(q) \in Seq(S)
    BY <1>1 DEF PopBack
  <1>3. QED
    BY <1>1, <1>2 DEF PopFront

(* The variables keep their types: in particular the counter never drops   *)
(* below zero, because only a counted thread subtracts itself.             *)
LEMMA CountedFinite ==
    ThreadAssumption => IsFiniteSet({t \in Thread : pc[t] \in Counted})
  BY FS_Subset DEF ThreadAssumption

(* A thread that goes to a label moves alone.                              *)
LEMMA PcAfterGoto ==
    ASSUME TypeOK, NEW t \in Thread, NEW l \in PC, Goto(t, l)
    PROVE  /\ pc' \in [Thread -> PC]
           /\ pc'[t] = l
           /\ \A u \in Thread \ {t} : pc'[u] = pc[u]
  BY DEF TypeOK, Goto

(* Sending one thread to a label changes the set of counted threads by at  *)
(* most that thread.                                                       *)
LEMMA CountAfterGoto ==
    ASSUME TypeOK, NEW t \in Thread, NEW l \in PC, Goto(t, l)
    PROVE  LET C == {u \in Thread : pc[u] \in Counted}
               D == {u \in Thread : pc'[u] \in Counted}
           IN  /\ l \in Counted /\ pc[t] \in Counted => Cardinality(D) = Cardinality(C)
               /\ l \notin Counted /\ pc[t] \notin Counted => Cardinality(D) = Cardinality(C)
               /\ l \in Counted /\ pc[t] \notin Counted => Cardinality(D) = Cardinality(C) + 1
               /\ l \notin Counted /\ pc[t] \in Counted => Cardinality(D) = Cardinality(C) - 1
  <1> DEFINE C == {u \in Thread : pc[u] \in Counted}
             D == {u \in Thread : pc'[u] \in Counted}
  <1>1. /\ pc' \in [Thread -> PC] /\ pc'[t] = l
        /\ \A u \in Thread \ {t} : pc'[u] = pc[u]
    BY PcAfterGoto
  <1>2. IsFiniteSet(C) /\ Cardinality(C) \in Nat
    BY CountedFinite, ThreadAssumption, FS_CardinalityType
  <1>3. CASE (l \in Counted) <=> (pc[t] \in Counted)
    <2>1. C = D
      BY <1>1, <1>3
    <2>2. QED
      BY <1>1, <1>3, <2>1
  <1>4. CASE l \in Counted /\ pc[t] \notin Counted
    <2>1. D = C \cup {t} /\ t \notin C
      BY <1>1, <1>4
    <2>2. Cardinality(D) = Cardinality(C) + 1
      BY <1>2, <2>1, FS_AddElement
    <2>3. QED
      BY <1>1, <1>4, <2>2
  <1>5. CASE l \notin Counted /\ pc[t] \in Counted
    <2>1. D = C \ {t} /\ t \in C
      BY <1>1, <1>5
    <2>2. Cardinality(D) = Cardinality(C) - 1
      <3> HIDE DEF C, D
      <3>1. QED
        BY <1>2, <2>1, FS_RemoveElement
    <2>3. QED
      BY <1>1, <1>5, <2>2
  <1>6. QED
    BY <1>3, <1>4, <1>5

-----------------------------------------------------------------------------
(* The inductive invariant: NoWorkAtExit needs to know that a counted      *)
(* thread has nothing (DryIsDry), that the counter counts (IdleCount), and *)
(* that a task in the global queue keeps some thread from being counted    *)
(* (GlobalWatched).                                                        *)
Quiet ==
    (\E t \in Thread : pc[t] = "done") =>
        /\ \A t \in Thread : pc[t] \in Dry
        /\ glob = <<>>

(* A thread about to give a task away has another one left.                *)
OfferHasTwo ==
    \A t \in Thread : pc[t] \in {"offerProbe", "offerPush"} => Len(local[t]) > 1

IInv == TypeOK /\ IdleCount /\ DryIsDry /\ GlobalWatched /\ OfferHasTwo /\ Quiet

USE DEF Holding, Counted, Dry, PC

LEMMA InitIInv == Init => IInv
  <1> SUFFICES ASSUME Init PROVE IInv
    OBVIOUS
  <1>1. TypeOK
    BY DEF Init, TypeOK
  <1>2. IdleCount
    <2>1. {t \in Thread : pc[t] \in Counted} = {}
      BY DEF Init
    <2>2. QED
      BY <2>1, FS_EmptySet DEF Init, IdleCount
  <1>3. DryIsDry /\ GlobalWatched /\ OfferHasTwo /\ Quiet
    BY DEF Init, DryIsDry, GlobalWatched, OfferHasTwo, Quiet
  <1>4. QED
    BY <1>1, <1>2, <1>3 DEF IInv

(* When every thread is counted nobody watches the global queue, so it is  *)
(* empty: the thread that reads numIdle = NumThreads may leave.            *)
LEMMA AllCountedQuiet ==
    ASSUME IInv, AllIdle
    PROVE  glob = <<>> /\ \A t \in Thread : pc[t] \in Counted
  <1> DEFINE C == {t \in Thread : pc[t] \in Counted}
  <1>1. Cardinality(C) = Cardinality(Thread)
    BY ThreadAssumption DEF IInv, IdleCount, AllIdle, ThreadAssumption
  <1>2. C = Thread
    BY <1>1, FS_Subset, ThreadAssumption DEF ThreadAssumption
  <1>3. \A t \in Thread : pc[t] \in Counted
    BY <1>2
  <1>4. QED
    BY <1>3 DEF IInv, GlobalWatched

(* Each step of a thread keeps the invariant.                              *)
LEMMA StepIInv ==
    ASSUME IInv, NEW t \in Thread, Step(t)
    PROVE  IInv'
  <1> USE DEF IInv
  <1>1. CASE PopLocal(t)
    <2>1. local[t] \in Seq(Job) /\ local[t] # <<>>
      BY <1>1 DEF TypeOK, PopLocal
    <2>2. PopBack(local[t]) \in Seq(Job) /\ local[t][Len(local[t])] \in Job
      BY <2>1, QueueTypes
    <2>3. Goto(t, "offer") /\ pc[t] = "getJob"
      BY <1>1 DEF PopLocal, Take
    <2>4. TypeOK'
      BY <1>1, <2>2, <2>3, PcAfterGoto DEF TypeOK, PopLocal, Take
    <2>5. IdleCount'
      BY <1>1, <2>3, CountAfterGoto DEF IdleCount, PopLocal
    <2>6. DryIsDry' /\ GlobalWatched' /\ OfferHasTwo' /\ Quiet'
      BY <1>1, <2>3, PcAfterGoto DEF DryIsDry, GlobalWatched, OfferHasTwo, Quiet, PopLocal, TypeOK
    <2>7. QED
      BY <2>4, <2>5, <2>6
  <1>2. CASE TryPop(t)
    <2>1. CASE CanPop(t)
      <3>1. glob \in Seq(Job) /\ glob # <<>>
        BY <2>1 DEF TypeOK, CanPop
      <3>2. Tail(glob) \in Seq(Job) /\ Head(glob) \in Job
        BY <3>1
      <3>3. Goto(t, "offer") /\ pc[t] \in {"getJob", "retry"}
        BY <1>2, <2>1 DEF TryPop, Take
      <3>4. TypeOK'
        BY <1>2, <2>1, <3>2, <3>3, PcAfterGoto DEF TypeOK, TryPop, Take
      <3>5. IdleCount'
        BY <1>2, <3>3, CountAfterGoto DEF IdleCount, TryPop
      <3>6. DryIsDry' /\ GlobalWatched' /\ OfferHasTwo' /\ Quiet'
        BY <1>2, <3>1, <3>3, PcAfterGoto DEF DryIsDry, GlobalWatched, OfferHasTwo, Quiet, TryPop, TypeOK
      <3>7. QED
        BY <3>4, <3>5, <3>6
    <2>2. CASE ~CanPop(t)
      <3>1. glob = <<>> /\ glob' = glob /\ task' = task
        BY <1>2, <2>2 DEF TryPop, CanPop
      <3>2. Goto(t, "signal") /\ pc[t] \in {"getJob", "retry"} /\ local[t] = <<>>
        BY <1>2, <2>2 DEF TryPop, DryIsDry
      <3>3. TypeOK'
        BY <1>2, <3>1, <3>2, PcAfterGoto DEF TypeOK, TryPop
      <3>4. IdleCount'
        BY <1>2, <3>2, CountAfterGoto DEF IdleCount, TryPop
      <3>5. DryIsDry' /\ GlobalWatched' /\ OfferHasTwo' /\ Quiet'
        BY <1>2, <3>1, <3>2, PcAfterGoto DEF DryIsDry, GlobalWatched, OfferHasTwo, Quiet, TryPop, TypeOK
      <3>6. QED
        BY <3>3, <3>4, <3>5
    <2>3. QED
      BY <2>1, <2>2
  <1>3. CASE SignalIdle(t)
    <2>1. Goto(t, "wait") /\ pc[t] = "signal"
      BY <1>3 DEF SignalIdle
    <2>2. TypeOK'
      BY <1>3, <2>1, PcAfterGoto DEF TypeOK, SignalIdle, IncIdle
    <2>3. IdleCount'
      BY <1>3, <2>1, CountAfterGoto DEF IdleCount, SignalIdle, IncIdle
    <2>4. DryIsDry' /\ GlobalWatched' /\ OfferHasTwo' /\ Quiet'
      BY <1>3, <2>1, PcAfterGoto DEF DryIsDry, GlobalWatched, OfferHasTwo, Quiet, SignalIdle, TypeOK
    <2>5. QED
      BY <2>2, <2>3, <2>4
  <1>4. CASE LoadIdle(t)
    <2>1. pc[t] = "wait"
      BY <1>4 DEF LoadIdle
    <2>2. CASE AllIdle
      <3>1. Goto(t, "done")
        BY <1>4, <2>2 DEF LoadIdle
      <3>2. glob = <<>> /\ \A u \in Thread : pc[u] \in Counted
        BY <2>2, AllCountedQuiet
      <3>3. TypeOK' /\ IdleCount'
        BY <1>4, <2>1, <3>1, PcAfterGoto, CountAfterGoto DEF TypeOK, IdleCount, LoadIdle
      <3>4. DryIsDry' /\ GlobalWatched' /\ OfferHasTwo' /\ Quiet'
        BY <1>4, <2>1, <3>1, <3>2, PcAfterGoto
           DEF DryIsDry, GlobalWatched, OfferHasTwo, Quiet, LoadIdle, TypeOK
      <3>5. QED
        BY <3>3, <3>4
    <2>3. CASE ~AllIdle
      <3>1. Goto(t, "probe")
        BY <1>4, <2>3 DEF LoadIdle
      <3>2. TypeOK' /\ IdleCount'
        BY <1>4, <2>1, <3>1, PcAfterGoto, CountAfterGoto DEF TypeOK, IdleCount, LoadIdle
      <3>3. DryIsDry' /\ GlobalWatched' /\ OfferHasTwo' /\ Quiet'
        BY <1>4, <2>1, <3>1, PcAfterGoto
           DEF DryIsDry, GlobalWatched, OfferHasTwo, Quiet, LoadIdle, TypeOK
      <3>4. QED
        BY <3>2, <3>3
    <2>4. QED
      BY <2>2, <2>3
  <1>5. CASE ProbeGlobal(t)
    <2>1. PICK l \in {"wait", "unsignal"} : Goto(t, l)
      BY <1>5 DEF ProbeGlobal
    <2>2. pc[t] = "probe"
      BY <1>5 DEF ProbeGlobal
    <2>3. TypeOK' /\ IdleCount'
      BY <1>5, <2>1, <2>2, PcAfterGoto, CountAfterGoto DEF TypeOK, IdleCount, ProbeGlobal
    <2>4. DryIsDry' /\ GlobalWatched' /\ OfferHasTwo' /\ Quiet'
      BY <1>5, <2>1, <2>2, PcAfterGoto
         DEF DryIsDry, GlobalWatched, OfferHasTwo, Quiet, ProbeGlobal, TypeOK
    <2>5. QED
      BY <2>3, <2>4
  <1>6. CASE UnsignalIdle(t)
    <2>1. Goto(t, "retry") /\ pc[t] = "unsignal"
      BY <1>6 DEF UnsignalIdle
    <2>2. TypeOK'
      <3>1. numIdle > 0
        <4>1. IsFiniteSet({u \in Thread : pc[u] \in Counted})
          BY CountedFinite, ThreadAssumption
        <4>2. t \in {u \in Thread : pc[u] \in Counted}
          BY <2>1
        <4>3. Cardinality({u \in Thread : pc[u] \in Counted}) \in Nat \ {0}
          BY <4>1, <4>2, FS_EmptySet, FS_CardinalityType
        <4>4. QED
          BY <4>3 DEF IdleCount
      <3>2. numIdle' \in Nat
        BY <1>6, <3>1 DEF TypeOK, UnsignalIdle, DecIdle
      <3>3. QED
        BY <1>6, <2>1, <3>2, PcAfterGoto DEF TypeOK, UnsignalIdle
    <2>3. IdleCount'
      BY <1>6, <2>1, CountAfterGoto DEF IdleCount, UnsignalIdle, DecIdle
    <2>4. DryIsDry' /\ GlobalWatched' /\ OfferHasTwo' /\ Quiet'
      BY <1>6, <2>1, PcAfterGoto DEF DryIsDry, GlobalWatched, OfferHasTwo, Quiet, UnsignalIdle, TypeOK
    <2>5. QED
      BY <2>2, <2>3, <2>4
  <1>7. CASE OfferLoadIdle(t) \/ OfferProbe(t)
    <2>1. PICK l \in {"offerProbe", "offerPush", "process"} :
              Goto(t, l) /\ (l # "process" => Len(local[t]) > 1)
      BY <1>7 DEF OfferLoadIdle, OfferProbe, OfferHasTwo
    <2>2. pc[t] \in {"offer", "offerProbe"}
      BY <1>7 DEF OfferLoadIdle, OfferProbe
    <2>3. UNCHANGED <<local, glob, numIdle, task, finished, sorts>>
      BY <1>7 DEF OfferLoadIdle, OfferProbe
    <2>4. TypeOK' /\ IdleCount'
      BY <2>1, <2>2, <2>3, PcAfterGoto, CountAfterGoto DEF TypeOK, IdleCount
    <2>5. DryIsDry' /\ GlobalWatched' /\ OfferHasTwo' /\ Quiet'
      BY <2>1, <2>2, <2>3, PcAfterGoto DEF DryIsDry, GlobalWatched, OfferHasTwo, Quiet, TypeOK
    <2>6. QED
      BY <2>4, <2>5
  <1>8. CASE OfferPush(t)
    <2>1. Goto(t, "process") /\ pc[t] = "offerPush"
      BY <1>8 DEF OfferPush
    <2>2. local[t] \in Seq(Job) /\ local[t] # <<>>
      BY <2>1 DEF TypeOK, OfferHasTwo
    <2>3. PopFront(local[t]) \in Seq(Job) /\ Append(glob, Head(local[t])) \in Seq(Job)
      BY <2>2, QueueTypes DEF TypeOK
    <2>4. TypeOK' /\ IdleCount'
      BY <1>8, <2>1, <2>3, PcAfterGoto, CountAfterGoto DEF TypeOK, IdleCount, OfferPush
    <2>5. DryIsDry' /\ GlobalWatched' /\ OfferHasTwo' /\ Quiet'
      BY <1>8, <2>1, PcAfterGoto
         DEF DryIsDry, GlobalWatched, OfferHasTwo, Quiet, OfferPush, TypeOK
    <2>6. QED
      BY <2>4, <2>5
  <1>9. CASE Process(t)
    <2>1. Goto(t, "getJob") /\ pc[t] = "process"
      BY <1>9 DEF Process
    <2>2. task[t] \in Job /\ EmplaceSubtasks(local[t], task[t]) \in Seq(Job)
      BY <2>1, JobAssumption DEF TypeOK, JobAssumption, EmplaceSubtasks, Emplace
    <2>3. TypeOK'
      BY <1>9, <2>1, <2>2, PcAfterGoto DEF TypeOK, Process
    <2>4. IdleCount'
      BY <1>9, <2>1, CountAfterGoto DEF IdleCount, Process
    <2>5. DryIsDry' /\ GlobalWatched' /\ OfferHasTwo' /\ Quiet'
      BY <1>9, <2>1, PcAfterGoto
         DEF DryIsDry, GlobalWatched, OfferHasTwo, Quiet, Process, TypeOK
    <2>6. QED
      BY <2>3, <2>4, <2>5
  <1>10. CASE EnterSmallTasks(t)
    <2>1. Goto(t, "getJob") /\ pc[t] = "big"
      BY <1>10 DEF EnterSmallTasks
    <2>2. TypeOK' /\ IdleCount'
      BY <1>10, <2>1, PcAfterGoto, CountAfterGoto DEF TypeOK, IdleCount, EnterSmallTasks
    <2>3. DryIsDry' /\ GlobalWatched' /\ OfferHasTwo' /\ Quiet'
      BY <1>10, <2>1, PcAfterGoto
         DEF DryIsDry, GlobalWatched, OfferHasTwo, Quiet, EnterSmallTasks, TypeOK
    <2>4. QED
      BY <2>2, <2>3
  <1>11. QED
    BY <1>1, <1>2, <1>3, <1>4, <1>5, <1>6, <1>7, <1>8, <1>9, <1>10 DEF Step

(* So does the start of the next sort.                                     *)
LEMMA NextIInv ==
    ASSUME IInv, [Next]_vars
    PROVE  IInv'
  <1>1. CASE \E t \in Thread : Step(t)
    BY <1>1, StepIInv
  <1>2. ASSUME NEW t \in Thread, NEW j \in Root, QueueTask(t, j)
        PROVE  IInv'
    <2>1. local' \in [Thread -> Seq(Job)] /\ \A u \in Thread : local'[u] # local[u] => u = t
      BY <1>2, JobAssumption DEF IInv, TypeOK, QueueTask, Emplace, JobAssumption
    <2>2. pc[t] = "big" /\ UNCHANGED <<glob, numIdle, pc, task, finished, sorts>>
      BY <1>2 DEF QueueTask, InBigTasks
    <2>3. QED
      BY <2>1, <2>2
         DEF IInv, TypeOK, IdleCount, DryIsDry, GlobalWatched, OfferHasTwo, Quiet
  <1>3. CASE NewSort
    <2>1. glob = <<>> \/ Thread = {}
      BY <1>3 DEF NewSort, IInv, Quiet
    <2>2. glob = <<>>
      BY <2>1 DEF IInv, GlobalWatched
    <2>3. \A t \in Thread : pc'[t] = "big"
      BY <1>3 DEF NewSort
    <2>4. {t \in Thread : pc'[t] \in Counted} = {}
      BY <2>3
    <2>5. IdleCount'
      BY <1>3, <2>4, FS_EmptySet DEF NewSort, Reset, IdleCount
    <2>6. TypeOK'
      BY <1>3, <2>3 DEF NewSort, Reset, IInv, TypeOK
    <2>7. QED
      BY <1>3, <2>2, <2>3, <2>5, <2>6
         DEF NewSort, IInv, DryIsDry, GlobalWatched, OfferHasTwo, Quiet
  <1>4. CASE UNCHANGED vars
    BY <1>4 DEF vars, IInv, TypeOK, IdleCount, DryIsDry, GlobalWatched, OfferHasTwo, Quiet
  <1>5. QED
    BY <1>1, <1>2, <1>3, <1>4 DEF Next, Terminated

-----------------------------------------------------------------------------
(* Type correctness: the counter never drops below zero, and a thread that *)
(* offers or processes holds a task.                                       *)
THEOREM TypeCorrect == Spec => []TypeOK
  <1>1. IInv => TypeOK
    BY DEF IInv
  <1>2. QED
    BY <1>1, InitIInv, NextIInv, PTL DEF Spec

(* The counter of idle threads is exact at every step.                     *)
THEOREM IdleCountExact == Spec => []IdleCount
  <1>1. IInv => IdleCount
    BY DEF IInv
  <1>2. QED
    BY <1>1, InitIInv, NextIInv, PTL DEF Spec

(* No counted thread has a private task, and no queued global task is left *)
(* without a thread that will look for it.                                 *)
THEOREM NothingForgotten == Spec => []NoTaskForgotten
  <1>1. IInv => NoTaskForgotten
    BY DEF IInv, NoTaskForgotten
  <1>2. QED
    BY <1>1, InitIInv, NextIInv, PTL DEF Spec

(* getJob's "no more work" is right, whatever the number of threads: it is *)
(* given only when every thread has come and no task is open.              *)
THEOREM ExitIsRight == Spec => []NoWorkAtExit
  <1>1. IInv => NoWorkAtExit
    <2> SUFFICES ASSUME IInv, \E t \in Thread : pc[t] = "done"
                 PROVE  /\ \A t \in Thread : pc[t] \in Dry
                        /\ Open = {}
      BY DEF NoWorkAtExit
    <2>1. glob = <<>> /\ \A t \in Thread : pc[t] \in Dry
      BY DEF IInv, Quiet
    <2>2. \A t \in Thread : local[t] = <<>> /\ Held(t) = {}
      BY <2>1 DEF IInv, DryIsDry, Held
    <2>3. Items(<<>>) = {}
      BY DEF Items
    <2>4. QED
      BY <2>1, <2>2, <2>3 DEF Open
  <1>2. QED
    BY <1>1, InitIInv, NextIInv, PTL DEF Spec

-----------------------------------------------------------------------------
(* What the queue operations do to the tasks in a queue.                   *)
LEMMA PopBackItems ==
    ASSUME NEW S, NEW q \in Seq(S), q # <<>>, NoRepeat(q)
    PROVE  /\ NoRepeat(PopBack(q))
           /\ Items(PopBack(q)) = Items(q) \ {q[Len(q)]}
           /\ q[Len(q)] \in Items(q)
  <1>1. Len(q) \in Nat \ {0} /\ DOMAIN q = 1 .. Len(q)
    OBVIOUS
  <1>2. /\ DOMAIN PopBack(q) = 1 .. (Len(q) - 1)
        /\ \A i \in 1 .. (Len(q) - 1) : PopBack(q)[i] = q[i]
    BY <1>1 DEF PopBack
  <1>3. \A x : x \in Items(PopBack(q)) <=> \E i \in 1 .. (Len(q) - 1) : x = q[i]
    BY <1>2 DEF Items
  <1>4. \A x : x \in Items(q) <=> \E i \in 1 .. Len(q) : x = q[i]
    BY <1>1 DEF Items
  <1>5. \A i \in 1 .. Len(q) : i \in 1 .. (Len(q) - 1) <=> q[i] # q[Len(q)]
    BY <1>1 DEF NoRepeat
  <1>6. \A x : x \in Items(PopBack(q)) <=> x \in Items(q) /\ x # q[Len(q)]
    BY <1>1, <1>3, <1>4, <1>5
  <1>7. QED
    BY <1>1, <1>2, <1>4, <1>6 DEF NoRepeat

(* Taking the first of a queue without repetition.                         *)
LEMMA PopFrontItems ==
    ASSUME NEW S, NEW q \in Seq(S), q # <<>>, NoRepeat(q)
    PROVE  /\ NoRepeat(Tail(q))
           /\ Items(Tail(q)) = Items(q) \ {Head(q)}
           /\ Head(q) \in Items(q)
  <1>1. Len(q) \in Nat \ {0} /\ DOMAIN q = 1 .. Len(q) /\ Head(q) = q[1]
    OBVIOUS
  <1>2. /\ DOMAIN Tail(q) = 1 .. (Len(q) - 1)
        /\ \A i \in 1 .. (Len(q) - 1) : Tail(q)[i] = q[i + 1]
    BY <1>1
  <1>3. \A x : x \in Items(Tail(q)) <=> \E i \in 2 .. Len(q) : x = q[i]
    <2>1. \A x : x \in Items(Tail(q)) <=> \E i \in 1 .. (Len(q) - 1) : x = q[i + 1]
      BY <1>2 DEF Items
    <2>2. \A i \in 2 .. Len(q) : i - 1 \in 1 .. (Len(q) - 1) /\ (i - 1) + 1 = i
      BY <1>1
    <2>3. \A i \in 1 .. (Len(q) - 1) : i + 1 \in 2 .. Len(q)
      BY <1>1
    <2>4. QED
      BY <2>1, <2>2, <2>3
  <1>4. \A x : x \in Items(q) <=> \E i \in 1 .. Len(q) : x = q[i]
    BY <1>1 DEF Items
  <1>5. \A i \in 1 .. Len(q) : i \in 2 .. Len(q) <=> q[i] # q[1]
    BY <1>1 DEF NoRepeat
  <1>6. \A x : x \in Items(Tail(q)) <=> x \in Items(q) /\ x # Head(q)
    BY <1>1, <1>3, <1>4, <1>5
  <1>7. NoRepeat(Tail(q))
    BY <1>1, <1>2 DEF NoRepeat
  <1>8. QED
    BY <1>1, <1>4, <1>6, <1>7

(* Joining two queues without repetition.                                  *)
LEMMA ConcatItems ==
    ASSUME NEW S, NEW q \in Seq(S), NEW s \in Seq(S)
    PROVE  /\ Items(q \o s) = Items(q) \cup Items(s)
           /\ NoRepeat(q) /\ NoRepeat(s) /\ Items(q) \cap Items(s) = {} => NoRepeat(q \o s)
  <1> DEFINE m == Len(q)
             n == Len(s)
             r == q \o s
  <1>1. /\ m \in Nat /\ n \in Nat
        /\ DOMAIN q = 1 .. m /\ DOMAIN s = 1 .. n /\ DOMAIN r = 1 .. (m + n)
    OBVIOUS
  <1>2. \A i \in 1 .. (m + n) : r[i] = IF i <= m THEN q[i] ELSE s[i - m]
    OBVIOUS
  <1> HIDE DEF m, n, r
  <1>3. \A i \in 1 .. (m + n) :
            /\ i <= m => i \in DOMAIN q
            /\ i > m => i - m \in DOMAIN s
    BY <1>1
  <1>4. Items(r) \subseteq Items(q) \cup Items(s)
    BY <1>1, <1>2, <1>3 DEF Items
  <1>5. Items(q) \subseteq Items(r)
    BY <1>1, <1>2 DEF Items
  <1>6. Items(s) \subseteq Items(r)
    <2>1. \A i \in 1 .. n : m + i \in 1 .. (m + n) /\ ~(m + i <= m) /\ (m + i) - m = i
      BY <1>1
    <2>2. \A i \in 1 .. n : r[m + i] = s[i]
      BY <1>2, <2>1
    <2>3. QED
      BY <1>1, <2>1, <2>2 DEF Items
  <1>7. ASSUME NoRepeat(q), NoRepeat(s), Items(q) \cap Items(s) = {},
               NEW a \in 1 .. (m + n), NEW b \in 1 .. (m + n), r[a] = r[b]
        PROVE  a = b
    <2>1. \A i \in DOMAIN q, k \in DOMAIN s : q[i] # s[k]
      BY <1>7 DEF Items
    <2>2. CASE a <= m /\ b <= m
      <3>1. r[a] = q[a] /\ r[b] = q[b] /\ a \in DOMAIN q /\ b \in DOMAIN q
        BY <1>2, <1>3, <2>2
      <3>2. QED
        BY <1>7, <3>1 DEF NoRepeat
    <2>3. CASE a > m /\ b > m
      <3>1. a - m = b - m
        BY <1>1, <1>2, <1>3, <1>7, <2>3 DEF NoRepeat
      <3>2. QED
        BY <1>1, <3>1
    <2>4. CASE a <= m /\ b > m
      <3>1. r[a] = q[a] /\ a \in DOMAIN q
        BY <1>2, <1>3, <2>4
      <3>2. r[b] = s[b - m] /\ b - m \in DOMAIN s
        BY <1>1, <1>2, <1>3, <2>4
      <3>3. QED
        BY <1>7, <2>1, <3>1, <3>2
    <2>5. CASE a > m /\ b <= m
      <3>1. r[b] = q[b] /\ b \in DOMAIN q
        BY <1>2, <1>3, <2>5
      <3>2. r[a] = s[a - m] /\ a - m \in DOMAIN s
        BY <1>1, <1>2, <1>3, <2>5
      <3>3. QED
        BY <1>7, <2>1, <3>1, <3>2
    <2>6. QED
      BY <1>1, <2>2, <2>3, <2>4, <2>5
  <1>8. QED
    BY <1>1, <1>4, <1>5, <1>6, <1>7 DEF NoRepeat, r

-----------------------------------------------------------------------------
(* One step touches the tasks that its thread and the global queue have,   *)
(* and those it creates; the tasks of the other threads stay.              *)
Own       == [t \in Thread |-> Items(local[t]) \cup Held(t)]
Mine(t)   == Own[t] \cup Items(glob)
Others(t) == UNION {Own[u] : u \in Thread \ {t}}

(* Singling out one thread in what all hold.                               *)
LEMMA UnionSplit ==
    ASSUME NEW T, NEW t \in T, NEW f
    PROVE  UNION {f[u] : u \in T} = f[t] \cup UNION {f[u] : u \in T \ {t}}
  <1>1. \A x : x \in UNION {f[u] : u \in T} <=> \E u \in T : x \in f[u]
    OBVIOUS
  <1>2. \A x : x \in UNION {f[u] : u \in T \ {t}} <=> \E u \in T \ {t} : x \in f[u]
    OBVIOUS
  <1>3. QED
    BY <1>1, <1>2

(* The open tasks are those of one thread and those of the others with the *)
(* global queue.                                                           *)
LEMMA OpenSplit ==
    ASSUME NEW t \in Thread
    PROVE  /\ Open = Mine(t) \cup Others(t)
           /\ Open' = Mine(t)' \cup Others(t)'
  <1> DEFINE all == UNION {Own[u] : u \in Thread}
  <1>1. Open = all \cup Items(glob) /\ Open' = all' \cup Items(glob')
    BY DEF Open, Own
  <1>2. all = Own[t] \cup Others(t) /\ all' = Own'[t] \cup Others(t)'
    BY UnionSplit DEF Others
  <1> HIDE DEF all
  <1>3. QED
    BY <1>1, <1>2 DEF Mine

(* A task that exists was created by a task that is finished: so the task  *)
(* that is processed next creates only new ones.                           *)
ParentFirst ==
    \A j \in Job : \A c \in Children(j) : c \in Open \cup finished => j \in finished

OInv == IInv /\ OneOwner /\ ParentFirst

(* A thread may take, give and finish tasks, and open new ones, without    *)
(* anybody sharing a task.                                                 *)
LEMMA OwnerMoves ==
    ASSUME OneOwner, NEW t \in Thread, NEW New, New \cap (Open \cup finished) = {},
           \A u \in Thread \ {t} : local'[u] = local[u] /\ Held(u)' = Held(u),
           NoRepeat(local'[t]), NoRepeat(glob'),
           Items(local'[t]) \cap (Held(t)' \cup Items(glob')) = {},
           Held(t)' \cap Items(glob') = {},
           Mine(t)' \subseteq Mine(t) \cup New,
           finished' \subseteq finished \cup Mine(t),
           finished' \cap Mine(t)' = {}
    PROVE  OneOwner' /\ Others(t)' = Others(t) /\ Others(t) \cap (Mine(t) \cup New) = {}
  <1>1. Others(t)' = Others(t)
    BY DEF Others, Own
  <1>2. \A u \in Thread \ {t} : Items(local[u]) \cup Held(u) \subseteq Open
    BY DEF Open
  <1>3. \A u \in Thread \ {t} : (Items(local[u]) \cup Held(u)) \cap (Mine(t) \cup New) = {}
    BY <1>2 DEF OneOwner, Mine, Own
  <1>4. Others(t) \cap (Mine(t) \cup New) = {}
    BY <1>3 DEF Others, Own
  <1>5. Open' \cap finished' = {}
    <2>1. Open' = Mine(t)' \cup Others(t)
      <3>1. Open' = Mine(t)' \cup Others(t)'
        BY OpenSplit
      <3>2. QED
        BY <1>1, <3>1
    <2>2. Others(t) \cap finished = {}
      BY OpenSplit DEF OneOwner
    <2>3. QED
      BY <1>4, <2>1, <2>2
  <1>6. ASSUME NEW v \in Thread
        PROVE  /\ NoRepeat(local'[v])
               /\ Items(local'[v]) \cap (Held(v)' \cup Items(glob')) = {}
               /\ Held(v)' \cap Items(glob') = {}
               /\ \A u \in Thread \ {v} :
                     (Items(local'[v]) \cup Held(v)') \cap (Items(local'[u]) \cup Held(u)') = {}
    <2>1. Items(glob') \subseteq Mine(t)' /\ Items(local'[t]) \cup Held(t)' \subseteq Mine(t)'
      BY DEF Mine, Own
    <2>2. CASE v = t
      BY <1>3, <2>1, <2>2
    <2>3. CASE v # t
      <3>1. NoRepeat(local'[v]) /\ Items(local'[v]) \cap Held(v)' = {}
        BY <2>3 DEF OneOwner
      <3>2. (Items(local'[v]) \cup Held(v)') \cap Mine(t)' = {}
        BY <1>3, <2>3
      <3>3. \A u \in Thread \ {v, t} :
                (Items(local'[v]) \cup Held(v)') \cap (Items(local'[u]) \cup Held(u)') = {}
        BY <2>3 DEF OneOwner
      <3>4. QED
        BY <2>1, <2>3, <3>1, <3>2, <3>3
    <2>4. QED
      BY <2>2, <2>3
  <1>7. OneOwner'
    BY <1>5, <1>6 DEF OneOwner
  <1>8. QED
    BY <1>1, <1>4, <1>7

(* A step that moves no task.                                              *)
LEMMA MovesNoTask ==
    ASSUME OneOwner, ParentFirst, UNCHANGED <<local, glob, finished>>,
           \A t \in Thread : Held(t)' = Held(t)
    PROVE  OneOwner' /\ ParentFirst' /\ Open' = Open
  <1>1. Open' = Open
    BY DEF Open
  <1>2. OneOwner'
    BY <1>1 DEF OneOwner
  <1>3. ParentFirst'
    BY <1>1 DEF ParentFirst
  <1>4. QED
    BY <1>1, <1>2, <1>3

(* A step in which t moves a task, which stays open.                       *)
LEMMA MovesTask ==
    ASSUME OneOwner, ParentFirst, NEW t \in Thread,
           \A u \in Thread \ {t} : local'[u] = local[u] /\ Held(u)' = Held(u),
           NoRepeat(local'[t]), NoRepeat(glob'),
           Items(local'[t]) \cap (Held(t)' \cup Items(glob')) = {},
           Held(t)' \cap Items(glob') = {},
           Mine(t)' = Mine(t),
           finished' = finished
    PROVE  OneOwner' /\ ParentFirst' /\ Open' = Open
  <1>1. finished \cap Mine(t) = {}
    BY OpenSplit DEF OneOwner
  <1>2. OneOwner' /\ Others(t)' = Others(t)
    <2> DEFINE New == {}
    <2>1. New \cap (Open \cup finished) = {} /\ Mine(t)' \subseteq Mine(t) \cup New
      OBVIOUS
    <2> HIDE DEF New
    <2>2. QED
      BY <1>1, <2>1, OwnerMoves
  <1>3. Open' = Open
    BY <1>2, OpenSplit
  <1>4. ParentFirst'
    BY <1>3 DEF ParentFirst
  <1>5. QED
    BY <1>2, <1>3, <1>4

(* Every step of a thread other than Process keeps the open tasks, and     *)
(* each of them in one place.                                              *)
LEMMA KeepsOwner ==
    ASSUME OInv, NEW t \in Thread, Step(t), ~Process(t)
    PROVE  OneOwner' /\ ParentFirst' /\ Open' = Open
  <1> USE DEF OInv, IInv
  <1>1. CASE PopLocal(t)
    <2>1. /\ pc[t] = "getJob" /\ Goto(t, "offer")
          /\ task' = [task EXCEPT ![t] = local[t][Len(local[t])]]
          /\ local' = [local EXCEPT ![t] = PopBack(@)] /\ glob' = glob /\ finished' = finished
      BY <1>1 DEF PopLocal, Take
    <2>2. /\ local[t] \in Seq(Job) /\ local[t] # <<>> /\ NoRepeat(local[t]) /\ NoRepeat(glob)
          /\ Items(local[t]) \cap Items(glob) = {}
      BY <1>1 DEF TypeOK, PopLocal, OneOwner
    <2>3. /\ pc' \in [Thread -> PC] /\ pc'[t] = "offer"
          /\ \A u \in Thread \ {t} : pc'[u] = pc[u]
      BY <2>1, PcAfterGoto
    <2>4. Held(t) = {} /\ Held(t)' = {local[t][Len(local[t])]} /\ local'[t] = PopBack(local[t])
      BY <2>1, <2>3 DEF Held, TypeOK
    <2>5. \A u \in Thread \ {t} : local'[u] = local[u] /\ Held(u)' = Held(u)
      BY <2>1, <2>3 DEF Held, TypeOK
    <2>6. /\ NoRepeat(local'[t])
          /\ Items(local'[t]) = Items(local[t]) \ Held(t)'
          /\ Held(t)' \subseteq Items(local[t])
      BY <2>2, <2>4, PopBackItems
    <2>7. Mine(t)' = Mine(t)
      BY <2>1, <2>4, <2>6 DEF Mine, Own
    <2>8. QED
      BY <2>1, <2>2, <2>5, <2>6, <2>7, MovesTask
  <1>2. CASE TryPop(t) /\ CanPop(t)
    <2>1. /\ pc[t] \notin Holding /\ Goto(t, "offer")
          /\ task' = [task EXCEPT ![t] = Head(glob)]
          /\ glob' = Tail(glob) /\ local' = local /\ finished' = finished
      BY <1>2 DEF TryPop, Take
    <2>2. /\ glob \in Seq(Job) /\ glob # <<>> /\ NoRepeat(local[t]) /\ NoRepeat(glob)
          /\ Items(local[t]) \cap Items(glob) = {}
      BY <1>2 DEF TypeOK, CanPop, OneOwner
    <2>3. /\ pc' \in [Thread -> PC] /\ pc'[t] = "offer"
          /\ \A u \in Thread \ {t} : pc'[u] = pc[u]
      BY <2>1, PcAfterGoto
    <2>4. Held(t) = {} /\ Held(t)' = {Head(glob)}
      BY <2>1, <2>3 DEF Held, TypeOK
    <2>5. \A u \in Thread \ {t} : local'[u] = local[u] /\ Held(u)' = Held(u)
      BY <2>1, <2>3 DEF Held, TypeOK
    <2>6. /\ NoRepeat(glob')
          /\ Items(glob') = Items(glob) \ Held(t)'
          /\ Held(t)' \subseteq Items(glob)
      BY <2>1, <2>2, <2>4, PopFrontItems
    <2>7. Mine(t)' = Mine(t)
      BY <2>1, <2>4, <2>6 DEF Mine, Own
    <2>8. QED
      BY <2>1, <2>2, <2>5, <2>6, <2>7, MovesTask
  <1>3. CASE OfferPush(t)
    <2>1. /\ pc[t] = "offerPush" /\ Goto(t, "process") /\ task' = task
          /\ glob' = Append(glob, Head(local[t]))
          /\ local' = [local EXCEPT ![t] = Tail(@)] /\ finished' = finished
      BY <1>3 DEF OfferPush, PopFront
    <2>2. /\ local[t] \in Seq(Job) /\ local[t] # <<>> /\ glob \in Seq(Job)
          /\ NoRepeat(local[t]) /\ NoRepeat(glob)
          /\ Items(local[t]) \cap (Held(t) \cup Items(glob)) = {}
          /\ Held(t) \cap Items(glob) = {}
      BY <2>1 DEF TypeOK, OfferHasTwo, OneOwner
    <2>3. /\ pc' \in [Thread -> PC] /\ pc'[t] = "process"
          /\ \A u \in Thread \ {t} : pc'[u] = pc[u]
      BY <2>1, PcAfterGoto
    <2>4. local'[t] = Tail(local[t]) /\ Held(t)' = Held(t)
      BY <2>1, <2>3 DEF Held, TypeOK
    <2>5. \A u \in Thread \ {t} : local'[u] = local[u] /\ Held(u)' = Held(u)
      BY <2>1, <2>3 DEF Held, TypeOK
    <2>6. /\ NoRepeat(local'[t])
          /\ Items(local'[t]) = Items(local[t]) \ {Head(local[t])}
          /\ Head(local[t]) \in Items(local[t])
      BY <2>2, <2>4, PopFrontItems
    <2>7. NoRepeat(glob') /\ Items(glob') = Items(glob) \cup {Head(local[t])}
      <3> DEFINE s == <<Head(local[t])>>
      <3>1. glob' = glob \o s /\ s \in Seq(Job)
        BY <2>1, <2>2
      <3>2. NoRepeat(s) /\ Items(s) = {Head(local[t])}
        BY DEF NoRepeat, Items
      <3> HIDE DEF s
      <3>3. QED
        BY <2>2, <2>6, <3>1, <3>2, ConcatItems
    <2>8. Mine(t)' = Mine(t)
      BY <2>4, <2>6, <2>7 DEF Mine, Own
    <2>9. QED
      BY <2>1, <2>2, <2>4, <2>5, <2>6, <2>7, <2>8, MovesTask
  <1>4. CASE (TryPop(t) /\ ~CanPop(t)) \/ SignalIdle(t) \/ LoadIdle(t) \/ ProbeGlobal(t)
             \/ UnsignalIdle(t) \/ EnterSmallTasks(t)
    <2>1. PICK l \in {"signal", "wait", "done", "probe", "unsignal", "retry", "getJob"} : Goto(t, l)
      BY <1>4 DEF TryPop, SignalIdle, LoadIdle, ProbeGlobal, UnsignalIdle, EnterSmallTasks
    <2>2. pc[t] \notin Holding /\ UNCHANGED <<local, glob, task, finished>>
      BY <1>4 DEF TryPop, SignalIdle, LoadIdle, ProbeGlobal, UnsignalIdle, EnterSmallTasks
    <2>3. \A u \in Thread : Held(u)' = Held(u)
      BY <2>1, <2>2, PcAfterGoto DEF Held
    <2>4. QED
      BY <2>2, <2>3, MovesNoTask
  <1>5. CASE OfferLoadIdle(t) \/ OfferProbe(t)
    <2>1. PICK l \in Holding : Goto(t, l)
      BY <1>5 DEF OfferLoadIdle, OfferProbe
    <2>2. pc[t] \in Holding /\ UNCHANGED <<local, glob, task, finished>>
      BY <1>5 DEF OfferLoadIdle, OfferProbe
    <2>3. \A u \in Thread : Held(u)' = Held(u)
      BY <2>1, <2>2, PcAfterGoto DEF Held
    <2>4. QED
      BY <2>2, <2>3, MovesNoTask
  <1>6. QED
    BY <1>1, <1>2, <1>3, <1>4, <1>5 DEF Step

(* Process closes the task of its thread and opens the subtasks, which     *)
(* nobody has seen before.                                                 *)
LEMMA ProcessOwner ==
    ASSUME OInv, NEW t \in Thread, Process(t)
    PROVE  /\ OneOwner' /\ ParentFirst'
           /\ task[t] \in Job \cap Open
           /\ Open' = (Open \ {task[t]}) \cup Children(task[t])
  <1> USE DEF OInv, IInv
  <1> DEFINE j == task[t]
  <1>1. /\ pc[t] = "process" /\ Goto(t, "getJob") /\ task' = [task EXCEPT ![t] = NoJob]
        /\ local' = [local EXCEPT ![t] = @ \o Subtasks[j]]
        /\ glob' = glob /\ finished' = finished \cup {j}
    BY DEF Process, EmplaceSubtasks, Emplace
  <1>2. /\ j \in Job /\ Held(t) = {j} /\ j \in Open /\ Subtasks[j] \in Seq(Job)
        /\ j \in Mine(t) /\ Children(j) = Items(Subtasks[j])
    BY <1>1, JobAssumption, OpenSplit
       DEF TypeOK, Held, JobAssumption, Mine, Own, Children, Items
  <1>3. /\ pc' \in [Thread -> PC] /\ pc'[t] = "getJob"
        /\ \A u \in Thread \ {t} : pc'[u] = pc[u]
    BY <1>1, PcAfterGoto
  <1>4. Held(t)' = {} /\ \A u \in Thread \ {t} : local'[u] = local[u] /\ Held(u)' = Held(u)
    BY <1>1, <1>3 DEF Held, TypeOK
  <1>5. Children(j) \cap (Open \cup finished) = {} /\ j \notin Children(j)
    <2>1. j \notin finished
      BY <1>2 DEF OneOwner
    <2>2. Children(j) \cap {j} = {}
      BY <1>2, ForestAssumption DEF ForestAssumption
    <2>3. QED
      BY <1>2, <2>1, <2>2 DEF ParentFirst
  <1>6. /\ local[t] \in Seq(Job) /\ NoRepeat(local[t]) /\ NoRepeat(glob)
        /\ Items(local[t]) \cap (Held(t) \cup Items(glob)) = {}
        /\ Held(t) \cap Items(glob) = {}
    BY DEF TypeOK, OneOwner
  <1>7. local'[t] = local[t] \o Subtasks[j] /\ Items(local[t]) \subseteq Open /\ Items(glob) \subseteq Open
    BY <1>1, OpenSplit DEF TypeOK, Mine, Own
  <1>8. NoRepeat(Subtasks[j])
    BY <1>2, ForestAssumption DEF ForestAssumption, NoRepeat
  <1> HIDE DEF j
  <1>9. NoRepeat(local'[t]) /\ Items(local'[t]) = Items(local[t]) \cup Children(j)
    BY <1>2, <1>5, <1>6, <1>7, <1>8, ConcatItems
  <1>10. Mine(t)' = (Mine(t) \ {j}) \cup Children(j)
    BY <1>1, <1>2, <1>4, <1>5, <1>6, <1>9 DEF Mine, Own
  <1>11. Items(local'[t]) \cap Items(glob') = {}
    BY <1>1, <1>5, <1>6, <1>7, <1>9
  <1>12. finished' \cap Mine(t)' = {}
    BY <1>1, <1>5, <1>10, OpenSplit DEF OneOwner
  <1>13. OneOwner' /\ Others(t)' = Others(t) /\ Others(t) \cap (Mine(t) \cup Children(j)) = {}
    BY <1>1, <1>2, <1>4, <1>5, <1>6, <1>9, <1>10, <1>11, <1>12, OwnerMoves
  <1>14. Open' = (Open \ {j}) \cup Children(j)
    BY <1>2, <1>10, <1>13, OpenSplit
  <1>15. ParentFirst'
    <2> SUFFICES ASSUME NEW k \in Job, NEW c \in Children(k), c \in Open' \cup finished'
                 PROVE  k \in finished'
      BY DEF ParentFirst
    <2>1. CASE c \in Open \cup finished
      BY <1>1, <2>1 DEF ParentFirst
    <2>2. CASE c \in Children(j)
      BY <1>1, <1>2, <2>2, ForestAssumption DEF ForestAssumption
    <2>3. QED
      BY <1>1, <1>2, <1>14, <2>1, <2>2
  <1>16. QED
    BY <1>2, <1>13, <1>14, <1>15 DEF j

(* A root task is queued once, before its thread calls getJob.             *)
LEMMA QueueTaskOwner ==
    ASSUME OInv, NEW t \in Thread, NEW j \in Root, QueueTask(t, j)
    PROVE  OneOwner' /\ ParentFirst' /\ Open' = Open \cup {j} /\ j \notin Open \cup finished
  <1> USE DEF OInv, IInv
  <1>1. /\ j \notin Open \cup finished
        /\ local' = [local EXCEPT ![t] = @ \o <<j>>]
        /\ UNCHANGED <<glob, pc, task, finished>>
    BY DEF QueueTask, Emplace
  <1>2. \A u \in Thread : Held(u)' = Held(u)
    BY <1>1 DEF Held
  <1>3. /\ local[t] \in Seq(Job) /\ NoRepeat(local[t]) /\ NoRepeat(glob)
        /\ Items(local[t]) \cap (Held(t) \cup Items(glob)) = {}
        /\ Held(t) \cap Items(glob) = {}
        /\ local'[t] = local[t] \o <<j>>
        /\ \A u \in Thread \ {t} : local'[u] = local[u]
    BY <1>1 DEF TypeOK, OneOwner
  <1>4. Items(local[t]) \cup Held(t) \cup Items(glob) \subseteq Open
    BY OpenSplit DEF Mine, Own
  <1>5. NoRepeat(local'[t]) /\ Items(local'[t]) = Items(local[t]) \cup {j}
    <2> DEFINE s == <<j>>
    <2>1. s \in Seq(Job) /\ NoRepeat(s) /\ Items(s) = {j}
      BY JobAssumption DEF JobAssumption, NoRepeat, Items
    <2> HIDE DEF s
    <2>2. local'[t] = local[t] \o s
      BY <1>3 DEF s
    <2>3. QED
      BY <1>1, <1>3, <1>4, <2>1, <2>2, ConcatItems
  <1>6. Mine(t)' = Mine(t) \cup {j}
    BY <1>1, <1>2, <1>5 DEF Mine, Own
  <1>7. {j} \cap (Open \cup finished) = {}
    BY <1>1
  <1>8. finished' \cap Mine(t)' = {}
    BY <1>1, <1>6, OpenSplit DEF OneOwner
  <1>9. OneOwner' /\ Others(t)' = Others(t)
    <2>1. /\ Items(local'[t]) \cap (Held(t)' \cup Items(glob')) = {}
          /\ Held(t)' \cap Items(glob') = {} /\ NoRepeat(glob')
      BY <1>1, <1>2, <1>3, <1>4, <1>5
    <2>2. \A u \in Thread \ {t} : local'[u] = local[u] /\ Held(u)' = Held(u)
      BY <1>2, <1>3
    <2>3. Mine(t)' \subseteq Mine(t) \cup {j} /\ finished' \subseteq finished \cup Mine(t)
      BY <1>1, <1>6
    <2>4. QED
      BY <1>5, <1>7, <1>8, <2>1, <2>2, <2>3, OwnerMoves
  <1>10. Open' = Open \cup {j}
    BY <1>6, <1>9, OpenSplit
  <1>11. ParentFirst'
    BY <1>1, <1>10, ForestAssumption DEF ParentFirst, ForestAssumption
  <1>12. QED
    BY <1>1, <1>9, <1>10, <1>11

(* When a new sort starts no task is open.                                 *)
LEMMA AllDoneNoneOpen ==
    ASSUME IInv, glob = <<>>, \A t \in Thread : pc[t] \in Counted
    PROVE  Open = {}
  <1>1. \A t \in Thread : local[t] = <<>> /\ Held(t) = {}
    BY DEF IInv, DryIsDry, Held
  <1>2. Items(<<>>) = {}
    BY DEF Items
  <1>3. QED
    BY <1>1, <1>2 DEF Open

(* The next sort starts with nothing open.                                 *)
LEMMA NewSortOwner ==
    ASSUME OInv, NewSort
    PROVE  OneOwner' /\ ParentFirst' /\ Open' = {} /\ Open = {}
  <1> USE DEF OInv, IInv
  <1>1. /\ UNCHANGED <<local, glob, task>> /\ finished' = {}
        /\ \A t \in Thread : pc[t] = "done" /\ pc'[t] = "big"
    BY DEF NewSort
  <1>2. glob = <<>>
    BY <1>1 DEF GlobalWatched
  <1>3. Open = {}
    BY <1>1, <1>2, AllDoneNoneOpen
  <1>4. \A t \in Thread : Held(t) = {} /\ Held(t)' = {}
    BY <1>1 DEF Held
  <1>5. Open' = Open
    BY <1>1, <1>4 DEF Open
  <1>6. OneOwner'
    BY <1>1, <1>4, <1>5 DEF OneOwner
  <1>7. ParentFirst'
    BY <1>1, <1>3, <1>5 DEF ParentFirst
  <1>8. QED
    BY <1>3, <1>5, <1>6, <1>7

LEMMA InitOInv == Init => OInv
  <1> SUFFICES ASSUME Init PROVE OInv
    OBVIOUS
  <1>1. /\ glob = <<>> /\ finished = {}
        /\ \A t \in Thread : local[t] = <<>> /\ Held(t) = {}
    BY DEF Init, Held
  <1>2. Items(<<>>) = {} /\ NoRepeat(<<>>)
    BY DEF Items, NoRepeat
  <1>3. Open = {}
    BY <1>1, <1>2 DEF Open
  <1>4. QED
    BY <1>1, <1>2, <1>3, InitIInv DEF OInv, OneOwner, ParentFirst

LEMMA NextOInv ==
    ASSUME OInv, [Next]_vars
    PROVE  OInv'
  <1>1. IInv'
    BY NextIInv DEF OInv
  <1>2. OneOwner' /\ ParentFirst'
    <2>1. CASE UNCHANGED vars
      BY <2>1, MovesNoTask DEF vars, Held, OInv
    <2>2. QED
      BY <2>1, KeepsOwner, ProcessOwner, QueueTaskOwner, NewSortOwner DEF Next, Terminated
  <1>3. QED
    BY <1>1, <1>2 DEF OInv

LEMMA Invariance == Spec => []OInv
  BY InitOInv, NextOInv, PTL DEF Spec

(* Each open task is in one place (a private queue, the global queue or a  *)
(* thread's hands), and none that is open has been processed in this sort. *)
THEOREM TasksHaveOneOwner == Spec => []OneOwner
  <1>1. OInv => OneOwner
    BY DEF OInv
  <1>2. QED
    BY <1>1, Invariance, PTL

-----------------------------------------------------------------------------
(* Refinement of JobPool, step by step.                                    *)
Inside   == {t \in Thread : pc[t] # "big"}
Released == {t \in Thread : pc[t] = "done"}

(* The start of Scheduler is the start of JobPool.                         *)
LEMMA InitPool == Init => Pool!Init
  <1> SUFFICES ASSUME Init PROVE Pool!Init
    OBVIOUS
  <1>1. Inside = {} /\ Released = {} /\ finished = {}
    BY DEF Init, Inside, Released
  <1>2. \A t \in Thread : local[t] = <<>> /\ Held(t) = {}
    BY DEF Init, Held
  <1>3. Open = {}
    BY <1>2 DEF Init, Open, Items
  <1>4. QED
    BY <1>1, <1>3 DEF Pool!Init, Inside, Released

(* Moving tasks about, and counting idle threads, is not visible.          *)
LEMMA StutterPool ==
    ASSUME Open' = Open, finished' = finished, Inside' = Inside, Released' = Released
    PROVE  UNCHANGED Pool!vars
  BY DEF Pool!vars, Inside, Released

(* Each step of a thread is a step of JobPool or changes nothing of it.    *)
LEMMA StepPool ==
    ASSUME OInv, NEW t \in Thread, Step(t)
    PROVE  [Pool!Next]_Pool!vars
  <1> USE DEF OInv, IInv
  <1>1. CASE EnterSmallTasks(t)
    <2>1. Goto(t, "getJob") /\ pc[t] = "big" /\ finished' = finished
      BY <1>1 DEF EnterSmallTasks
    <2>2. Inside' = Inside \cup {t} /\ t \notin Inside /\ Released' = Released
      BY <2>1, PcAfterGoto DEF Inside, Released
    <2>3. Open' = Open
      BY <1>1, KeepsOwner DEF EnterSmallTasks, Process
    <2>4. QED
      BY <2>1, <2>2, <2>3 DEF Pool!Arrive, Pool!Next, Inside, Released
  <1>2. CASE LoadIdle(t) /\ AllIdle
    <2>1. Goto(t, "done") /\ pc[t] = "wait" /\ finished' = finished
      BY <1>2 DEF LoadIdle
    <2>2. glob = <<>> /\ \A u \in Thread : pc[u] \in Counted
      BY <1>2, AllCountedQuiet
    <2>3. Inside = Thread /\ Inside' = Inside /\ Released' = Released \cup {t} /\ t \notin Released
      BY <2>1, <2>2, PcAfterGoto DEF Inside, Released
    <2>4. Open = {} /\ Open' = Open
      BY <1>2, <2>2, AllDoneNoneOpen, KeepsOwner DEF LoadIdle, Process
    <2>5. QED
      BY <2>1, <2>3, <2>4 DEF Pool!Release, Pool!Next, Inside, Released
  <1>3. CASE Process(t)
    <2>1. Goto(t, "getJob") /\ pc[t] = "process" /\ finished' = finished \cup {task[t]}
      BY <1>3 DEF Process
    <2>2. Inside' = Inside /\ Released' = Released /\ t \in Inside \ Released
      BY <2>1, PcAfterGoto DEF Inside, Released
    <2>3. /\ task[t] \in Job /\ task[t] \in Open
          /\ Open' = (Open \ {task[t]}) \cup Children(task[t])
      BY <1>3, ProcessOwner
    <2>4. Pool!Finish(task[t])
      BY <2>1, <2>2, <2>3 DEF Pool!Finish, Inside, Released, Children
    <2>5. QED
      BY <2>3, <2>4 DEF Pool!Next
  <1>4. CASE Step(t) /\ ~EnterSmallTasks(t) /\ ~(LoadIdle(t) /\ AllIdle) /\ ~Process(t)
    <2>1. Open' = Open
      BY <1>4, KeepsOwner
    <2>2. PICK l \in PC \ {"big", "done"} : Goto(t, l)
      BY <1>4 DEF Step, PopLocal, Take, TryPop, SignalIdle, LoadIdle, ProbeGlobal,
                  UnsignalIdle, OfferLoadIdle, OfferProbe, OfferPush
    <2>3. pc[t] \notin {"big", "done"} /\ finished' = finished
      BY <1>4 DEF Step, PopLocal, TryPop, SignalIdle, LoadIdle, ProbeGlobal,
                  UnsignalIdle, OfferLoadIdle, OfferProbe, OfferPush
    <2>4. Inside' = Inside /\ Released' = Released
      BY <2>2, <2>3, PcAfterGoto DEF Inside, Released
    <2>5. QED
      BY <2>1, <2>3, <2>4, StutterPool
  <1>5. QED
    BY <1>1, <1>2, <1>3, <1>4

(* So is the start of the next sort.                                       *)
LEMMA NextPool ==
    ASSUME OInv, [Next]_vars
    PROVE  [Pool!Next]_Pool!vars
  <1>1. ASSUME NEW t \in Thread, NEW j \in Root, QueueTask(t, j)
        PROVE  Pool!Next
    <2>1. t \notin Inside /\ UNCHANGED <<pc, finished>>
      BY <1>1 DEF QueueTask, InBigTasks, Inside
    <2>2. Open' = Open \cup {j} /\ j \notin Open \cup finished /\ j \in Job
      BY <1>1, QueueTaskOwner, JobAssumption DEF JobAssumption
    <2>3. Inside' = Inside /\ Released' = Released /\ Inside # Thread
      BY <2>1 DEF Inside, Released
    <2>4. QED
      BY <2>1, <2>2, <2>3 DEF Pool!Create, Pool!Next, Inside, Released
  <1>2. CASE NewSort
    <2>1. finished' = {} /\ \A t \in Thread : pc[t] = "done" /\ pc'[t] = "big"
      BY <1>2 DEF NewSort
    <2>2. Released = Thread /\ Inside' = {} /\ Released' = {}
      BY <2>1 DEF Inside, Released
    <2>3. Open' = Open
      BY <1>2, NewSortOwner
    <2>4. QED
      BY <2>1, <2>2, <2>3 DEF Pool!Restart, Pool!Next, Inside, Released
  <1>3. CASE UNCHANGED vars
    <2>1. Open' = Open /\ Inside' = Inside /\ Released' = Released /\ finished' = finished
      BY <1>3 DEF vars, Open, Held, Inside, Released
    <2>2. QED
      BY <2>1, StutterPool
  <1>4. QED
    BY <1>1, <1>2, <1>3, StepPool DEF Next, Terminated

(* The scheduler implements the pool of jobs: every task is processed once *)
(* and opens its subtasks, and getJob returns false to a thread only when  *)
(* all threads have come and no task is open or may still appear.          *)
THEOREM SchedulerImplementsPool == Spec => ImplementsPool
  BY InitPool, NextPool, Invariance, PTL DEF Spec, ImplementsPool, Pool!Spec
=============================================================================
