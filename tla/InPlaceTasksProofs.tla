------------------------- MODULE InPlaceTasksProofs -------------------------
(***************************************************************************)
(* Theorems about the driver of IPS4o, for any number of threads and any   *)
(* sizes: the stack of big tasks, a plain vector, is changed only while    *)
(* every thread but the primary waits for the primary, so that all threads *)
(* of a partitioning step have read the same task from it.  And no place   *)
(* of the array is lost between the lists of tasks, or is in two of them:  *)
(* the step, queueTask and the atomic index leave each to one of them.     *)
(***************************************************************************)
EXTENDS InPlaceTasks, FiniteSetTheorems, SequenceTheorems, TLAPS

Secondary == Thread \ {0}

(* Reading the task that is on top of the stack, on the way to the step.   *)
Reads(t) ==
    /\ pc[t] \in {"loop", "partition", "check"} \/ (t = 0 /\ pc[t] = "start")
    /\ pc[t] = "partition" => task[t] = Last(bigTasks)

(* The three phases a sort goes through: a task is read, the primary puts  *)
(* its buckets on the stack, and in the end no big task is left.           *)
Reading == bigTasks # <<>> /\ \A t \in Thread : Reads(t)
Queueing == pc[0] \in {"queue", "meet"} /\ \A t \in Secondary : pc[t] = "meet"
Sharing == bigTasks = <<>> /\ \A t \in Thread : pc[t] \in {"check", "fetch", "sort", "idle"}

(* With the types that the phases rest on.                                 *)
IInv ==
    /\ pc \in [Thread -> Locations] /\ DOMAIN task = Thread
    /\ Reading \/ Queueing \/ Sharing

(* The primary thread, and at least one other.                             *)
LEMMA Threads == 0 \in Thread /\ Secondary \subseteq Thread /\ Thread = {0} \cup Secondary
                 /\ \E t \in Thread : t # 0
  <1>1. 0 \in Thread /\ 1 \in Thread /\ 1 # 0
    BY TasksAssumption DEF TasksAssumption, Thread
  <1>2. QED
    BY <1>1 DEF Secondary

(* From here one lemma for each action: it keeps the invariant.            *)
LEMMA InitIInv == Init => IInv
  <1> SUFFICES ASSUME Init PROVE IInv
    OBVIOUS
  <1>1. pc \in [Thread -> Locations] /\ DOMAIN task = Thread
    BY DEF Init, Locations
  <1>2. Sharing
    BY DEF Init, Sharing
  <1>3. QED
    BY <1>1, <1>2 DEF IInv

(* A step of one thread that leaves the stack alone keeps every other      *)
(* thread in its phase.                                                    *)
LEMMA OneThread ==
    ASSUME IInv, NEW t \in Thread, NEW l \in Locations, Goto(t, l), bigTasks' = bigTasks,
           DOMAIN task' = Thread, \A u \in Thread \ {t} : task'[u] = task[u],
           \/ Reading /\ Reads(t)'
           \/ Queueing /\ t = 0 /\ l \in {"queue", "meet"}
           \/ Sharing /\ l \in {"check", "fetch", "sort", "idle"}
    PROVE  IInv'
  <1>1. /\ pc' \in [Thread -> Locations] /\ pc'[t] = l
        /\ \A u \in Thread \ {t} : pc'[u] = pc[u]
    BY DEF IInv, Goto
  <1>2. CASE Reading /\ Reads(t)'
    <2>1. \A u \in Thread : Reads(u)'
      BY <1>1, <1>2 DEF Reading, Reads
    <2>2. QED
      BY <1>1, <1>2, <2>1 DEF IInv, Reading
  <1>3. CASE Queueing /\ t = 0 /\ l \in {"queue", "meet"}
    BY <1>1, <1>3, Threads DEF IInv, Queueing, Secondary
  <1>4. CASE Sharing /\ l \in {"check", "fetch", "sort", "idle"}
    BY <1>1, <1>4 DEF IInv, Sharing
  <1>5. QED
    BY <1>2, <1>3, <1>4

LEMMA SortIInv ==
    ASSUME IInv, NEW size \in Sizes, Sort(size)
    PROVE  IInv'
  <1>1. (\A t \in Thread : pc[t] = "idle") /\ bigTasks = <<>>
    BY Threads DEF Sort, IInv, Reading, Reads, Queueing, Sharing
  <1>2. CASE InParallel(size)
    <2>1. /\ bigTasks' = Append(bigTasks, [begin |-> 0, end |-> size])
          /\ pc' = [t \in Thread |-> IF t = 0 THEN "start" ELSE "loop"]
          /\ task' = task
      BY <1>2 DEF Sort
    <2>2. bigTasks' # <<>>
      BY <1>1, <2>1
    <2>3. pc' \in [Thread -> Locations]
      BY <2>1 DEF Locations
    <2>4. \A t \in Thread : Reads(t)'
      BY <2>1 DEF Reads
    <2>5. QED
      BY <2>1, <2>2, <2>3, <2>4 DEF IInv, Reading
  <1>3. CASE ~InParallel(size)
    BY <1>1, <1>3 DEF Sort, IInv, Sharing
  <1>4. QED
    BY <1>2, <1>3

LEMMA StartIInv ==
    ASSUME IInv, Start
    PROVE  IInv'
  <1>1. /\ pc[0] = "start" /\ Goto(0, "loop") /\ bigTasks' = bigTasks /\ task' = task
    BY DEF Start
  <1>2. Reading /\ pc'[0] = "loop"
    BY <1>1, Threads DEF IInv, Queueing, Sharing, Goto
  <1>3. Reads(0)'
    BY <1>2 DEF Reads
  <1>4. QED
    BY <1>1, <1>2, <1>3, Threads, OneThread DEF IInv, Locations

LEMMA ReadTaskIInv ==
    ASSUME IInv, NEW t \in Thread, ReadTask(t)
    PROVE  IInv'
  <1>1. /\ pc[t] = "loop" /\ Goto(t, "partition") /\ bigTasks' = bigTasks
        /\ task' = [task EXCEPT ![t] = Last(bigTasks)]
    BY DEF ReadTask
  <1>2. Reading /\ pc'[t] = "partition"
    BY <1>1, Threads DEF IInv, Queueing, Sharing, Goto
  <1>3. /\ DOMAIN task' = Thread /\ task'[t] = Last(bigTasks)
        /\ \A u \in Thread \ {t} : task'[u] = task[u]
    BY <1>1 DEF IInv
  <1>4. Reads(t)'
    BY <1>1, <1>2, <1>3 DEF Reads
  <1>5. QED
    BY <1>1, <1>2, <1>3, <1>4, OneThread DEF Locations

LEMMA PartitionIInv ==
    ASSUME IInv, Partition
    PROVE  IInv'
  <1>1. pc' = [t \in Thread |-> IF t = 0 THEN "queue" ELSE "meet"] /\ task' = task
    BY DEF Partition
  <1>2. QED
    BY <1>1, Threads DEF IInv, Locations, Queueing, Secondary

LEMMA QueueIInv ==
    ASSUME IInv, Queue
    PROVE  IInv'
  <1>1. pc[0] = "queue" /\ Goto(0, "meet") /\ task' = task
    BY DEF Queue
  <1>2. Queueing
    BY <1>1, Threads DEF IInv, Reading, Reads, Sharing
  <1>3. pc' \in [Thread -> Locations] /\ Queueing'
    BY <1>1, <1>2, Threads DEF IInv, Goto, Locations, Queueing, Secondary
  <1>4. QED
    BY <1>1, <1>3 DEF IInv

LEMMA BarrierIInv ==
    ASSUME IInv, Barrier
    PROVE  IInv'
  <1>1. pc' = [t \in Thread |-> "check"] /\ bigTasks' = bigTasks /\ task' = task
    BY DEF Barrier, AllMeet
  <1>2. pc' \in [Thread -> Locations]
    BY <1>1 DEF Locations
  <1>3. Reading' \/ Sharing'
    BY <1>1 DEF Reading, Reads, Sharing
  <1>4. QED
    BY <1>1, <1>2, <1>3 DEF IInv

LEMMA CheckIInv ==
    ASSUME IInv, NEW t \in Thread, Check(t)
    PROVE  IInv'
  <1>1. /\ pc[t] = "check" /\ Goto(t, IF bigTasks = <<>> THEN "fetch" ELSE "loop")
        /\ bigTasks' = bigTasks /\ task' = task
    BY DEF Check
  <1>2. CASE Reading
    <2>1. Goto(t, "loop") /\ pc'[t] = "loop"
      BY <1>1, <1>2 DEF Reading, Goto, IInv
    <2>2. Reads(t)'
      BY <2>1 DEF Reads
    <2>3. QED
      BY <1>1, <1>2, <2>1, <2>2, OneThread DEF IInv, Locations
  <1>3. CASE Sharing
    <2>1. Goto(t, "fetch")
      BY <1>1, <1>3 DEF Sharing
    <2>2. QED
      BY <1>1, <1>3, <2>1, OneThread DEF IInv, Locations
  <1>4. ~Queueing
    BY <1>1, Threads DEF Queueing
  <1>5. QED
    BY <1>2, <1>3, <1>4 DEF IInv

LEMMA SmallTaskIInv ==
    ASSUME IInv, NEW t \in Thread, Fetch(t) \/ SortTask(t)
    PROVE  IInv'
  <1>1. /\ pc[t] \in {"fetch", "sort"} /\ bigTasks' = bigTasks /\ task' = task
        /\ \E l \in {"fetch", "sort", "idle"} : Goto(t, l)
    BY DEF Fetch, SortTask
  <1>2. Sharing
    BY <1>1, Threads DEF IInv, Reading, Reads, Queueing
  <1>3. QED
    BY <1>1, <1>2, OneThread DEF IInv, Locations

LEMMA NextIInv == IInv /\ [Next]_vars => IInv'
  <1> SUFFICES ASSUME IInv, [Next]_vars PROVE IInv'
    OBVIOUS
  <1>1. CASE \E size \in Sizes : Sort(size)
    BY <1>1, SortIInv
  <1>2. CASE Start \/ Partition \/ Queue \/ Barrier
    BY <1>2, StartIInv, PartitionIInv, QueueIInv, BarrierIInv
  <1>3. CASE \E t \in Thread : ReadTask(t) \/ Check(t) \/ Fetch(t) \/ SortTask(t)
    BY <1>3, ReadTaskIInv, CheckIInv, SmallTaskIInv
  <1>4. CASE Terminated \/ UNCHANGED vars
    <2>1. UNCHANGED <<pc, task, bigTasks>>
      BY <1>4 DEF Terminated, vars
    <2>2. QED
      BY <2>1 DEF IInv, Reading, Reads, Queueing, Sharing
  <1>5. QED
    BY <1>1, <1>2, <1>3, <1>4 DEF Next

LEMMA Invariance == Spec => []IInv
  <1>1. QED
    BY InitIInv, NextIInv, PTL DEF Spec

-----------------------------------------------------------------------------
(* All threads that enter a partitioning step of IPS4o (partition<true>,   *)
(* called from processBigTasks) bring the same task, the one on top of the *)
(* stack, although each has read it for itself.                            *)
THEOREM TasksAgree == Spec => []SameTask
  <1>1. IInv => SameTask
    BY Threads DEF IInv, SameTask, Reading, Reads, Queueing, Sharing
  <1>2. QED
    BY <1>1, Invariance, PTL

(* The stack of big tasks changes only when a sort begins, all threads     *)
(* being idle, or when every thread but the primary waits at the barrier   *)
(* behind the step: back() and empty() never race with a change.           *)
THEOREM StackChangesAlone ==
    Spec => [][bigTasks' # bigTasks =>
                 \/ \A t \in Thread : pc[t] = "idle"
                 \/ pc[0] = "queue" /\ \A t \in Secondary : pc[t] = "meet"]_vars
  <1>1. IInv /\ [Next]_vars
            => [bigTasks' # bigTasks =>
                  \/ \A t \in Thread : pc[t] = "idle"
                  \/ pc[0] = "queue" /\ \A t \in Secondary : pc[t] = "meet"]_vars
    <2> SUFFICES ASSUME IInv, [Next]_vars, bigTasks' # bigTasks
                 PROVE  \/ \A t \in Thread : pc[t] = "idle"
                        \/ pc[0] = "queue" /\ \A t \in Secondary : pc[t] = "meet"
      OBVIOUS
    <2>1. (\E size \in Sizes : Sort(size)) \/ Queue
      BY DEF Next, Start, Partition, Barrier, ReadTask, Check, Fetch, SortTask,
             Terminated, vars
    <2>2. CASE \E size \in Sizes : Sort(size)
      BY <2>2 DEF Sort
    <2>3. CASE Queue
      BY <2>3, Threads DEF Queue, IInv, Reading, Reads, Queueing, Sharing
    <2>4. QED
      BY <2>1, <2>2, <2>3
  <1>2. QED
    BY <1>1, Invariance, PTL DEF Spec

-----------------------------------------------------------------------------
(* Lists of tasks. *)

(* The tasks of a list that have place p.                                  *)
Holders(s, p) == {i \in DOMAIN s : p \in Places(s[i])}
One(S) == \E x : S = {x}

(* The i-th of a finite set of numbers exists, and each of them is the     *)
(* i-th for one i.                                                         *)
LEMMA InTurn ==
    ASSUME NEW B \in SUBSET Int, IsFiniteSet(B)
    PROVE  /\ Cardinality(B) \in Nat
           /\ \A i \in 1 .. Cardinality(B) :
                Nth(B, i) \in B /\ Cardinality({c \in B : c < Nth(B, i)}) = i - 1
           /\ \A b \in B : \E i \in 1 .. Cardinality(B) :
                \A j \in 1 .. Cardinality(B) : Nth(B, j) = b <=> j = i
  <1> DEFINE I == 1 .. Cardinality(B)
             Less(b) == {c \in B : c < b}
             r == [b \in B |-> Cardinality(Less(b)) + 1]
  <1>1. Cardinality(B) \in Nat
    BY FS_CardinalityType
  <1>2. ASSUME NEW C \in SUBSET B, NEW D \in SUBSET B, C \subseteq D, C # D
        PROVE  /\ Cardinality(C) \in Nat /\ Cardinality(D) \in Nat
               /\ Cardinality(C) < Cardinality(D) /\ Cardinality(D) <= Cardinality(B)
    <2>1. IsFiniteSet(D) /\ IsFiniteSet(C) /\ Cardinality(D) <= Cardinality(B)
      BY FS_Subset
    <2>2. Cardinality(C) \in Nat /\ Cardinality(D) \in Nat
      BY <2>1, FS_CardinalityType
    <2>3. Cardinality(C) <= Cardinality(D) /\ (Cardinality(D) = Cardinality(C) => D = C)
      BY <1>2, <2>1, FS_Subset
    <2>4. QED
      BY <1>2, <2>1, <2>2, <2>3
  <1>3. ASSUME NEW b \in B PROVE Cardinality(Less(b)) + 1 \in I
    <2>1. Less(b) \subseteq B /\ B \subseteq B /\ Less(b) # B
      BY <1>3
    <2> HIDE DEF Less
    <2>2. Cardinality(Less(b)) \in Nat /\ Cardinality(Less(b)) < Cardinality(B)
      BY <1>2, <2>1
    <2>3. QED
      BY <1>1, <2>2
  <1>4. ASSUME NEW b \in B, NEW c \in B, b < c PROVE Cardinality(Less(b)) # Cardinality(Less(c))
    <2>1. Less(b) \subseteq B /\ Less(c) \subseteq B
      OBVIOUS
    <2>2. \A x \in B : x < b => x < c
      <3>1. \A x \in B : x \in Int
        OBVIOUS
      <3>2. QED
        BY <1>4, <3>1
    <2>3. Less(b) \subseteq Less(c) /\ b \in Less(c) /\ b \notin Less(b)
      <3>1. b \in Int /\ ~(b < b)
        OBVIOUS
      <3>2. QED
        BY <1>4, <2>2, <3>1
    <2> HIDE DEF Less
    <2>4. Cardinality(Less(b)) \in Nat /\ Cardinality(Less(b)) < Cardinality(Less(c))
          /\ Cardinality(Less(c)) \in Nat
      BY <1>2, <2>1, <2>3
    <2>5. QED
      BY <2>4
  <1>5. \A b, c \in B : Cardinality(Less(b)) = Cardinality(Less(c)) => b = c
    <2> SUFFICES ASSUME NEW b \in B, NEW c \in B, b # c
                 PROVE  Cardinality(Less(b)) # Cardinality(Less(c))
      OBVIOUS
    <2>1. b < c \/ c < b
      OBVIOUS
    <2>2. QED
      BY <1>4, <2>1
  <1>6. \A b \in B : Cardinality(Less(b)) \in Int
    BY <1>1, <1>2, FS_Subset, FS_CardinalityType
  <1> HIDE DEF Less
  <1>7. r \in [B -> I] /\ \A b, c \in B : r[b] = r[c] => b = c
    BY <1>3, <1>5, <1>6
  <1>8. r \in Surjection(B, I)
    <2>1. IsFiniteSet(I) /\ Cardinality(I) = Cardinality(B)
      BY <1>1, FS_Interval
    <2>2. r \in Injection(B, I)
      BY <1>7 DEF Injection, IsInjective
    <2> HIDE DEF r, I
    <2>3. QED
      BY <2>1, <2>2, FS_Injection
  <1>9. ASSUME NEW i \in I PROVE Nth(B, i) \in B /\ Cardinality(Less(Nth(B, i))) = i - 1
    <2>1. \E b \in B : r[b] = i
      BY <1>8 DEF Surjection
    <2>2. \E b \in B : Cardinality(Less(b)) = i - 1
      BY <1>1, <1>6, <2>1
    <2>3. QED
      BY <2>2 DEF Nth, Less
  <1>10. ASSUME NEW b \in B, NEW j \in I PROVE Nth(B, j) = b <=> j = Cardinality(Less(b)) + 1
    <2>1. Nth(B, j) \in B /\ Cardinality(Less(Nth(B, j))) = j - 1 /\ j \in Int
      BY <1>1, <1>9
    <2> DEFINE y == Nth(B, j)
    <2>2. Cardinality(Less(b)) \in Int
      BY <1>6
    <2>3. y = b => j = Cardinality(Less(b)) + 1
      <3>1. y = b => Cardinality(Less(b)) = j - 1
        BY <2>1
      <3>2. QED
        BY <2>1, <2>2, <3>1
    <2>4. j = Cardinality(Less(b)) + 1 => Cardinality(Less(y)) = Cardinality(Less(b))
      BY <2>1, <2>2
    <2>5. QED
      BY <1>5, <2>1, <2>3, <2>4
  <1>11. QED
    BY <1>1, <1>3, <1>9, <1>10 DEF Less

(* The tasks of some buckets are as many, and each has its places once.    *)
LEMMA Listed ==
    ASSUME NEW k, NEW o, NEW B \in SUBSET Bucket, \A b \in B : BucketTask(k, o, b) \in TaskType,
           NEW s, s = TasksOf(k, o, B)
    PROVE  /\ s \in Seq(TaskType)
           /\ \A i \in DOMAIN s : \E b \in B : s[i] = BucketTask(k, o, b)
           /\ \A p :
                /\ (\A b \in B : p \notin Places(BucketTask(k, o, b))) => Holders(s, p) = {}
                /\ \A b \in B :
                     /\ p \in Places(BucketTask(k, o, b))
                     /\ \A c \in B : p \in Places(BucketTask(k, o, c)) => c = b
                     => One(Holders(s, p))
  <1>1. B \in SUBSET Int /\ IsFiniteSet(B)
    <2>1. IsFiniteSet(Bucket) /\ Bucket \subseteq Int
      BY FS_Interval, TasksAssumption DEF TasksAssumption, Bucket
    <2>2. QED
      BY <2>1, FS_Subset
  <1> DEFINE I == 1 .. Cardinality(B)
  <1>2. /\ Cardinality(B) \in Nat
        /\ \A i \in I : Nth(B, i) \in B
        /\ \A b \in B : \E i \in I : \A j \in I : Nth(B, j) = b <=> j = i
    BY <1>1, InTurn
  <1>3. DOMAIN s = I /\ \A i \in I : s[i] = BucketTask(k, o, Nth(B, i))
    BY DEF TasksOf
  <1>4. s \in Seq(TaskType)
    <2>1. \A i \in I : s[i] \in TaskType
      BY <1>2, <1>3
    <2>2. s = [i \in I |-> s[i]]
      BY <1>3 DEF TasksOf
    <2>3. QED
      BY <1>2, <2>1, <2>2
  <1> HIDE DEF I
  <1>5. \A p : (\A b \in B : p \notin Places(BucketTask(k, o, b))) => Holders(s, p) = {}
    BY <1>2, <1>3 DEF Holders
  <1>6. ASSUME NEW p, NEW b \in B, p \in Places(BucketTask(k, o, b)),
               \A c \in B : p \in Places(BucketTask(k, o, c)) => c = b
        PROVE  One(Holders(s, p))
    <2>1. PICK i \in I : \A j \in I : Nth(B, j) = b <=> j = i
      BY <1>2
    <2>2. \A j \in I : p \in Places(s[j]) <=> j = i
      BY <1>2, <1>3, <1>6, <2>1
    <2>3. Holders(s, p) = {i}
      BY <1>3, <2>2 DEF Holders
    <2>4. QED
      BY <2>3 DEF One
  <1>7. QED
    BY <1>2, <1>3, <1>4, <1>5, <1>6

(* One list after the other.                                               *)
LEMMA Joined ==
    ASSUME NEW s \in Seq(TaskType), NEW r \in Seq(TaskType), NEW q, q = s \o r
    PROVE  /\ q \in Seq(TaskType)
           /\ \A p : /\ Holders(s, p) = {} /\ Holders(r, p) = {} => Holders(q, p) = {}
                     /\ One(Holders(s, p)) /\ Holders(r, p) = {} => One(Holders(q, p))
                     /\ Holders(s, p) = {} /\ One(Holders(r, p)) => One(Holders(q, p))
  <1>1. /\ q \in Seq(TaskType) /\ Len(q) = Len(s) + Len(r)
        /\ \A i \in 1 .. Len(s) + Len(r) : q[i] = IF i <= Len(s) THEN s[i] ELSE r[i - Len(s)]
    BY ConcatProperties
  <1> DEFINE l == Len(s)
             m == Len(r)
  <1>2. /\ DOMAIN s = 1 .. l /\ DOMAIN r = 1 .. m /\ DOMAIN q = 1 .. l + m /\ l \in Nat /\ m \in Nat
    BY <1>1
  <1>3. \A i \in 1 .. l : q[i] = s[i] /\ i \in 1 .. l + m
    BY <1>1, <1>2
  <1>4. \A i \in 1 .. m : q[l + i] = r[i] /\ l + i \in 1 .. l + m
    BY <1>1, <1>2
  <1> HIDE DEF l, m
  <1>5. \A i \in 1 .. l + m : i \in 1 .. l \/ \E j \in 1 .. m : i = l + j
    <2> SUFFICES ASSUME NEW i \in 1 .. l + m, i \notin 1 .. l PROVE \E j \in 1 .. m : i = l + j
      OBVIOUS
    <2>1. i - l \in 1 .. m /\ i = l + (i - l)
      BY <1>2
    <2>2. QED
      BY <2>1
  <1>6. \A p, x : x \in Holders(q, p) <=> x \in Holders(s, p) \/ \E j \in Holders(r, p) : x = l + j
    BY <1>2, <1>3, <1>4, <1>5 DEF Holders
  <1>7. ASSUME NEW p, One(Holders(s, p)), Holders(r, p) = {} PROVE One(Holders(q, p))
    BY <1>6, <1>7 DEF One
  <1>8. ASSUME NEW p, Holders(s, p) = {}, One(Holders(r, p)) PROVE One(Holders(q, p))
    <2>1. PICK j : Holders(r, p) = {j}
      BY <1>8 DEF One
    <2>2. Holders(q, p) = {l + j}
      BY <1>6, <1>8, <2>1
    <2>3. QED
      BY <2>2 DEF One
  <1>9. \A p : Holders(s, p) = {} /\ Holders(r, p) = {} => Holders(q, p) = {}
    BY <1>6
  <1>10. QED
    BY <1>1, <1>7, <1>8, <1>9

(* What holds of the tasks of both lists holds of all of them.             *)
LEMMA JoinedIn ==
    ASSUME NEW C, NEW s \in Seq(TaskType), NEW r \in Seq(TaskType),
           \A i \in DOMAIN s : s[i] \in C, \A i \in DOMAIN r : r[i] \in C,
           NEW q, q = s \o r, NEW i \in DOMAIN q
    PROVE  q[i] \in C
  <1>1. /\ q \in Seq(TaskType) /\ Len(q) = Len(s) + Len(r)
        /\ q[i] = IF i <= Len(s) THEN s[i] ELSE r[i - Len(s)]
    BY ConcatProperties
  <1>2. CASE i <= Len(s)
    BY <1>1, <1>2
  <1>3. CASE ~(i <= Len(s))
    <2>1. i - Len(s) \in DOMAIN r
      BY <1>1, <1>3
    <2>2. QED
      BY <1>1, <1>3, <2>1
  <1>4. QED
    BY <1>2, <1>3

(* Sorting a list moves its tasks about.                                   *)
LEMMA Moved ==
    ASSUME NEW s \in Seq(TaskType), NEW r \in LargerFirst(s), NEW p
    PROVE  /\ r \in Seq(TaskType)
           /\ Holders(s, p) = {} => Holders(r, p) = {}
           /\ One(Holders(s, p)) => One(Holders(r, p))
  <1>1. PICK f \in Bijection(DOMAIN s, DOMAIN s) : r = [i \in DOMAIN s |-> s[f[i]]]
    BY DEF LargerFirst, Shuffled
  <1>2. /\ f \in [DOMAIN s -> DOMAIN s]
        /\ \A i, j \in DOMAIN s : f[i] = f[j] => i = j
        /\ \A j \in DOMAIN s : \E i \in DOMAIN s : f[i] = j
    BY <1>1 DEF Bijection, Injection, Surjection, IsInjective
  <1>3. DOMAIN r = DOMAIN s /\ \A i \in DOMAIN s : r[i] = s[f[i]] /\ f[i] \in DOMAIN s
    BY <1>1, <1>2
  <1>4. r \in Seq(TaskType)
    <2>1. DOMAIN s = 1 .. Len(s) /\ Len(s) \in Nat /\ \A i \in DOMAIN s : s[i] \in TaskType
      BY SeqDef
    <2>2. QED
      BY <1>1, <1>3, <2>1
  <1>5. \A i : i \in Holders(r, p) <=> i \in DOMAIN s /\ f[i] \in Holders(s, p)
    BY <1>3 DEF Holders
  <1>6. ASSUME One(Holders(s, p)) PROVE One(Holders(r, p))
    <2>1. PICK j : Holders(s, p) = {j}
      BY <1>6 DEF One
    <2>2. j \in DOMAIN s
      BY <2>1 DEF Holders
    <2>3. PICK i \in DOMAIN s : f[i] = j
      BY <1>2, <2>2
    <2>4. Holders(r, p) = {i}
      BY <1>2, <1>5, <2>1, <2>3
    <2>5. QED
      BY <2>4 DEF One
  <1>7. Holders(s, p) = {} => Holders(r, p) = {}
    BY <1>5
  <1>8. QED
    BY <1>4, <1>6, <1>7

(* The top of the stack is taken off.                                      *)
LEMMA Popped ==
    ASSUME NEW s \in Seq(TaskType), s # <<>>
    PROVE  /\ Front(s) \in Seq(TaskType) /\ Len(s) \in DOMAIN s /\ Last(s) = s[Len(s)]
           /\ \A p : Holders(Front(s), p) = Holders(s, p) \ {Len(s)}
           /\ \A i \in DOMAIN Front(s) : i \in DOMAIN s /\ Front(s)[i] = s[i]
  <1>1. Len(s) \in Nat /\ Len(s) # 0 /\ DOMAIN s = 1 .. Len(s) /\ \A i \in DOMAIN s : s[i] \in TaskType
    BY EmptySeq
  <1> DEFINE m == Len(s) - 1
             r == SubSeq(s, 1, m)
  <1>2. /\ m \in Nat /\ 1 \in Int /\ 1 .. m \subseteq DOMAIN s /\ DOMAIN s = 1 .. m + 1
        /\ DOMAIN s = 1 .. m \cup {Len(s)} /\ Len(s) \notin 1 .. m
    BY <1>1
  <1>3. /\ r \in Seq(TaskType) /\ Len(r) = (IF 1 <= m THEN m - 1 + 1 ELSE 0)
        /\ \A i \in 1 .. m - 1 + 1 : r[i] = s[1 + i - 1]
    <2>1. \A i \in 1 .. m : s[i] \in TaskType
      BY <1>1, <1>2
    <2> HIDE DEF m
    <2>2. QED
      BY <1>2, <2>1, SubSeqProperties
  <1>4. DOMAIN r = 1 .. m /\ \A i \in 1 .. m : r[i] = s[i]
    <2>1. Len(r) = m /\ DOMAIN r = 1 .. Len(r)
      BY <1>2, <1>3
    <2>2. ASSUME NEW i \in 1 .. m PROVE i \in 1 .. m - 1 + 1 /\ s[1 + i - 1] = s[i]
      <3>1. i \in 1 .. m - 1 + 1 /\ 1 + i - 1 = i
        BY <1>2
      <3>2. QED
        BY <3>1
    <2> HIDE DEF r, m
    <2>3. QED
      BY <1>3, <2>1, <2>2
  <1>5. Front(s) = r /\ Last(s) = s[Len(s)]
    BY DEF Front, Last
  <1> HIDE DEF m, r
  <1>6. QED
    BY <1>2, <1>3, <1>4, <1>5 DEF Holders

(* The first of a finite set of numbers.                                   *)
LEMMA Least ==
    ASSUME NEW D \in SUBSET Int, IsFiniteSet(D), D # {}
    PROVE  \E m \in D : \A q \in D : m <= q
  <1>1. Cardinality(D) \in Nat /\ Cardinality(D) # 0
    BY FS_CardinalityType, FS_EmptySet
  <1> DEFINE m == Nth(D, 1)
             L == {q \in D : q < m}
  <1>2. m \in D /\ Cardinality(L) = 0
    <2>1. 1 \in 1 .. Cardinality(D)
      BY <1>1
    <2>2. QED
      BY <2>1, InTurn
  <1>3. L = {}
    <2>1. IsFiniteSet(L)
      BY FS_Subset
    <2> HIDE DEF L
    <2>2. QED
      BY <1>2, <2>1, FS_EmptySet
  <1>4. \A q \in D : ~(q < m)
    BY <1>3
  <1>5. m \in Int /\ \A q \in D : q \in Int
    BY <1>2
  <1> HIDE DEF m
  <1>6. \A q \in D : m <= q
    BY <1>4, <1>5
  <1>7. QED
    BY <1>2, <1>6

(* Borders that do not fall from one to the next do not fall at all.       *)
LEMMA Rising ==
    ASSUME NEW f \in [0 .. NumBuckets -> Int], \A b \in Bucket : f[b] <= f[b + 1]
    PROVE  \A b, c \in 0 .. NumBuckets : b <= c => f[b] <= f[c]
  <1> SUFFICES ASSUME NEW b \in 0 .. NumBuckets, NEW c \in 0 .. NumBuckets, b <= c, ~(f[b] <= f[c])
               PROVE  FALSE
    OBVIOUS
  <1>1. NumBuckets \in Nat
    BY TasksAssumption DEF TasksAssumption
  <1> DEFINE D == {d \in 0 .. NumBuckets : b <= d /\ ~(f[b] <= f[d])}
  <1>2. D \in SUBSET Int /\ IsFiniteSet(D) /\ D # {}
    <2>1. IsFiniteSet(0 .. NumBuckets)
      BY <1>1, FS_Interval
    <2>2. D \subseteq 0 .. NumBuckets /\ c \in D
      OBVIOUS
    <2>3. IsFiniteSet(D)
      BY <2>1, <2>2, FS_Subset
    <2>4. QED
      BY <1>1, <2>2, <2>3
  <1>3. PICK m \in D : \A q \in D : m <= q
    BY <1>2, Least
  <1>4. m \in 0 .. NumBuckets /\ b <= m /\ ~(f[b] <= f[m]) /\ m \in Int /\ b \in Int
    BY <1>1, <1>3
  <1>5. m # b
    <2>1. f[b] \in Int
      OBVIOUS
    <2>2. f[b] <= f[b]
      BY <2>1
    <2>3. QED
      BY <1>4, <2>2
  <1>6. m - 1 \in 0 .. NumBuckets /\ b <= m - 1 /\ m - 1 \in Bucket /\ (m - 1) + 1 = m
    BY <1>1, <1>4, <1>5 DEF Bucket
  <1>7. f[m - 1] <= f[m]
    BY <1>6
  <1>8. f[b] <= f[m - 1]
    <2>1. ~(m <= m - 1)
      BY <1>4
    <2>2. m - 1 \notin D
      BY <1>3, <2>1
    <2>3. QED
      BY <1>6, <2>2
  <1>9. f[m - 1] \in Int /\ f[m] \in Int /\ f[b] \in Int
    BY <1>4, <1>6
  <1>10. QED
    BY <1>4, <1>7, <1>8, <1>9

(* A partitioning step divides its task: every place of it comes to one    *)
(* bucket.                                                                 *)
LEMMA Divides ==
    ASSUME NEW k \in TaskType, k.begin <= k.end, NEW o \in Outcomes(k)
    PROVE  /\ \A b \in Bucket :
                /\ BucketTask(k, o, b) \in TaskType
                /\ Size(BucketTask(k, o, b)) = BucketSize(o, b)
                /\ BucketTask(k, o, b).begin <= BucketTask(k, o, b).end
                /\ BucketTask(k, o, b).end <= k.end
                /\ Places(BucketTask(k, o, b)) \subseteq Places(k)
           /\ \A p \in Places(k) : \E b \in Bucket :
                /\ p \in Places(BucketTask(k, o, b))
                /\ \A c \in Bucket : p \in Places(BucketTask(k, o, c)) => c = b
  <1> DEFINE f == o.start
             S(b) == k.begin + f[b]
  <1>1. /\ k.begin \in Nat /\ k.end \in Nat /\ Size(k) = k.end - k.begin /\ Size(k) \in Nat
        /\ NumBuckets \in Nat /\ NumBuckets > 0
    BY TasksAssumption DEF TasksAssumption, TaskType, Size
  <1>2. /\ f \in [0 .. NumBuckets -> 0 .. Size(k)] /\ f[0] = 0 /\ f[NumBuckets] = Size(k)
        /\ \A b \in Bucket : f[b] <= f[b + 1]
    BY DEF Outcomes
  <1>3. \A b \in 0 .. NumBuckets : f[b] \in Int /\ 0 <= f[b] /\ f[b] <= Size(k)
    BY <1>1, <1>2
  <1>4. \A b, c \in 0 .. NumBuckets : b <= c => f[b] <= f[c]
    <2>1. f \in [0 .. NumBuckets -> Int]
      BY <1>1, <1>2
    <2> HIDE DEF f
    <2>2. QED
      BY <1>2, <2>1, Rising
  <1>5. \A b \in Bucket : b \in 0 .. NumBuckets /\ b + 1 \in 0 .. NumBuckets /\ b \in Int
    BY <1>1 DEF Bucket
  <1>6. \A b \in Bucket : /\ BucketTask(k, o, b) = [begin |-> S(b), end |-> S(b + 1)]
                          /\ BucketSize(o, b) = f[b + 1] - f[b]
                          /\ Places(BucketTask(k, o, b)) = S(b) .. S(b + 1) - 1
    BY DEF BucketTask, BucketSize, Places
  <1> HIDE DEF f
  <1>7. ASSUME NEW b \in Bucket
        PROVE  /\ BucketTask(k, o, b) \in TaskType
               /\ Size(BucketTask(k, o, b)) = BucketSize(o, b)
               /\ BucketTask(k, o, b).begin <= BucketTask(k, o, b).end
               /\ BucketTask(k, o, b).end <= k.end
               /\ Places(BucketTask(k, o, b)) \subseteq Places(k)
    <2>1. /\ f[b] \in Int /\ 0 <= f[b] /\ f[b + 1] \in Int /\ f[b + 1] <= Size(k) /\ f[b] <= f[b + 1]
      BY <1>2, <1>3, <1>5
    <2>2. /\ S(b) \in Nat /\ S(b + 1) \in Nat /\ k.begin <= S(b) /\ S(b) <= S(b + 1)
          /\ S(b + 1) <= k.end /\ S(b + 1) - S(b) = f[b + 1] - f[b]
      BY <1>1, <2>1
    <2> HIDE DEF S
    <2>3. /\ BucketTask(k, o, b) = [begin |-> S(b), end |-> S(b + 1)]
          /\ BucketSize(o, b) = f[b + 1] - f[b]
          /\ Places(BucketTask(k, o, b)) = S(b) .. S(b + 1) - 1
      BY <1>6
    <2>4. S(b) .. S(b + 1) - 1 \subseteq k.begin .. k.end - 1
      BY <1>1, <2>2
    <2>5. QED
      BY <2>2, <2>3, <2>4 DEF TaskType, Size, Places
  <1>8. ASSUME NEW p \in Places(k)
        PROVE  \E b \in Bucket : /\ p \in Places(BucketTask(k, o, b))
                                 /\ \A c \in Bucket : p \in Places(BucketTask(k, o, c)) => c = b
    <2> DEFINE x == p - k.begin
               D == {d \in 0 .. NumBuckets : x < f[d]}
    <2>1. p \in Int /\ x \in Int /\ 0 <= x /\ x < Size(k) /\ p = k.begin + x
      BY <1>1 DEF Places
    <2>2. D \in SUBSET Int /\ IsFiniteSet(D) /\ NumBuckets \in D
      <3>1. IsFiniteSet(0 .. NumBuckets) /\ NumBuckets \in 0 .. NumBuckets
        BY <1>1, FS_Interval
      <3>2. D \subseteq 0 .. NumBuckets /\ NumBuckets \in D
        BY <1>2, <2>1, <3>1
      <3>3. IsFiniteSet(D)
        BY <3>1, <3>2, FS_Subset
      <3>4. QED
        BY <1>1, <3>2, <3>3
    <2>3. PICK m \in D : \A q \in D : m <= q
      BY <2>2, Least
    <2> HIDE DEF x
    <2>4. m \in 0 .. NumBuckets /\ x < f[m] /\ m \in Int /\ m # 0
      BY <1>1, <1>2, <2>1, <2>3
    <2> DEFINE b == m - 1
    <2>5. b \in Bucket /\ b \in 0 .. NumBuckets /\ b + 1 = m /\ b \in Int
      BY <1>1, <2>4 DEF Bucket
    <2>6. f[b] <= x
      <3>1. ~(m <= b)
        BY <2>4
      <3>2. b \notin D
        BY <2>3, <3>1
      <3>3. QED
        BY <1>3, <2>1, <2>5, <3>2
    <2> HIDE DEF b
    <2>7. \A c \in Bucket : p \in Places(BucketTask(k, o, c)) <=> f[c] <= x /\ x < f[c + 1]
      <3> SUFFICES ASSUME NEW c \in Bucket
                   PROVE  p \in Places(BucketTask(k, o, c)) <=> f[c] <= x /\ x < f[c + 1]
        OBVIOUS
      <3>1. /\ f[c] \in Int /\ f[c + 1] \in Int /\ k.begin \in Int
            /\ S(c) = k.begin + f[c] /\ S(c + 1) = k.begin + f[c + 1]
        BY <1>1, <1>3, <1>5
      <3>2. Places(BucketTask(k, o, c)) = S(c) .. S(c + 1) - 1
        BY <1>6
      <3> HIDE DEF S
      <3>3. p \in S(c) .. S(c + 1) - 1 <=> f[c] <= x /\ x < f[c + 1]
        BY <2>1, <3>1
      <3>4. QED
        BY <3>2, <3>3
    <2>8. ASSUME NEW c \in Bucket, f[c] <= x, x < f[c + 1] PROVE c = b
      <3>1. /\ c \in 0 .. NumBuckets /\ c + 1 \in 0 .. NumBuckets /\ c \in Int
            /\ f[c] \in Int /\ f[c + 1] \in Int /\ f[b] \in Int /\ f[b + 1] \in Int
            /\ b + 1 \in 0 .. NumBuckets
        BY <1>3, <1>5, <2>5
      <3>2. ~(c + 1 <= b)
        <4>1. c + 1 <= b => f[c + 1] <= f[b]
          BY <1>4, <2>5, <3>1
        <4>2. QED
          BY <2>1, <2>6, <2>8, <3>1, <4>1
      <3>3. ~(b + 1 <= c)
        <4>1. b + 1 <= c => f[b + 1] <= f[c]
          BY <1>4, <2>5, <3>1
        <4>2. QED
          BY <2>1, <2>4, <2>5, <2>8, <3>1, <4>1
      <3>4. QED
        BY <2>5, <3>1, <3>2, <3>3
    <2>9. QED
      BY <2>4, <2>5, <2>6, <2>7, <2>8
  <1>9. QED
    BY <1>7, <1>8

(* What writeMargins puts in order lies in the task.                       *)
LEMMA OrderedInside ==
    ASSUME NEW k \in TaskType, k.begin <= k.end, NEW o \in Outcomes(k)
    PROVE  InOrder(k, o) \subseteq Places(k)
  BY Divides DEF InOrder

-----------------------------------------------------------------------------
(* The places and who has them. *)

(* The constants are such that writeMargins sorts no bucket that is large  *)
(* enough to be queued as a big task.                                      *)
SortedIsSmall ==
    2 * kBaseCaseSize <= LargerOf(kSingleLevelThreshold \div NumThreads,
                                  NumThreads * kMinParallelBlocksPerThread * kBlockSize)

(* The small tasks with place p that are still to be fetched or sorted.    *)
SmallHolders(p) ==
    {i \in DOMAIN smallTasks :
        /\ p \in Places(smallTasks[i])
        /\ pc[0] # "start"
        /\ \/ i - 1 >= smallTaskIndex
           \/ \E t \in Thread : pc[t] = "sort" /\ index[t] = i - 1}

(* Place p is in order, or in one big task, or in one small task.          *)
Once(p) ==
    \/ final[p] = 1 /\ Holders(bigTasks, p) = {} /\ SmallHolders(p) = {}
    \/ final[p] = 0 /\ One(Holders(bigTasks, p)) /\ SmallHolders(p) = {}
    \/ final[p] = 0 /\ Holders(bigTasks, p) = {} /\ One(SmallHolders(p))

Sized ==
    /\ n \in Nat /\ smallTaskIndex \in Nat
    /\ bigTasks \in Seq(TaskType) /\ smallTasks \in Seq(TaskType)
    /\ index \in [Thread -> Nat] /\ task \in [Thread -> TaskType]
    /\ DOMAIN final = 0 .. n - 1
    /\ \A i \in DOMAIN bigTasks : bigTasks[i].begin <= bigTasks[i].end /\ bigTasks[i].end <= n

(* The index starts anew with each sort; who sorts has a task for itself,  *)
(* and nobody stops before all tasks are taken.                            *)
Indices ==
    /\ pc[0] # "start" /\ (bigTasks # <<>> \/ pc[0] \in {"queue", "meet"}) => smallTaskIndex = 0
    /\ \A t \in Thread : pc[t] = "sort" => index[t] < smallTaskIndex /\ index[t] < Len(smallTasks)
    /\ \A t, u \in Thread : pc[t] = "sort" /\ pc[u] = "sort" /\ index[t] = index[u] => t = u
    /\ (\E t \in Thread : pc[t] = "idle") => smallTaskIndex >= Len(smallTasks)

(* While the primary queues the buckets of a task, the task is still on    *)
(* the stack, and what of it is in order is so by the step itself.         *)
Dividing ==
    LET k == task[0]
    IN  /\ bigTasks # <<>> /\ k = Last(bigTasks) /\ outcome \in Outcomes(k)
        /\ \A p \in 0 .. n - 1 :
             IF p \in Places(k)
             THEN /\ Holders(bigTasks, p) = {Len(bigTasks)} /\ SmallHolders(p) = {}
                  /\ final[p] = IF p \in InOrder(k, outcome) THEN 1 ELSE 0
             ELSE Once(p)

Accounts == IF pc[0] = "queue" THEN Dividing ELSE \A p \in 0 .. n - 1 : Once(p)

AInv == IInv /\ Sized /\ Indices /\ Accounts

-----------------------------------------------------------------------------
(* Nobody sorts small tasks unless all big ones are done.                  *)
LEMMA Apart ==
    ASSUME IInv
    PROVE  /\ pc[0] \in {"start", "loop", "partition"} => Reading
           /\ pc[0] \in {"queue", "meet"} => Queueing
           /\ Reading \/ Queueing => \A t \in Thread : pc[t] \notin {"fetch", "sort", "idle"}
           /\ (\E t \in Thread : pc[t] \in {"fetch", "sort", "idle"}) => Sharing
           /\ pc \in [Thread -> Locations] /\ 0 \in Thread
  BY Threads DEF IInv, Reading, Reads, Queueing, Sharing

(* Small tasks that are held stay held by who holds them.                  *)
LEMMA SameSmall ==
    ASSUME UNCHANGED <<smallTasks, smallTaskIndex, index>>, pc'[0] = "start" <=> pc[0] = "start",
           \A t \in Thread : pc'[t] = "sort" <=> pc[t] = "sort"
    PROVE  \A p : SmallHolders(p)' = SmallHolders(p)
  BY DEF SmallHolders, Thread

(* A step that leaves the tasks alone.                                     *)
LEMMA QuietStep ==
    ASSUME AInv, UNCHANGED <<n, bigTasks, smallTasks, smallTaskIndex, final, index>>,
           task' \in [Thread -> TaskType], IInv', pc[0] # "queue", pc'[0] # "queue",
           pc'[0] = "start" <=> pc[0] = "start",
           pc'[0] = "meet" => pc[0] = "meet",
           \A t \in Thread : pc'[t] = "sort" <=> pc[t] = "sort",
           \A t \in Thread : pc'[t] = "idle" => pc[t] = "idle"
    PROVE  AInv'
  <1>1. \A p : SmallHolders(p)' = SmallHolders(p) /\ Holders(bigTasks, p)' = Holders(bigTasks, p)
    BY SameSmall
  <1>2. \A p \in 0 .. n - 1 : Once(p)'
    BY <1>1 DEF AInv, Accounts, Once
  <1>3. Sized'
    BY DEF AInv, Sized, Thread
  <1>4. Indices'
    BY DEF AInv, Indices, Thread
  <1>5. QED
    BY <1>2, <1>3, <1>4 DEF AInv, Accounts

(* Before the first sort there is nothing to account for.                  *)
LEMMA InitAInv == Init => AInv
  <1> SUFFICES ASSUME Init PROVE AInv
    OBVIOUS
  <1>1. IInv
    BY InitIInv
  <1>2. Sized
    <2>1. NoTask \in TaskType
      BY DEF NoTask, TaskType
    <2>2. DOMAIN final = 0 .. n - 1
      BY DEF Init
    <2>3. /\ bigTasks = <<>> /\ bigTasks \in Seq(TaskType) /\ smallTasks \in Seq(TaskType)
          /\ DOMAIN bigTasks = {} /\ n \in Nat /\ smallTaskIndex \in Nat
          /\ index \in [Thread -> Nat] /\ task \in [Thread -> TaskType]
      BY <2>1 DEF Init
    <2>4. QED
      BY <2>2, <2>3 DEF Sized
  <1>3. Indices
    BY Threads DEF Init, Indices
  <1>4. Accounts
    <2>1. 0 .. n - 1 = {} /\ pc[0] # "queue"
      BY Threads DEF Init
    <2>2. QED
      BY <2>1 DEF Accounts
  <1>5. QED
    BY <1>1, <1>2, <1>3, <1>4 DEF AInv

(* A sort begins with one task for all of the array, or with all of it in  *)
(* order; small tasks of the sort before are all done.                     *)
LEMMA SortAInv ==
    ASSUME AInv, IInv', NEW size \in Sizes, Sort(size)
    PROVE  AInv'
  <1>1. /\ \A t \in Thread : pc[t] = "idle"
        /\ n' = size /\ UNCHANGED <<smallTasks, smallTaskIndex, outcome, task, index>>
        /\ size \in Nat /\ 0 \in Thread /\ Thread' = Thread
    BY Threads, TasksAssumption DEF TasksAssumption, Sort, Thread
  <1>2. Sharing /\ bigTasks = <<>>
    BY <1>1, Apart DEF AInv, Sharing
  <1>3. smallTaskIndex >= Len(smallTasks) /\ smallTasks \in Seq(TaskType) /\ smallTaskIndex \in Nat
    BY <1>1 DEF AInv, Indices, Sized
  <1>4. CASE InParallel(size)
    <2> DEFINE k == [begin |-> 0, end |-> size]
    <2>1. /\ bigTasks' = <<k>> /\ final' = [p \in 0 .. size - 1 |-> 0]
          /\ pc' = [t \in Thread |-> IF t = 0 THEN "start" ELSE "loop"]
      BY <1>2, <1>4 DEF Sort
    <2>2. k \in TaskType /\ k.begin <= k.end /\ k.end <= size
      BY <1>1 DEF TaskType
    <2>3. bigTasks' \in Seq(TaskType) /\ DOMAIN bigTasks' = {1} /\ bigTasks'[1] = k
      BY <2>1, <2>2
    <2>4. Places(k) = 0 .. size - 1
      BY DEF Places
    <2> HIDE DEF k
    <2>5. Sized'
      BY <1>1, <2>1, <2>2, <2>3 DEF AInv, Sized
    <2>6. Indices'
      BY <1>1, <2>1 DEF Indices
    <2>7. ASSUME NEW p \in 0 .. size - 1 PROVE Once(p)'
      <3>1. Holders(bigTasks', p) = {1}
        BY <2>3, <2>4 DEF Holders
      <3>2. SmallHolders(p)' = {}
        BY <1>1, <2>1 DEF SmallHolders
      <3>3. QED
        BY <2>1, <3>1, <3>2 DEF Once, One
    <2>8. QED
      BY <1>1, <2>1, <2>5, <2>6, <2>7 DEF AInv, Accounts
  <1>5. CASE ~InParallel(size)
    <2>1. /\ bigTasks' = bigTasks /\ pc' = pc /\ final' = [p \in 0 .. size - 1 |-> 1]
      BY <1>5 DEF Sort
    <2>2. DOMAIN bigTasks = {} /\ bigTasks \in Seq(TaskType)
      BY <1>2
    <2>3. Sized'
      BY <1>1, <2>1, <2>2 DEF AInv, Sized
    <2>4. Indices'
      BY <1>1, <2>1 DEF AInv, Indices
    <2>5. ASSUME NEW p \in 0 .. size - 1 PROVE Once(p)'
      <3>1. Holders(bigTasks', p) = {}
        BY <2>1, <2>2 DEF Holders
      <3>2. SmallHolders(p)' = {}
        <4>1. \A i \in DOMAIN smallTasks : ~(i - 1 >= smallTaskIndex)
          BY <1>3
        <4>2. QED
          BY <1>1, <2>1, <4>1 DEF SmallHolders
      <3>3. QED
        BY <2>1, <3>1, <3>2 DEF Once
    <2>6. QED
      BY <1>1, <2>1, <2>3, <2>4, <2>5 DEF AInv, Accounts
  <1>6. QED
    BY <1>4, <1>5

(* The primary forgets the small tasks of the sort before.                 *)
LEMMA StartAInv ==
    ASSUME AInv, IInv', Start
    PROVE  AInv'
  <1>1. /\ pc[0] = "start" /\ smallTasks' = <<>> /\ smallTaskIndex' = 0 /\ pc' = [pc EXCEPT ![0] = "loop"]
        /\ UNCHANGED <<n, bigTasks, outcome, task, index, final>> /\ Thread' = Thread
    BY DEF Start, Goto, Thread
  <1>2. Reading /\ pc \in [Thread -> Locations] /\ 0 \in Thread
        /\ \A t \in Thread : pc[t] \notin {"sort", "idle"}
    BY <1>1, Apart DEF AInv
  <1>3. pc'[0] = "loop" /\ \A t \in Thread : pc'[t] \notin {"sort", "idle"}
    BY <1>1, <1>2
  <1>4. smallTasks' \in Seq(TaskType) /\ DOMAIN smallTasks' = {}
    BY <1>1
  <1>5. Sized'
    BY <1>1, <1>4 DEF AInv, Sized
  <1>6. Indices'
    BY <1>1, <1>3 DEF Indices
  <1>7. ASSUME NEW p \in 0 .. n - 1 PROVE Once(p)'
    <2>1. SmallHolders(p) = {} /\ SmallHolders(p)' = {}
      BY <1>1, <1>4 DEF SmallHolders
    <2>2. Once(p)
      BY <1>1 DEF AInv, Accounts
    <2>3. Holders(bigTasks', p) = Holders(bigTasks, p)
      BY <1>1
    <2>4. QED
      BY <1>1, <2>1, <2>2, <2>3 DEF Once, One
  <1>8. QED
    BY <1>1, <1>3, <1>5, <1>6, <1>7 DEF AInv, Accounts

(* All threads together put places in order that no small task has.        *)
LEMMA PartitionAInv ==
    ASSUME AInv, IInv', Partition
    PROVE  AInv'
  <1> DEFINE k == task[0]
  <1>1. /\ \A t \in Thread : pc[t] = "partition"
        /\ pc' = [t \in Thread |-> IF t = 0 THEN "queue" ELSE "meet"]
        /\ UNCHANGED <<n, bigTasks, smallTasks, smallTaskIndex, task, index>> /\ Thread' = Thread
    BY DEF Partition, Thread
  <1>2. PICK o \in Outcomes(k) : outcome' = o /\ final' = Ordered(InOrder(k, o))
    BY DEF Partition
  <1>3. 0 \in Thread /\ pc[0] = "partition" /\ Reading
    BY <1>1, Apart DEF AInv
  <1>4. bigTasks # <<>> /\ k = Last(bigTasks)
    BY <1>1, <1>3 DEF Reading, Reads
  <1>5. /\ bigTasks \in Seq(TaskType) /\ Len(bigTasks) \in DOMAIN bigTasks
        /\ k = bigTasks[Len(bigTasks)]
    BY <1>4, Popped DEF AInv, Sized
  <1>6. k \in TaskType /\ k.begin <= k.end
    BY <1>5 DEF AInv, Sized
  <1>7. InOrder(k, o) \subseteq Places(k)
    BY <1>6, OrderedInside
  <1>8. Sized'
    BY <1>1, <1>2 DEF AInv, Sized, Ordered
  <1>9. Indices'
    <2>1. pc'[0] = "queue" /\ \A t \in Thread : pc'[t] \notin {"sort", "idle"}
      BY <1>1, <1>3
    <2>2. smallTaskIndex = 0
      BY <1>3, <1>4 DEF AInv, Indices
    <2>3. QED
      BY <1>1, <2>1, <2>2 DEF Indices
  <1>10. \A p : SmallHolders(p)' = SmallHolders(p)
    BY <1>1, <1>3, SameSmall
  <1>11. ASSUME NEW p \in 0 .. n - 1
         PROVE  IF p \in Places(k)
                THEN /\ Holders(bigTasks, p) = {Len(bigTasks)} /\ SmallHolders(p)' = {}
                     /\ final'[p] = IF p \in InOrder(k, o) THEN 1 ELSE 0
                ELSE Once(p)'
    <2>1. Once(p) /\ p \in DOMAIN final
      BY <1>3 DEF AInv, Accounts, Sized
    <2>2. final'[p] = IF p \in InOrder(k, o) THEN IF final[p] = 0 THEN 1 ELSE 2 ELSE final[p]
      BY <1>2, <2>1 DEF Ordered
    <2>3. CASE p \in Places(k)
      <3>1. Len(bigTasks) \in Holders(bigTasks, p)
        BY <1>5, <2>3 DEF Holders
      <3>2. final[p] = 0 /\ One(Holders(bigTasks, p)) /\ SmallHolders(p) = {}
        BY <2>1, <3>1 DEF Once
      <3>3. Holders(bigTasks, p) = {Len(bigTasks)}
        BY <3>1, <3>2 DEF One
      <3>4. QED
        BY <1>10, <2>2, <2>3, <3>2, <3>3
    <2>4. CASE p \notin Places(k)
      <3>1. final'[p] = final[p]
        BY <1>7, <2>2, <2>4
      <3>2. Holders(bigTasks', p) = Holders(bigTasks, p)
        BY <1>1
      <3>3. QED
        BY <1>10, <2>1, <2>4, <3>1, <3>2 DEF Once
    <2>5. QED
      BY <2>3, <2>4
  <1>12. Dividing'
    BY <1>1, <1>2, <1>4, <1>11 DEF Dividing
  <1>13. QED
    BY <1>1, <1>3, <1>8, <1>9, <1>12 DEF AInv, Accounts

(* A larger number does not become smaller by division.                    *)
LEMMA DivisionRises ==
    ASSUME NEW x \in Nat, NEW y \in Nat, NEW d \in Nat \ {0}, x <= y
    PROVE  /\ x \div d \in Int /\ y \div d \in Int
           /\ x \div d <= y \div d
  <1> DEFINE q == x \div d
             r == y \div d
  <1>1. q \in Int /\ r \in Int /\ d * q <= x /\ y < d * (r + 1)
    OBVIOUS
  <1> HIDE DEF q, r
  <1>2. ~(q >= r + 1)
    <2>1. q >= r + 1 => d * (r + 1) <= d * q
      BY <1>1
    <2>2. QED
      BY <1>1, <2>1
  <1>3. QED
    BY <1>1, <1>2 DEF q, r

(* What writeMargins sorts of a task that is not the last level is not     *)
(* larger than any big task.                                               *)
LEMMA SortedNotBig ==
    ASSUME SortedIsSmall, n \in Nat, NEW k \in TaskType, k.end <= n, ~LastLevel(k)
    PROVE  maxSequentialSize \in Int /\ 2 * kBaseCaseSize <= maxSequentialSize
  <1>1. /\ NumThreads \in Nat \ {0} /\ kSingleLevelThreshold \in Nat /\ kBaseCaseSize \in Nat
        /\ NumThreads * kMinParallelBlocksPerThread * kBlockSize \in Nat
    BY TasksAssumption DEF TasksAssumption
  <1>2. kSingleLevelThreshold <= n
    BY <1>1 DEF LastLevel, Size, TaskType
  <1>3. /\ kSingleLevelThreshold \div NumThreads \in Int /\ n \div NumThreads \in Int
        /\ kSingleLevelThreshold \div NumThreads <= n \div NumThreads
    BY <1>1, <1>2, DivisionRises
  <1> DEFINE q == kSingleLevelThreshold \div NumThreads
             r == n \div NumThreads
             m == NumThreads * kMinParallelBlocksPerThread * kBlockSize
             c == 2 * kBaseCaseSize
  <1>4. q \in Int /\ r \in Int /\ m \in Int /\ c \in Int /\ q <= r
    BY <1>1, <1>3
  <1>5. c <= LargerOf(q, m) /\ maxSequentialSize = LargerOf(r, m)
    BY DEF SortedIsSmall, maxSequentialSize
  <1> HIDE DEF q, r, m, c
  <1>6. LargerOf(r, m) \in Int /\ c <= LargerOf(r, m)
    BY <1>4, <1>5 DEF LargerOf
  <1>7. QED
    BY <1>5, <1>6 DEF c

(* The primary takes the task off the stack, and each bucket of it that    *)
(* is not in order comes to one of the two lists.                          *)
LEMMA QueueAInv ==
    ASSUME SortedIsSmall, AInv, IInv', Queue
    PROVE  AInv'
  <1> DEFINE k == task[0]
             o == outcome
             T(b) == BucketTask(k, o, b)
             new == Subtasks(k, o)
             BB == {b \in new : IsBig(T(b))}
             SB == {b \in new : IsSmall(T(b))}
             TB == TasksOf(k, o, BB)
             TS == TasksOf(k, o, SB)
             front == Front(bigTasks)
             small == smallTasks \o TS
  <1>1. /\ pc[0] = "queue" /\ pc' = [pc EXCEPT ![0] = "meet"]
        /\ bigTasks' = front \o TB
        /\ smallTasks' \in LargerFirst(small) \/ smallTasks' = small
        /\ UNCHANGED <<n, smallTaskIndex, task, index, final>> /\ Thread' = Thread
    BY DEF Queue, Goto, Thread
  <1>2. Queueing /\ pc \in [Thread -> Locations] /\ 0 \in Thread
        /\ \A t \in Thread : pc[t] \notin {"sort", "idle"}
    BY <1>1, Apart DEF AInv
  <1>3. pc'[0] = "meet" /\ \A t \in Thread : pc'[t] \notin {"sort", "idle"}
    BY <1>1, <1>2
  <1>4. /\ bigTasks # <<>> /\ k = Last(bigTasks) /\ o \in Outcomes(k)
        /\ \A p \in 0 .. n - 1 :
             IF p \in Places(k)
             THEN /\ Holders(bigTasks, p) = {Len(bigTasks)} /\ SmallHolders(p) = {}
                  /\ final[p] = IF p \in InOrder(k, o) THEN 1 ELSE 0
             ELSE Once(p)
    BY <1>1 DEF AInv, Accounts, Dividing
  <1>5. /\ n \in Nat /\ smallTaskIndex = 0
        /\ bigTasks \in Seq(TaskType) /\ smallTasks \in Seq(TaskType)
        /\ \A i \in DOMAIN bigTasks : bigTasks[i].begin <= bigTasks[i].end /\ bigTasks[i].end <= n
    BY <1>1 DEF AInv, Sized, Indices
  <1>6. /\ front \in Seq(TaskType) /\ Len(bigTasks) \in DOMAIN bigTasks /\ k = bigTasks[Len(bigTasks)]
        /\ \A p : Holders(front, p) = Holders(bigTasks, p) \ {Len(bigTasks)}
        /\ \A i \in DOMAIN front : i \in DOMAIN bigTasks /\ front[i] = bigTasks[i]
    BY <1>4, <1>5, Popped
  <1>7. k \in TaskType /\ k.begin <= k.end /\ k.end <= n
    BY <1>5, <1>6
  <1>8. /\ \A b \in Bucket : /\ T(b) \in TaskType /\ Size(T(b)) = BucketSize(o, b)
                             /\ T(b).begin <= T(b).end /\ T(b).end <= k.end
                             /\ Places(T(b)) \subseteq Places(k)
        /\ \A p \in Places(k) : \E b \in Bucket :
              /\ p \in Places(T(b))
              /\ \A c \in Bucket : p \in Places(T(c)) => c = b
    BY <1>4, <1>7, Divides
  <1>9. new \subseteq Bucket /\ BB \in SUBSET Bucket /\ SB \in SUBSET Bucket
    BY DEF Subtasks, Queueable
  <1>10. ASSUME NEW B \in SUBSET Bucket, NEW s, s = TasksOf(k, o, B)
         PROVE  /\ s \in Seq(TaskType)
                /\ \A i \in DOMAIN s : \E b \in B : s[i] = T(b)
                /\ \A p : /\ (\A b \in B : p \notin Places(T(b))) => Holders(s, p) = {}
                          /\ \A b \in B :
                               /\ p \in Places(T(b))
                               /\ \A c \in B : p \in Places(T(c)) => c = b
                               => One(Holders(s, p))
    <2>1. \A b \in B : BucketTask(k, o, b) \in TaskType
      BY <1>8
    <2> HIDE DEF k, o
    <2>2. QED
      BY <1>10, <2>1, Listed
  <1> HIDE DEF TB, TS, front, small
  <1>11. TB \in Seq(TaskType) /\ TS \in Seq(TaskType) /\ small \in Seq(TaskType)
    <2>1. TB \in Seq(TaskType) /\ TS \in Seq(TaskType)
      BY <1>9, <1>10 DEF TB, TS
    <2>2. QED
      BY <1>5, <2>1, Joined DEF small
  <1>12. smallTasks' \in Seq(TaskType)
    BY <1>1, <1>11, Moved
  <1>13. /\ bigTasks' \in Seq(TaskType)
         /\ \A i \in DOMAIN bigTasks' : bigTasks'[i].begin <= bigTasks'[i].end /\ bigTasks'[i].end <= n
    <2> DEFINE C == {c \in TaskType : c.begin <= c.end /\ c.end <= n}
    <2>1. \A i \in DOMAIN front : front[i] \in C
      BY <1>5, <1>6
    <2>2. \A b \in Bucket : T(b) \in C
      BY <1>5, <1>7, <1>8 DEF TaskType
    <2>3. \A i \in DOMAIN TB : TB[i] \in C
      <3> HIDE DEF T, BB, C, k, o
      <3>1. \A i \in DOMAIN TB : \E b \in BB : TB[i] = T(b)
        BY <1>9, <1>10 DEF TB
      <3>2. QED
        BY <1>9, <2>2, <3>1
    <2> HIDE DEF C
    <2>4. bigTasks' \in Seq(TaskType)
      BY <1>1, <1>6, <1>11, Joined
    <2>5. \A i \in DOMAIN bigTasks' : bigTasks'[i] \in C
      BY <1>1, <1>6, <1>11, <2>1, <2>3, JoinedIn
    <2>6. QED
      BY <2>4, <2>5 DEF C
  <1>14. Sized'
    BY <1>1, <1>12, <1>13 DEF AInv, Sized
  <1>15. Indices'
    BY <1>1, <1>3, <1>5 DEF Indices
  <1>16. \A p : /\ SmallHolders(p) = Holders(smallTasks, p)
                /\ SmallHolders(p)' = Holders(smallTasks', p)
    <2>1. /\ \A i \in DOMAIN smallTasks : i - 1 >= smallTaskIndex
          /\ \A i \in DOMAIN smallTasks' : i - 1 >= smallTaskIndex'
      BY <1>1, <1>5, <1>12
    <2>2. pc[0] # "start" /\ pc'[0] # "start"
      BY <1>1, <1>3
    <2>3. QED
      BY <2>1, <2>2 DEF SmallHolders, Holders
  <1>17. \A p : /\ Holders(small, p) = {} => SmallHolders(p)' = {}
                /\ One(Holders(small, p)) => One(SmallHolders(p)')
    BY <1>1, <1>11, <1>16, Moved
  <1>18. \A p :
           /\ Holders(smallTasks, p) = {} /\ Holders(TS, p) = {} => SmallHolders(p)' = {}
           /\ One(Holders(smallTasks, p)) /\ Holders(TS, p) = {} => One(SmallHolders(p)')
           /\ Holders(smallTasks, p) = {} /\ One(Holders(TS, p)) => One(SmallHolders(p)')
    BY <1>5, <1>11, <1>17, Joined DEF small
  <1>19. \A p :
           /\ Holders(front, p) = {} /\ Holders(TB, p) = {} => Holders(bigTasks', p) = {}
           /\ One(Holders(front, p)) /\ Holders(TB, p) = {} => One(Holders(bigTasks', p))
           /\ Holders(front, p) = {} /\ One(Holders(TB, p)) => One(Holders(bigTasks', p))
    BY <1>1, <1>6, <1>11, Joined
  <1>20. ASSUME NEW p, NEW b \in Bucket, p \in Places(T(b)),
                \A c \in Bucket : p \in Places(T(c)) => c = b
         PROVE  /\ b \notin BB => Holders(TB, p) = {}
                /\ b \in BB => One(Holders(TB, p))
                /\ b \notin SB => Holders(TS, p) = {}
                /\ b \in SB => One(Holders(TS, p))
    <2>1. \A B \in SUBSET Bucket : /\ b \notin B => Holders(TasksOf(k, o, B), p) = {}
                                   /\ b \in B => One(Holders(TasksOf(k, o, B), p))
      <3> SUFFICES ASSUME NEW B \in SUBSET Bucket
                   PROVE  /\ b \notin B => Holders(TasksOf(k, o, B), p) = {}
                          /\ b \in B => One(Holders(TasksOf(k, o, B), p))
        OBVIOUS
      <3>1. \A c \in B : p \in Places(T(c)) => c = b
        BY <1>20
      <3> HIDE DEF T, k, o
      <3>2. /\ (\A c \in B : p \notin Places(T(c))) => Holders(TasksOf(k, o, B), p) = {}
            /\ \A d \in B : /\ p \in Places(T(d))
                            /\ \A c \in B : p \in Places(T(c)) => c = d
                            => One(Holders(TasksOf(k, o, B), p))
        BY <1>10
      <3>3. QED
        BY <1>20, <3>1, <3>2
    <2> HIDE DEF BB, SB, k, o
    <2>2. QED
      BY <1>9, <2>1 DEF TB, TS
  <1>21. ASSUME NEW p \in 0 .. n - 1 PROVE Once(p)'
    <2>1. CASE p \in Places(k)
      <3>1. PICK b \in Bucket : p \in Places(T(b)) /\ \A c \in Bucket : p \in Places(T(c)) => c = b
        BY <1>8, <2>1
      <3>2. /\ Holders(front, p) = {} /\ Holders(smallTasks, p) = {}
            /\ final'[p] = IF p \in InOrder(k, o) THEN 1 ELSE 0
        BY <1>1, <1>4, <1>6, <1>16, <2>1
      <3>3. p \in InOrder(k, o)
              <=> LastLevel(k) \/ BucketSize(o, b) <= 2 * kBaseCaseSize \/ IsEquality(o, b)
        BY <3>1 DEF InOrder
      <3>4. BucketSize(o, b) \in Int /\ 2 * kBaseCaseSize \in Int
        <4>1. T(b) \in TaskType /\ Size(T(b)) = BucketSize(o, b)
          BY <1>8
        <4> HIDE DEF T
        <4>2. QED
          BY <4>1, TasksAssumption DEF TasksAssumption, TaskType, Size
      <3>5. b \in new <=> ~LastLevel(k) /\ ~IsEquality(o, b)
        BY DEF Subtasks, Queueable
      <3>6. /\ b \in BB <=> b \in new /\ BucketSize(o, b) > maxSequentialSize
            /\ b \in SB <=> b \in new /\ ~(BucketSize(o, b) > maxSequentialSize)
                                      /\ BucketSize(o, b) > 2 * kBaseCaseSize
        BY <1>8 DEF IsBig, IsSmall
      <3>7. ~LastLevel(k) => maxSequentialSize \in Int /\ 2 * kBaseCaseSize <= maxSequentialSize
        BY <1>5, <1>7, SortedNotBig
      <3>8. CASE p \in InOrder(k, o)
        <4>1. b \notin BB /\ b \notin SB
          <5> HIDE DEF new, BB, SB, k, o
          <5>1. QED
            BY <3>3, <3>4, <3>5, <3>6, <3>7, <3>8
        <4>2. SmallHolders(p)' = {} /\ Holders(bigTasks', p) = {}
          BY <1>18, <1>19, <1>20, <3>1, <3>2, <4>1
        <4>3. QED
          BY <3>2, <3>8, <4>2 DEF Once
      <3>9. CASE p \notin InOrder(k, o)
        <4>1. (b \in BB /\ b \notin SB) \/ (b \notin BB /\ b \in SB)
          <5> HIDE DEF new, BB, SB, k, o
          <5>1. QED
            BY <3>3, <3>4, <3>5, <3>6, <3>7, <3>9
        <4>2. \/ One(Holders(bigTasks', p)) /\ SmallHolders(p)' = {}
              \/ Holders(bigTasks', p) = {} /\ One(SmallHolders(p)')
          BY <1>18, <1>19, <1>20, <3>1, <3>2, <4>1
        <4>3. QED
          BY <3>2, <3>9, <4>2 DEF Once
      <3>10. QED
        BY <3>8, <3>9
    <2>2. CASE p \notin Places(k)
      <3>1. Once(p)
        BY <1>4, <2>2
      <3>2. Holders(TB, p) = {} /\ Holders(TS, p) = {}
        <4>1. \A B \in SUBSET Bucket : \A b \in B : p \notin Places(T(b))
          BY <1>8, <2>2
        <4> HIDE DEF T, BB, SB
        <4>2. QED
          BY <1>9, <1>10, <4>1 DEF TB, TS
      <3>3. Holders(front, p) = Holders(bigTasks, p)
        BY <1>6, <2>2 DEF Holders
      <3>4. final'[p] = final[p] /\ SmallHolders(p) = Holders(smallTasks, p)
        BY <1>1, <1>16
      <3>5. QED
        BY <1>18, <1>19, <3>1, <3>2, <3>3, <3>4 DEF Once
    <2>3. QED
      BY <2>1, <2>2
  <1>22. QED
    BY <1>1, <1>3, <1>14, <1>15, <1>21 DEF AInv, Accounts

(* Three steps that change no list.                                        *)
LEMMA ReadTaskAInv ==
    ASSUME AInv, IInv', NEW t \in Thread, ReadTask(t)
    PROVE  AInv'
  <1>1. /\ pc[t] = "loop" /\ task' = [task EXCEPT ![t] = Last(bigTasks)]
        /\ pc' = [pc EXCEPT ![t] = "partition"]
        /\ UNCHANGED <<n, bigTasks, smallTasks, smallTaskIndex, index, final>>
    BY DEF ReadTask, Goto
  <1>2. Reading /\ pc \in [Thread -> Locations]
    BY <1>1, Threads DEF AInv, IInv, Queueing, Sharing
  <1>3. Last(bigTasks) \in TaskType
    <2>1. bigTasks # <<>> /\ bigTasks \in Seq(TaskType)
      BY <1>2 DEF Reading, AInv, Sized
    <2>2. QED
      BY <2>1, Popped
  <1>4. task' \in [Thread -> TaskType]
    BY <1>1, <1>3 DEF AInv, Sized
  <1>5. pc[0] \notin {"queue", "meet"}
    BY <1>2, Threads DEF Reading, Reads
  <1>6. QED
    BY <1>1, <1>2, <1>4, <1>5, QuietStep

LEMMA BarrierAInv ==
    ASSUME AInv, IInv', Barrier
    PROVE  AInv'
  <1>1. /\ \A t \in Thread : pc[t] = "meet"
        /\ pc' = [t \in Thread |-> "check"] /\ 0 \in Thread
        /\ UNCHANGED <<n, bigTasks, smallTasks, smallTaskIndex, task, index, final>>
    BY Threads DEF Barrier, AllMeet
  <1>2. task' \in [Thread -> TaskType]
    BY <1>1 DEF AInv, Sized
  <1>3. QED
    BY <1>1, <1>2, QuietStep

LEMMA CheckAInv ==
    ASSUME AInv, IInv', NEW t \in Thread, Check(t)
    PROVE  AInv'
  <1>1. /\ pc[t] = "check"
        /\ UNCHANGED <<n, bigTasks, smallTasks, smallTaskIndex, task, index, final>>
        /\ \E l \in {"fetch", "loop"} : pc' = [pc EXCEPT ![t] = l]
    BY DEF Check, Goto
  <1>2. task' \in [Thread -> TaskType] /\ pc \in [Thread -> Locations]
    BY <1>1 DEF AInv, Sized, IInv
  <1>3. pc[0] \notin {"queue"}
    BY <1>1, Threads DEF AInv, IInv, Reading, Reads, Queueing, Sharing, Secondary
  <1>4. QED
    BY <1>1, <1>2, <1>3, QuietStep

(* A task that is fetched leaves the list for the hands of the thread.     *)
LEMMA FetchAInv ==
    ASSUME AInv, IInv', NEW t \in Thread, Fetch(t)
    PROVE  AInv'
  <1> DEFINE i == smallTaskIndex
             m == Len(smallTasks)
  <1>1. /\ pc[t] = "fetch" /\ index' = [index EXCEPT ![t] = i]
        /\ smallTaskIndex' = i + 1
        /\ pc' = [pc EXCEPT ![t] = IF i < m THEN "sort" ELSE "idle"]
        /\ UNCHANGED <<n, bigTasks, smallTasks, outcome, task, final>> /\ Thread' = Thread
    BY DEF Fetch, FetchAdd, Goto, Thread
  <1>2. Sharing /\ pc \in [Thread -> Locations] /\ 0 \in Thread
    BY <1>1, Apart DEF AInv
  <1>3. /\ bigTasks = <<>> /\ pc[0] \notin {"start", "queue", "meet"}
        /\ pc'[0] \notin {"start", "queue", "meet"}
    BY <1>1, <1>2 DEF Sharing
  <1>4. /\ i \in Nat /\ m \in Nat /\ index \in [Thread -> Nat] /\ smallTasks \in Seq(TaskType)
        /\ DOMAIN smallTasks = 1 .. m
    BY DEF AInv, Sized
  <1>5. /\ \A u \in Thread \ {t} : pc'[u] = pc[u] /\ index'[u] = index[u]
        /\ index'[t] = i /\ pc'[t] = (IF i < m THEN "sort" ELSE "idle") /\ index' \in [Thread -> Nat]
    BY <1>1, <1>2, <1>4
  <1>6. Sized'
    BY <1>1, <1>4, <1>5 DEF AInv, Sized
  <1>7. /\ \A u \in Thread : pc[u] = "sort" => index[u] < i /\ index[u] < m
        /\ \A u, v \in Thread : pc[u] = "sort" /\ pc[v] = "sort" /\ index[u] = index[v] => u = v
        /\ (\E u \in Thread : pc[u] = "idle") => i >= m
        /\ \A u \in Thread : index[u] \in Nat
    BY <1>4 DEF AInv, Indices
  <1>8. Indices'
    <2>1. \A u \in Thread : pc'[u] = "sort" => index'[u] < i + 1 /\ index'[u] < m
      BY <1>4, <1>5, <1>7
    <2>2. ASSUME NEW u \in Thread, NEW v \in Thread, pc'[u] = "sort", pc'[v] = "sort", index'[u] = index'[v]
          PROVE  u = v
      <3>1. \A w \in Thread \ {t} : pc'[w] = "sort" => index'[w] < i
        BY <1>5, <1>7
      <3>2. u = t <=> v = t
        BY <1>4, <1>5, <2>2, <3>1
      <3>3. QED
        BY <1>5, <1>7, <2>2, <3>2
    <2>3. (\E u \in Thread : pc'[u] = "idle") => i + 1 >= m
      BY <1>4, <1>5, <1>7
    <2>4. QED
      BY <1>1, <1>3, <2>1, <2>2, <2>3 DEF Indices
  <1>9. ASSUME NEW p PROVE SmallHolders(p)' = SmallHolders(p)
    <2>1. ASSUME NEW j \in 1 .. m
          PROVE  (j - 1 >= i \/ \E u \in Thread : pc[u] = "sort" /\ index[u] = j - 1)
                 <=> (j - 1 >= i + 1 \/ \E u \in Thread : pc'[u] = "sort" /\ index'[u] = j - 1)
      <3>1. j - 1 >= i <=> j - 1 >= i + 1 \/ (i < m /\ i = j - 1)
        BY <1>4
      <3>2. (\E u \in Thread : pc'[u] = "sort" /\ index'[u] = j - 1)
            <=> \/ \E u \in Thread : pc[u] = "sort" /\ index[u] = j - 1
                \/ i < m /\ i = j - 1
        <4>1. pc[t] # "sort"
          BY <1>1
        <4>2. pc'[t] = "sort" /\ index'[t] = j - 1 <=> i < m /\ i = j - 1
          BY <1>5
        <4>3. \A u \in Thread \ {t} : pc'[u] = "sort" /\ index'[u] = j - 1
                                      <=> pc[u] = "sort" /\ index[u] = j - 1
          BY <1>5
        <4>4. QED
          BY <4>1, <4>2, <4>3
      <3>3. QED
        BY <3>1, <3>2
    <2>2. QED
      BY <1>1, <1>3, <1>4, <2>1 DEF SmallHolders
  <1>10. \A p \in 0 .. n - 1 : Once(p)'
    BY <1>1, <1>3, <1>9 DEF AInv, Accounts, Once
  <1>11. QED
    BY <1>1, <1>3, <1>6, <1>8, <1>10 DEF AInv, Accounts

(* A task that is sorted is in nobody's hands any more.                    *)
LEMMA SortTaskAInv ==
    ASSUME AInv, IInv', NEW t \in Thread, SortTask(t)
    PROVE  AInv'
  <1> DEFINE j == index[t] + 1
             P == Places(smallTasks[j])
  <1>1. /\ pc[t] = "sort" /\ final' = Ordered(P) /\ pc' = [pc EXCEPT ![t] = "fetch"]
        /\ UNCHANGED <<n, bigTasks, smallTasks, smallTaskIndex, task, index>> /\ Thread' = Thread
    BY DEF SortTask, Goto, Thread
  <1>2. Sharing /\ pc \in [Thread -> Locations] /\ 0 \in Thread
    BY <1>1, Apart DEF AInv
  <1>3. /\ pc[0] \notin {"start", "queue", "meet"} /\ pc'[0] \notin {"start", "queue", "meet"}
        /\ bigTasks = <<>>
    BY <1>1, <1>2 DEF Sharing
  <1>4. /\ index \in [Thread -> Nat] /\ smallTasks \in Seq(TaskType) /\ smallTaskIndex \in Nat
        /\ DOMAIN smallTasks = 1 .. Len(smallTasks) /\ DOMAIN final = 0 .. n - 1
    BY DEF AInv, Sized
  <1>5. /\ index[t] < smallTaskIndex /\ index[t] < Len(smallTasks)
        /\ \A u \in Thread : pc[u] = "sort" /\ index[u] = index[t] => u = t
    BY <1>1 DEF AInv, Indices
  <1>6. j \in DOMAIN smallTasks /\ j - 1 = index[t] /\ j \in Int
    <2>1. index[t] \in Nat /\ Len(smallTasks) \in Nat
      BY <1>4
    <2>2. QED
      BY <1>4, <1>5, <2>1
  <1>7. /\ \A u \in Thread \ {t} : pc'[u] = pc[u] /\ index'[u] = index[u]
        /\ pc'[t] = "fetch"
    BY <1>1, <1>2
  <1> HIDE DEF j
  <1>8. Sized'
    BY <1>1 DEF AInv, Sized, Ordered
  <1>9. Indices'
    <2>1. \A u \in Thread : pc'[u] = "sort" => pc[u] = "sort"
      BY <1>1, <1>7
    <2>2. (\E u \in Thread : pc'[u] = "idle") => \E u \in Thread : pc[u] = "idle"
      BY <1>7
    <2>3. QED
      BY <1>1, <1>3, <2>1, <2>2 DEF AInv, Indices
  <1>10. ASSUME NEW p PROVE SmallHolders(p)' = SmallHolders(p) \ {j} /\ (j \in SmallHolders(p) <=> p \in P)
    <2>1. ASSUME NEW i \in DOMAIN smallTasks
          PROVE  (i - 1 >= smallTaskIndex \/ \E u \in Thread : pc'[u] = "sort" /\ index[u] = i - 1)
                 <=> /\ i # j
                     /\ i - 1 >= smallTaskIndex \/ \E u \in Thread : pc[u] = "sort" /\ index[u] = i - 1
      <3>1. i \in Int /\ (i = j <=> i - 1 = index[t]) /\ index[t] \in Int
        BY <1>4, <1>6
      <3>2. i = j => ~(i - 1 >= smallTaskIndex)
        BY <1>4, <1>5, <3>1
      <3>3. (\E u \in Thread : pc'[u] = "sort" /\ index[u] = i - 1)
            <=> i # j /\ \E u \in Thread : pc[u] = "sort" /\ index[u] = i - 1
        <4>1. pc'[t] # "sort"
          BY <1>7
        <4>2. \A u \in Thread \ {t} : pc[u] = "sort" /\ index[u] = i - 1 => i # j
          BY <1>5, <3>1
        <4>3. i # j => index[t] # i - 1
          BY <3>1
        <4>4. QED
          BY <1>7, <4>1, <4>2, <4>3
      <3>4. QED
        BY <3>2, <3>3
    <2>2. SmallHolders(p)' = SmallHolders(p) \ {j}
      BY <1>1, <1>3, <2>1 DEF SmallHolders
    <2>3. j \in SmallHolders(p) <=> p \in P
      BY <1>1, <1>3, <1>6 DEF SmallHolders
    <2>4. QED
      BY <2>2, <2>3
  <1> HIDE DEF P
  <1>11. ASSUME NEW p \in 0 .. n - 1 PROVE Once(p)'
    <2>1. Once(p) /\ Holders(bigTasks', p) = Holders(bigTasks, p)
      BY <1>1, <1>3 DEF AInv, Accounts
    <2>2. final'[p] = IF p \in P THEN IF final[p] = 0 THEN 1 ELSE 2 ELSE final[p]
      BY <1>1, <1>4 DEF Ordered
    <2>3. CASE p \in P
      <3>1. final[p] = 0 /\ Holders(bigTasks, p) = {} /\ One(SmallHolders(p))
        BY <1>10, <2>1, <2>3 DEF Once
      <3>2. SmallHolders(p)' = {}
        BY <1>10, <2>3, <3>1 DEF One
      <3>3. QED
        BY <2>1, <2>2, <2>3, <3>1, <3>2 DEF Once
    <2>4. CASE p \notin P
      <3>1. SmallHolders(p)' = SmallHolders(p) /\ final'[p] = final[p]
        BY <1>10, <2>2, <2>4
      <3>2. QED
        BY <2>1, <3>1 DEF Once
    <2>5. QED
      BY <2>3, <2>4
  <1>12. QED
    BY <1>1, <1>3, <1>8, <1>9, <1>11 DEF AInv, Accounts

LEMMA NextAInv ==
    ASSUME SortedIsSmall, AInv, [Next]_vars
    PROVE  AInv'
  <1>1. IInv'
    BY NextIInv DEF AInv
  <1>2. CASE \E size \in Sizes : Sort(size)
    BY <1>1, <1>2, SortAInv
  <1>3. CASE Start \/ Partition \/ Queue \/ Barrier
    BY <1>1, <1>3, StartAInv, PartitionAInv, QueueAInv, BarrierAInv
  <1>4. CASE \E t \in Thread : ReadTask(t) \/ Check(t) \/ Fetch(t) \/ SortTask(t)
    BY <1>1, <1>4, ReadTaskAInv, CheckAInv, FetchAInv, SortTaskAInv
  <1>5. CASE Terminated \/ UNCHANGED vars
    <2>1. UNCHANGED <<n, bigTasks, smallTasks, smallTaskIndex, outcome, task, index, final, pc>>
      BY <1>5 DEF Terminated, vars
    <2>2. \A p : SmallHolders(p)' = SmallHolders(p)
      BY <2>1, SameSmall
    <2>3. \A p : Once(p)' <=> Once(p)
      BY <2>1, <2>2 DEF Once
    <2>4. Sized' /\ Indices'
      BY <2>1 DEF AInv, Sized, Indices, Thread
    <2>5. Accounts'
      BY <2>1, <2>2, <2>3 DEF AInv, Accounts, Dividing
    <2>6. QED
      BY <1>1, <2>4, <2>5 DEF AInv
  <1>6. QED
    BY <1>2, <1>3, <1>4, <1>5 DEF Next
-----------------------------------------------------------------------------
(* At every moment of a sort, except while the primary queues, every place *)
(* of the array is in order, or in exactly one task: one big task, or one  *)
(* small task that is still to come or that one thread is sorting          *)
(* (processBigTasks, queueTask, processSmallTasks).  So no place is        *)
(* forgotten and no two threads sort it.                                   *)
THEOREM PlacesOnce == SortedIsSmall /\ Spec => []EachPlaceOnce
  <1> SUFFICES ASSUME SortedIsSmall PROVE Spec => []EachPlaceOnce
    OBVIOUS
  <1>1. AInv => EachPlaceOnce
    <2> SUFFICES ASSUME AInv, pc[0] # "queue", NEW p \in 0 .. n - 1
                 PROVE  final[p] + Cardinality(Holders(bigTasks, p)) + Cardinality(SmallHolders(p)) = 1
      BY DEF EachPlaceOnce, Holders, SmallHolders
    <2>1. Once(p)
      BY DEF AInv, Accounts
    <2>2. Cardinality({}) = 0 /\ \A S : One(S) => Cardinality(S) = 1
      BY FS_EmptySet, FS_Singleton DEF One
    <2> DEFINE x == Cardinality(Holders(bigTasks, p))
               y == Cardinality(SmallHolders(p))
    <2>3. \/ final[p] = 1 /\ x = 0 /\ y = 0
          \/ final[p] = 0 /\ x = 1 /\ y = 0
          \/ final[p] = 0 /\ x = 0 /\ y = 1
      BY <2>1, <2>2 DEF Once
    <2> HIDE DEF x, y
    <2>4. final[p] + x + y = 1
      BY <2>3
    <2>5. QED
      BY <2>4 DEF x, y
  <1>2. Init => AInv
    BY InitAInv
  <1>3. AInv /\ [Next]_vars => AInv'
    BY NextAInv
  <1>4. QED
    BY <1>1, <1>2, <1>3, PTL DEF Spec
=============================================================================
