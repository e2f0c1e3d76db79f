--------------------------- MODULE BigTasksProofs ---------------------------
(***************************************************************************)
(* Theorems about BigTasks, for any number of threads, any size of the     *)
(* input, any thresholds and any number of buckets: the groups of threads  *)
(* the sort forms are well formed, what their members read without a lock  *)
(* holds still while they do, no element is sorted by two threads, and     *)
(* every pool is released by the end.                                      *)
(***************************************************************************)
EXTENDS BigTasks, FiniteSetTheorems, TLAPS

-----------------------------------------------------------------------------
(* The threads of the pool p, made for the range p.                        *)
Root(p) == ThreadAt(p.begin, stripe)
Team(p) == Root(p) .. ThreadAt(p.end, stripe) - 1

(* Until the root has queued the buckets of the task its slot names the    *)
(* pool.                                                                   *)
Open(p) == slot[Root(p)] = p

(* How often thread t of the team has come to the barrier of the pool.     *)
Came(p, t) == IF mine[t] = p THEN calls[t] ELSE IF Open(p) THEN 0 ELSE 3

GoodRange(r) == r \in TaskRange /\ r.begin < r.end

(* Types; what is NoPool in mine is known from where the thread is.        *)
Types ==
    /\ big \in [Id -> [has : BOOLEAN, begin : 0 .. Size, end : 0 .. Size, root : Id, tid : Id]]
    /\ DOMAIN slot = Id /\ DOMAIN mine = Id
    /\ calls \in [Id -> 0 .. 3]
    /\ asRoot \in [Id -> BOOLEAN]
    /\ pc \in [Id -> PC]
    /\ queued \in [Id -> SUBSET TaskRange]

Pools ==
    \A p \in DOMAIN pools :
        /\ GoodRange(p)
        /\ Team(p) \subseteq Id
        /\ pools[p] \in [n : Nat, arrived : Nat, done : BOOLEAN]
        /\ pools[p].n = ThreadAt(p.end, stripe) - Root(p) /\ pools[p].n >= 2

(* The barrier has let everybody through as often as all have come: two    *)
(* members are never more than one meeting apart.                          *)
InRound(p, k) ==
    /\ \A t \in Team(p) : Came(p, t) \in {k, k + 1}
    /\ pools[p].arrived = k * pools[p].n + Cardinality({t \in Team(p) : Came(p, t) = k + 1})
Rounds == \A p \in DOMAIN pools : \E k \in 0 .. 2 : InRound(p, k)

(* release_threads is the third call of the root.                          *)
DoneRight == \A p \in DOMAIN pools : pools[p].done <=> Came(p, Root(p)) = 3

(* An entry of big_tasks belongs to an open pool, and every member of one  *)
(* has its entry.                                                          *)
Entries ==
    /\ \A u \in Id : slot[u] # NoPool => slot[u] \in DOMAIN pools /\ Root(slot[u]) = u
    /\ \A p \in DOMAIN pools : Open(p) =>
          \A t \in Team(p) :
              /\ big[t].has /\ big[t].begin = p.begin /\ big[t].end = p.end
              /\ big[t].root = Root(p) /\ big[t].tid = t - Root(p)
    /\ \A u \in Id : big[u].has =>
          slot[big[u].root] # NoPool /\ u \in Team(slot[big[u].root])

(* Where a thread is tells what it has done in its pool.                   *)
Outside == {"partition", "barrier", "loop", "small"}
AsMember(t, p) ==
    /\ p \in DOMAIN pools /\ t \in Team(p)
    /\ asRoot[t] <=> t = Root(p)
    /\ pc[t] = "start" => calls[t] = 0 /\ Open(p)
    /\ pc[t] = "inStart" => \/ calls[t] = 1 /\ Open(p)
                            \/ calls[t] = 3 /\ t # Root(p)
    /\ pc[t] = "func" => calls[t] = 1 /\ Open(p) /\ pools[p].arrived >= pools[p].n
    /\ pc[t] = "inEnd" => calls[t] = 2 /\ (t = Root(p) => Open(p))
    /\ pc[t] = "queue" => /\ t = Root(p) /\ calls[t] = 2 /\ Open(p)
                          /\ pools[p].arrived >= 2 * pools[p].n
    /\ pc[t] = "release" => /\ t = Root(p) /\ calls[t] = 2 /\ ~Open(p)
                            /\ pools[p].arrived >= 2 * pools[p].n
    /\ pc[t] = "inRelease" => t = Root(p) /\ calls[t] = 3 /\ ~Open(p)
MemberOK(t) ==
    /\ pc[t] \in Outside <=> mine[t] = NoPool
    /\ mine[t] # NoPool => AsMember(t, mine[t])
    /\ pc[t] = "small" => ~big[t].has
Membership == \A t \in Id : MemberOK(t)

(* Before the first buckets are queued there is nothing but the barrier.   *)
Top ==
    /\ \A t \in Id : pc[t] = "partition" => t = 0
    /\ pc[0] = "partition" =>
          /\ \A t \in Id : pc[t] \in {"partition", "barrier"} /\ queued[t] = {}
          /\ DOMAIN pools = {}

(* No two ranges that are still to be sorted overlap, and a range lies     *)
(* strictly inside those it was cut from.                                  *)
Inside(r, s) == s.begin <= r.begin /\ r.end <= s.end /\ r.end - r.begin < s.end - s.begin
Ranges ==
    /\ \A t \in Id : \A r \in queued[t] : GoodRange(r)
    /\ \A p, q \in DOMAIN pools : Open(p) /\ p # q => Apart(p, q) \/ (~Open(q) /\ Inside(p, q))
    /\ \A p \in DOMAIN pools : Open(p) => \A t \in Id : \A r \in queued[t] : Apart(p, r)
    /\ \A t, u \in Id : \A r \in queued[t], s \in queued[u] : <<t, r>> # <<u, s>> => Apart(r, s)

IInv == Types /\ Pools /\ Rounds /\ DoneRight /\ Entries /\ Membership /\ Top /\ Ranges

-----------------------------------------------------------------------------
(* Division, and the stripes of the input.                                 *)
LEMMA DivMonotone ==
    ASSUME NEW x \in Int, NEW y \in Int, NEW d \in Nat \ {0}, x <= y
    PROVE  x \div d <= y \div d
  OBVIOUS

(* Rounding down stays below a bound that the number is below.             *)
LEMMA DivLess ==
    ASSUME NEW x \in Int, NEW m \in Int, NEW d \in Nat \ {0}, x < m * d
    PROVE  x \div d < m
  OBVIOUS

(* Division stays in the natural numbers.                                  *)
LEMMA DivNat ==
    ASSUME NEW x \in Nat, NEW d \in Nat \ {0}
    PROVE  x \div d \in Nat
  OBVIOUS

(* Stripes rounded up cover the task: n of them are at least as long.      *)
LEMMA StripeFits ==
    ASSUME NEW n \in Nat \ {0}, NEW x \in Nat \ {0}
    PROVE  Stripe(x, n) \in Nat \ {0} /\ x <= n * Stripe(x, n)
  <1>1. x + n - 1 \in Nat /\ x + n - 1 >= n
    OBVIOUS
  <1>2. (x + n - 1) \div n \in Nat
    BY <1>1, DivNat
  <1>3. (x + n - 1) \div n >= 1
    BY <1>1
  <1>4. x <= n * ((x + n - 1) \div n)
    OBVIOUS
  <1>5. QED
    BY <1>2, <1>3, <1>4 DEF Stripe

(* The stripes of the whole input cover it.                                *)
LEMMA StripeType == stripe \in Nat \ {0} /\ Size <= T * stripe
  BY StripeFits, SizeAssumption DEF SizeAssumption, stripe

(* Places are in the stripes of threads in the order of the threads.       *)
LEMMA ThreadsInOrder ==
    ASSUME NEW x \in Nat, NEW y \in Nat, x <= y
    PROVE  /\ ThreadAt(x, stripe) \in Nat /\ ThreadAt(y, stripe) \in Nat
           /\ ThreadAt(x, stripe) <= ThreadAt(y, stripe)
  <1>1. stripe \div 2 \in Nat
    BY StripeType
  <1>2. x + stripe \div 2 \in Nat /\ y + stripe \div 2 \in Nat
        /\ x + stripe \div 2 <= y + stripe \div 2
    BY <1>1
  <1>3. QED
    BY <1>2, StripeType, DivNat, DivMonotone DEF ThreadAt

(* Places of the input belong to threads 0 to T, T only for its end.       *)
LEMMA ThreadsOfInput ==
    /\ ThreadAt(0, stripe) = 0
    /\ \A x \in Nat : x <= Size => ThreadAt(x, stripe) <= T
  <1>1. stripe \div 2 \in Nat /\ stripe \div 2 < stripe
    BY StripeType
  <1>2. ThreadAt(0, stripe) = 0
    <2>1. (0 + stripe \div 2) < 1 * stripe
      BY <1>1, StripeType
    <2>2. (0 + stripe \div 2) \div stripe < 1
      BY <1>1, <2>1, StripeType, DivLess
    <2>3. QED
      BY <1>1, <2>2, StripeType, DivNat DEF ThreadAt
  <1>3. ASSUME NEW x \in Nat, x <= Size
        PROVE  ThreadAt(x, stripe) <= T
    <2>1. T * stripe \in Nat /\ (T + 1) * stripe = T * stripe + stripe
      BY StripeType, SizeAssumption DEF SizeAssumption
    <2>2. x + stripe \div 2 < (T + 1) * stripe
      BY <1>1, <1>3, <2>1, StripeType, SizeAssumption DEF SizeAssumption
    <2>3. (x + stripe \div 2) \div stripe < T + 1
      BY <1>1, <2>2, StripeType, DivLess, SizeAssumption DEF SizeAssumption
    <2>4. (x + stripe \div 2) \div stripe \in Nat
      BY <1>1, StripeType, DivNat
    <2>5. QED
      BY <2>3, <2>4, SizeAssumption DEF SizeAssumption, ThreadAt
  <1>4. QED
    BY <1>2, <1>3

(* The types of the constants, as the leaves below need them.              *)
LEMMA Ids == 0 \in Id /\ Id \subseteq Nat /\ T \in Nat /\ Size \in Nat
  BY SizeAssumption DEF SizeAssumption, Id

(* A team is as large as its pool was made for.                            *)
LEMMA TeamSize ==
    ASSUME Pools, NEW p \in DOMAIN pools
    PROVE  /\ IsFiniteSet(Team(p)) /\ Cardinality(Team(p)) = pools[p].n
           /\ Root(p) \in Team(p) /\ Team(p) \subseteq Id /\ p # NoPool
           /\ pools[p].n \in Nat /\ pools[p].n >= 2 /\ pools[p].arrived \in Nat
           /\ Root(p) \in Nat
  <1>1. /\ GoodRange(p) /\ Team(p) \subseteq Id /\ pools[p].n \in Nat /\ pools[p].arrived \in Nat
        /\ pools[p].n = ThreadAt(p.end, stripe) - Root(p) /\ pools[p].n >= 2
    BY DEF Pools
  <1>2. p.begin \in Nat /\ p.end \in Nat /\ p.begin < p.end
    BY <1>1 DEF GoodRange, TaskRange
  <1>3. Root(p) \in Nat /\ ThreadAt(p.end, stripe) \in Nat
    BY <1>2, ThreadsInOrder DEF Root
  <1>4. Cardinality(Team(p)) = pools[p].n /\ IsFiniteSet(Team(p))
    <2>1. \A i, j \in Int : i <= j => IsFiniteSet(i .. j) /\ Cardinality(i .. j) = j - i + 1
      BY FS_Interval
    <2>2. Root(p) <= ThreadAt(p.end, stripe) - 1 /\ ThreadAt(p.end, stripe) - 1 \in Int
      BY <1>1, <1>3
    <2>3. QED
      BY <1>1, <1>3, <2>1, <2>2 DEF Team
  <1>5. QED
    BY <1>1, <1>2, <1>3, <1>4 DEF Team, NoPool

(* A meeting that is over: everybody has come to it.                       *)
LEMMA AllCame ==
    ASSUME Types, Pools, NEW p \in DOMAIN pools, NEW k \in 0 .. 2, InRound(p, k),
           NEW c \in 0 .. 3, pools[p].arrived >= c * pools[p].n
    PROVE  \A u \in Team(p) : Came(p, u) >= c
  <1> DEFINE S == {t \in Team(p) : Came(p, t) = k + 1}
  <1>1. /\ IsFiniteSet(Team(p)) /\ Cardinality(Team(p)) = pools[p].n
        /\ pools[p].n \in Nat /\ pools[p].n >= 2
    BY TeamSize
  <1>2. S \subseteq Team(p) /\ IsFiniteSet(S) /\ Cardinality(S) <= pools[p].n
        /\ Cardinality(S) \in Nat
    BY <1>1, FS_Subset, FS_CardinalityType
  <1>3. k * pools[p].n + Cardinality(S) >= c * pools[p].n
    BY DEF InRound
  <1>4. \A u \in Team(p) : Came(p, u) \in {k, k + 1}
    BY DEF InRound
  <1>5. CASE k >= c
    BY <1>4, <1>5
  <1>6. CASE k < c
    <2>1. Cardinality(S) = pools[p].n /\ c = k + 1
      <3>1. k \in {0, 1, 2} /\ c \in {0, 1, 2, 3}
        OBVIOUS
      <3>2. QED
        BY <1>1, <1>2, <1>3, <1>6, <3>1
    <2>2. S = Team(p)
      BY <1>1, <1>2, <2>1, FS_Subset
    <2>3. QED
      BY <2>1, <2>2
  <1>7. QED
    BY <1>5, <1>6

(* A meeting of a pool is over only when each of its threads has come to   *)
(* it.                                                                     *)
LEMMA MeetingOverAllCame ==
    ASSUME IInv, NEW p \in DOMAIN pools, NEW c \in 0 .. 3, pools[p].arrived >= c * pools[p].n
    PROVE  \A u \in Team(p) : Came(p, u) >= c
  <1>1. PICK k \in 0 .. 2 : InRound(p, k)
    BY DEF IInv, Rounds
  <1>2. QED
    BY <1>1, AllCame DEF IInv

(* One more member comes, to a meeting that may begin.                     *)
LEMMA OneMoreComes ==
    ASSUME IInv, NEW p \in DOMAIN pools, NEW t \in Team(p), Came(p, t) \in 0 .. 2,
           pools[p].arrived >= Came(p, t) * pools[p].n,
           pools'[p].n = pools[p].n, pools'[p].arrived = pools[p].arrived + 1,
           Came(p, t)' = Came(p, t) + 1,
           \A u \in Team(p) \ {t} : Came(p, u)' = Came(p, u)
    PROVE  \E k \in 0 .. 2 : InRound(p, k)'
  <1>1. PICK k \in 0 .. 2 : InRound(p, k)
    BY DEF IInv, Rounds
  <1> DEFINE S == {u \in Team(p) : Came(p, u) = k + 1}
  <1>2. /\ IsFiniteSet(Team(p)) /\ Cardinality(Team(p)) = pools[p].n
        /\ pools[p].n \in Nat /\ pools[p].n >= 2 /\ pools[p].arrived \in Nat
    BY TeamSize DEF IInv
  <1>3. /\ \A u \in Team(p) : Came(p, u) \in {k, k + 1}
        /\ pools[p].arrived = k * pools[p].n + Cardinality(S)
        /\ IsFiniteSet(S) /\ Cardinality(S) \in Nat
    BY <1>1, <1>2, FS_Subset, FS_CardinalityType DEF InRound
  <1>4. CASE Came(p, t) = k
    <2>1. {u \in Team(p) : Came(p, u)' = k + 1} = S \cup {t} /\ t \notin S
      BY <1>3, <1>4
    <2>2. Cardinality(S \cup {t}) = Cardinality(S) + 1
      BY <1>3, <2>1, FS_AddElement
    <2>3. pools'[p].arrived = k * pools'[p].n + Cardinality(S \cup {t})
      <3>1. k \in {0, 1, 2}
        OBVIOUS
      <3>2. QED
        BY <1>2, <1>3, <2>2, <3>1
    <2>4. \A u \in Team(p) : Came(p, u)' \in {k, k + 1}
      BY <1>3, <1>4
    <2>5. InRound(p, k)'
      BY <2>1, <2>3, <2>4 DEF InRound, Team, Root
    <2>6. QED
      BY <2>5
  <1>5. CASE Came(p, t) = k + 1
    <2>1. k + 1 \in 0 .. 2
      BY <1>5
    <2>2. \A u \in Team(p) : Came(p, u) >= k + 1
      BY <1>1, <1>5, <2>1, AllCame DEF IInv
    <2>3. \A u \in Team(p) : Came(p, u) = k + 1
      BY <1>3, <2>2
    <2>4. S = Team(p)
      BY <2>3
    <2>5. {u \in Team(p) : Came(p, u)' = (k + 1) + 1} = {t}
      BY <1>5, <2>3
    <2>6. Cardinality({t}) = 1
      BY FS_Singleton
    <2>7. pools'[p].arrived = (k + 1) * pools'[p].n + 1
      <3>1. k \in {0, 1}
        BY <2>1
      <3>2. pools[p].arrived = k * pools[p].n + pools[p].n
        BY <1>2, <1>3, <2>4
      <3>3. QED
        BY <1>2, <3>1, <3>2
    <2>8. \A u \in Team(p) : Came(p, u)' \in {k + 1, (k + 1) + 1}
      BY <1>5, <2>3
    <2>9. InRound(p, k + 1)'
      BY <2>5, <2>6, <2>7, <2>8 DEF InRound, Team, Root
    <2>10. QED
      BY <2>1, <2>9
  <1>6. QED
    BY <1>3, <1>4, <1>5

-----------------------------------------------------------------------------
(* Steps that only move threads through their pools                        *)

(* The invariant at the start, when all threads are before the first step. *)
LEMMA InitIInv == Init => IInv
  <1> SUFFICES ASSUME Init PROVE IInv
    OBVIOUS
  <1>1. Types
    BY Ids DEF Init, Types, NoTask, PC
  <1>2. Pools /\ Rounds /\ DoneRight
    BY DEF Init, Pools, Rounds, DoneRight
  <1>3. Entries
    BY DEF Init, Entries, NoTask
  <1>4. Membership
    BY DEF Init, Membership, MemberOK, Outside
  <1>5. Top
    BY DEF Init, Top
  <1>6. Ranges
    BY DEF Init, Ranges
  <1>7. QED
    BY <1>1, <1>2, <1>3, <1>4, <1>5, <1>6 DEF IInv

(* A step that changes no table and makes no pool keeps the parts about    *)
(* pools, entries and ranges.                                              *)
LEMMA Quiet ==
    ASSUME IInv, UNCHANGED <<big, slot, queued>>, DOMAIN pools' = DOMAIN pools,
           \A p \in DOMAIN pools :
               /\ pools'[p] \in [n : Nat, arrived : Nat, done : BOOLEAN]
               /\ pools'[p].n = pools[p].n
    PROVE  /\ Pools' /\ Entries' /\ Ranges'
           /\ \A p : Open(p)' <=> Open(p)
  <1>1. \A p : Open(p)' <=> Open(p)
    BY DEF Open
  <1>2. Pools'
    BY DEF IInv, Pools
  <1>3. Entries'
    BY <1>1 DEF IInv, Entries
  <1>4. Ranges'
    BY <1>1 DEF IInv, Ranges
  <1>5. QED
    BY <1>1, <1>2, <1>3, <1>4

(* A step at which nobody comes to a pool keeps the parts about its        *)
(* rounds.                                                                 *)
LEMMA SameRounds ==
    ASSUME IInv, pools' = pools,
           \A p \in DOMAIN pools : \A u \in Team(p) : Came(p, u)' = Came(p, u)
    PROVE  Rounds' /\ DoneRight'
  <1>1. ASSUME NEW p \in DOMAIN pools, NEW k \in 0 .. 2, InRound(p, k)
        PROVE  InRound(p, k)'
    <2>1. {u \in Team(p) : Came(p, u)' = k + 1} = {u \in Team(p) : Came(p, u) = k + 1}
      OBVIOUS
    <2>2. QED
      BY <1>1, <2>1 DEF InRound
  <1>2. Rounds'
    BY <1>1 DEF IInv, Rounds
  <1>3. DoneRight'
    BY TeamSize DEF IInv, DoneRight
  <1>4. QED
    BY <1>2, <1>3

(* A member comes to the barrier of its pool.                              *)
LEMMA ComeStep ==
    ASSUME IInv, NEW t \in Id, mine[t] \in DOMAIN pools, t \in Team(mine[t]),
           NEW d, Come(t, d), d <=> Pool(t).done \/ (t = Root(mine[t]) /\ calls[t] = 2),
           d \in BOOLEAN, calls[t] \in 0 .. 2, Pool(t).arrived >= calls[t] * Pool(t).n,
           UNCHANGED <<big, slot, mine, asRoot, queued>>
    PROVE  /\ Pools' /\ Rounds' /\ DoneRight' /\ Entries' /\ Ranges'
           /\ \A p : Open(p)' <=> Open(p)
           /\ calls' \in [Id -> 0 .. 3] /\ calls'[t] = calls[t] + 1
           /\ \A u \in Id \ {t} : calls'[u] = calls[u]
           /\ DOMAIN pools' = DOMAIN pools
           /\ \A p \in DOMAIN pools :
                  pools'[p].n = pools[p].n /\ pools'[p].arrived >= pools[p].arrived
  <1> DEFINE m == mine[t]
  <1>1. /\ calls' = [calls EXCEPT ![t] = @ + 1]
        /\ pools' = [pools EXCEPT ![m].arrived = @ + 1, ![m].done = d]
    BY DEF Come
  <1>2. /\ calls' \in [Id -> 0 .. 3] /\ calls'[t] = calls[t] + 1
        /\ \A u \in Id \ {t} : calls'[u] = calls[u]
    BY <1>1 DEF IInv, Types
  <1>3. \A p \in DOMAIN pools : pools[p] \in [n : Nat, arrived : Nat, done : BOOLEAN]
    BY DEF IInv, Pools
  <1>4. /\ DOMAIN pools' = DOMAIN pools
        /\ pools'[m] = [n |-> pools[m].n, arrived |-> pools[m].arrived + 1, done |-> d]
        /\ \A p \in DOMAIN pools \ {m} : pools'[p] = pools[p]
    <2>1. DOMAIN pools' = DOMAIN pools /\ \A p \in DOMAIN pools \ {m} : pools'[p] = pools[p]
      BY <1>1
    <2>2. pools'[m] = [[pools[m] EXCEPT !.arrived = @ + 1] EXCEPT !.done = d]
      BY <1>1
    <2>3. pools[m] \in [n : Nat, arrived : Nat, done : BOOLEAN]
      BY <1>3
    <2>4. QED
      BY <2>1, <2>2, <2>3
  <1>5. \A p \in DOMAIN pools :
            /\ pools'[p] \in [n : Nat, arrived : Nat, done : BOOLEAN]
            /\ pools'[p].n = pools[p].n /\ pools'[p].arrived >= pools[p].arrived
    BY <1>3, <1>4
  <1>6. Pools' /\ Entries' /\ Ranges' /\ \A p : Open(p)' <=> Open(p)
    BY <1>4, <1>5, Quiet
  <1>7. \A p \in DOMAIN pools : Team(p) \subseteq Id /\ Root(p) \in Team(p) /\ pools[p].n >= 2
    BY TeamSize DEF IInv
  <1>8. /\ Came(m, t) = calls[t] /\ Came(m, t)' = calls[t] + 1
        /\ \A p \in DOMAIN pools : \A u \in Team(p) : p # m \/ u # t => Came(p, u)' = Came(p, u)
    BY <1>2, <1>6, <1>7 DEF Came
  <1>9. Rounds'
    <2> SUFFICES ASSUME NEW p \in DOMAIN pools
                 PROVE  \E k \in 0 .. 2 : InRound(p, k)'
      BY <1>4 DEF Rounds
    <2>1. CASE p = m
      <3>1. \E k \in 0 .. 2 : InRound(m, k)'
        BY <1>4, <1>8, OneMoreComes DEF Pool
      <3>2. QED
        BY <2>1, <3>1
    <2>2. CASE p # m
      <3>1. PICK k \in 0 .. 2 : InRound(p, k)
        BY DEF IInv, Rounds
      <3>2. {u \in Team(p) : Came(p, u)' = k + 1} = {u \in Team(p) : Came(p, u) = k + 1}
        BY <1>8, <2>2
      <3>3. InRound(p, k)'
        BY <1>4, <1>8, <2>2, <3>1, <3>2 DEF InRound
      <3>4. QED
        BY <3>3
    <2>3. QED
      BY <2>1, <2>2
  <1>10. DoneRight'
    <2> SUFFICES ASSUME NEW p \in DOMAIN pools
                 PROVE  pools'[p].done <=> Came(p, Root(p))' = 3
      BY <1>4 DEF DoneRight
    <2>1. pools[p].done <=> Came(p, Root(p)) = 3
      BY DEF IInv, DoneRight
    <2>2. CASE p = m /\ t = Root(m)
      BY <1>4, <1>8, <2>1, <2>2 DEF Pool
    <2>3. CASE p = m /\ t # Root(m)
      BY <1>4, <1>7, <1>8, <2>1, <2>3 DEF Pool
    <2>4. CASE p # m
      BY <1>4, <1>7, <1>8, <2>1, <2>4
    <2>5. QED
      BY <2>2, <2>3, <2>4
  <1>11. QED
    BY <1>2, <1>4, <1>5, <1>6, <1>9, <1>10

(* What the others know of their pools is not disturbed.                   *)
LEMMA OthersStay ==
    ASSUME IInv, NEW t \in Id, big' = big,
           \A p : Open(p)' <=> Open(p),
           DOMAIN pools' = DOMAIN pools,
           \A p \in DOMAIN pools :
               pools'[p].n = pools[p].n /\ pools'[p].arrived \in Nat
               /\ pools'[p].arrived >= pools[p].arrived,
           \A u \in Id \ {t} : /\ pc'[u] = pc[u] /\ mine'[u] = mine[u]
                               /\ calls'[u] = calls[u] /\ asRoot'[u] = asRoot[u]
    PROVE  \A u \in Id \ {t} : MemberOK(u)'
  <1> SUFFICES ASSUME NEW u \in Id \ {t}
               PROVE  MemberOK(u)'
    OBVIOUS
  <1>1. MemberOK(u)
    BY DEF IInv, Membership
  <1>2. ASSUME mine[u] # NoPool
        PROVE  AsMember(u, mine[u])'
    <2> DEFINE m == mine[u]
    <2>1. AsMember(u, m) /\ m \in DOMAIN pools
      BY <1>1, <1>2 DEF MemberOK, AsMember
    <2>2. /\ pools[m].n \in Nat /\ pools[m].arrived \in Nat /\ pools'[m].arrived \in Nat
          /\ pools'[m].n = pools[m].n /\ pools'[m].arrived >= pools[m].arrived
      BY <2>1, TeamSize DEF IInv
    <2>3. mine'[u] = m /\ (Open(m)' <=> Open(m))
      OBVIOUS
    <2>4. QED
      BY <2>1, <2>2, <2>3 DEF AsMember
  <1>3. QED
    BY <1>1, <1>2 DEF MemberOK

(* A step after the first partitioning step keeps the part about that      *)
(* step.                                                                   *)
LEMMA TopStays ==
    ASSUME IInv, NEW t \in Id, NEW l \in PC \ {"partition", "barrier"}, Goto(t, l),
           pc[0] # "partition"
    PROVE  Top' /\ pc' \in [Id -> PC] /\ pc'[t] = l /\ \A u \in Id \ {t} : pc'[u] = pc[u]
  <1>1. pc' \in [Id -> PC] /\ pc'[t] = l /\ \A u \in Id \ {t} : pc'[u] = pc[u]
    BY DEF IInv, Types, Goto
  <1>2. Top'
    BY <1>1, Ids DEF IInv, Top
  <1>3. QED
    BY <1>1, <1>2

(* Past the first barrier pc[0] is not "partition".                        *)
LEMMA PastTop ==
    ASSUME IInv, NEW t \in Id, pc[t] \notin {"partition", "barrier"}
    PROVE  pc[0] # "partition"
  BY DEF IInv, Top

(* A step of one thread that leaves the pools alone.                       *)
LEMMA PoolsSame ==
    ASSUME IInv, NEW t \in Id, NEW l \in PC \ {"partition", "barrier"}, Goto(t, l),
           pc[0] # "partition", UNCHANGED <<big, slot, pools, queued>>,
           DOMAIN mine' = Id, calls' \in [Id -> 0 .. 3], asRoot' \in [Id -> BOOLEAN],
           \A u \in Id \ {t} : mine'[u] = mine[u] /\ calls'[u] = calls[u] /\ asRoot'[u] = asRoot[u],
           \A p \in DOMAIN pools : t \in Team(p) => Came(p, t)' = Came(p, t),
           MemberOK(t)'
    PROVE  IInv'
  <1>1. Top' /\ pc' \in [Id -> PC] /\ \A u \in Id \ {t} : pc'[u] = pc[u]
    BY TopStays
  <1>2. Types'
    BY <1>1 DEF IInv, Types
  <1>3. \A p \in DOMAIN pools : pools[p] \in [n : Nat, arrived : Nat, done : BOOLEAN]
    BY DEF IInv, Pools
  <1>4. Pools' /\ Entries' /\ Ranges' /\ \A p : Open(p)' <=> Open(p)
    BY <1>3, Quiet
  <1>5. Membership'
    <2>1. \A p \in DOMAIN pools : pools[p].arrived \in Nat
      BY <1>3
    <2>2. \A u \in Id \ {t} : MemberOK(u)'
      BY <1>1, <1>4, <2>1, OthersStay
    <2>3. QED
      BY <2>2 DEF Membership
  <1>6. \A p \in DOMAIN pools : \A u \in Team(p) : Came(p, u)' = Came(p, u)
    <2> SUFFICES ASSUME NEW p \in DOMAIN pools, NEW u \in Team(p), u # t
                 PROVE  Came(p, u)' = Came(p, u)
      OBVIOUS
    <2>1. u \in Id \ {t}
      BY TeamSize DEF IInv
    <2>2. QED
      BY <1>4, <2>1 DEF Came
  <1>7. Rounds' /\ DoneRight'
    BY <1>6, SameRounds
  <1>8. QED
    BY <1>1, <1>2, <1>4, <1>5, <1>7 DEF IInv

(* A step of one thread that comes to its barrier.                         *)
LEMMA PoolsCome ==
    ASSUME IInv, NEW t \in Id, NEW l \in PC \ {"partition", "barrier"}, Goto(t, l),
           pc[0] # "partition",
           mine[t] \in DOMAIN pools, t \in Team(mine[t]),
           NEW d, Come(t, d), d <=> Pool(t).done \/ (t = Root(mine[t]) /\ calls[t] = 2),
           d \in BOOLEAN, calls[t] \in 0 .. 2, Pool(t).arrived >= calls[t] * Pool(t).n,
           UNCHANGED <<big, slot, mine, asRoot, queued>>,
           calls'[t] = calls[t] + 1 /\ (\A p : Open(p)' <=> Open(p))
               /\ DOMAIN pools' = DOMAIN pools
               /\ (\A p \in DOMAIN pools : pools'[p].n = pools[p].n
                                           /\ pools'[p].arrived >= pools[p].arrived)
               => MemberOK(t)'
    PROVE  IInv'
  <1>1. Top' /\ pc' \in [Id -> PC] /\ \A u \in Id \ {t} : pc'[u] = pc[u]
    BY TopStays
  <1>2. /\ Pools' /\ Rounds' /\ DoneRight' /\ Entries' /\ Ranges'
        /\ \A p : Open(p)' <=> Open(p)
        /\ calls' \in [Id -> 0 .. 3] /\ calls'[t] = calls[t] + 1
        /\ \A u \in Id \ {t} : calls'[u] = calls[u]
        /\ DOMAIN pools' = DOMAIN pools
        /\ \A p \in DOMAIN pools :
               pools'[p].n = pools[p].n /\ pools'[p].arrived >= pools[p].arrived
    BY ComeStep
  <1>3. Types'
    BY <1>1, <1>2 DEF IInv, Types
  <1>4. Membership'
    <2>1. \A p \in DOMAIN pools : pools'[p].arrived \in Nat
      BY <1>2 DEF Pools
    <2>2. \A u \in Id \ {t} : MemberOK(u)'
      BY <1>1, <1>2, <2>1, OthersStay
    <2>3. QED
      BY <1>2, <2>2 DEF Membership
  <1>5. QED
    BY <1>1, <1>2, <1>3, <1>4 DEF IInv

(* From here one lemma for each action of the threads: it keeps the        *)
(* invariant.                                                              *)
LEMMA PassTopBarrierIInv ==
    ASSUME IInv, NEW t \in Id, PassTopBarrier(t)
    PROVE  IInv'
  <1>1. /\ pc[t] = "barrier" /\ pc[0] # "partition" /\ Goto(t, "loop")
        /\ UNCHANGED <<big, slot, pools, mine, calls, asRoot, queued>>
    BY DEF PassTopBarrier, TopBarrier
  <1>2. pc'[t] = "loop" /\ mine[t] = NoPool
    BY <1>1 DEF IInv, Types, Goto, Membership, MemberOK, Outside
  <1>3. MemberOK(t)'
    BY <1>1, <1>2 DEF MemberOK, Outside
  <1>4. \A p \in DOMAIN pools : Came(p, t)' = Came(p, t)
    BY <1>1 DEF Came, Open
  <1>5. QED
    BY <1>1, <1>3, <1>4, PoolsSame DEF IInv, Types, PC

LEMMA NoBigTaskIInv ==
    ASSUME IInv, NEW t \in Id, NoBigTask(t)
    PROVE  IInv'
  <1>1. /\ pc[t] = "loop" /\ ~big[t].has /\ Goto(t, "small")
        /\ UNCHANGED <<big, slot, pools, mine, calls, asRoot, queued>>
    BY DEF NoBigTask
  <1>2. pc'[t] = "small" /\ mine[t] = NoPool
    BY <1>1 DEF IInv, Types, Goto, Membership, MemberOK, Outside
  <1>3. MemberOK(t)'
    BY <1>1, <1>2 DEF MemberOK, Outside
  <1>4. \A p \in DOMAIN pools : Came(p, t)' = Came(p, t)
    BY <1>1 DEF Came, Open
  <1>5. pc[0] # "partition"
    BY <1>1, PastTop
  <1>6. QED
    BY <1>1, <1>3, <1>4, <1>5, PoolsSame DEF IInv, Types, PC

LEMMA TakePoolIInv ==
    ASSUME IInv, NEW t \in Id, TakePool(t)
    PROVE  IInv'
  <1> DEFINE m == slot[big[t].root]
  <1>1. /\ pc[t] = "loop" /\ big[t].has /\ Goto(t, "start")
        /\ mine' = [mine EXCEPT ![t] = m] /\ calls' = [calls EXCEPT ![t] = 0]
        /\ asRoot' = [asRoot EXCEPT ![t] = big[t].root = t]
        /\ UNCHANGED <<big, slot, pools, queued>>
    BY DEF TakePool
  <1>2. pc'[t] = "start" /\ mine[t] = NoPool
    BY <1>1 DEF IInv, Types, Goto, Membership, MemberOK, Outside
  <1>3. /\ DOMAIN mine' = Id /\ calls' \in [Id -> 0 .. 3] /\ asRoot' \in [Id -> BOOLEAN]
        /\ mine'[t] = m /\ calls'[t] = 0
        /\ asRoot'[t] <=> big[t].root = t
        /\ \A u \in Id \ {t} : mine'[u] = mine[u] /\ calls'[u] = calls[u] /\ asRoot'[u] = asRoot[u]
    <2>1. (big[t].root = t) \in BOOLEAN
      OBVIOUS
    <2>2. asRoot' \in [Id -> BOOLEAN] /\ (asRoot'[t] <=> big[t].root = t)
          /\ \A u \in Id \ {t} : asRoot'[u] = asRoot[u]
      BY <1>1, <2>1 DEF IInv, Types
    <2>3. QED
      BY <1>1, <2>2 DEF IInv, Types
  <1>4. /\ m # NoPool /\ m \in DOMAIN pools /\ t \in Team(m) /\ Root(m) = big[t].root /\ Open(m)
    <2>1. big[t].root \in Id
      BY DEF IInv, Types
    <2>2. QED
      BY <1>1, <2>1 DEF IInv, Entries, Open
  <1>5. MemberOK(t)'
    <2>1. AsMember(t, m)'
      BY <1>1, <1>2, <1>3, <1>4 DEF AsMember, Open
    <2>2. QED
      BY <1>1, <1>2, <1>3, <1>4, <2>1 DEF MemberOK, Outside
  <1>6. \A p \in DOMAIN pools : Came(p, t)' = Came(p, t)
    <2>1. \A p \in DOMAIN pools : p # NoPool
      BY TeamSize DEF IInv
    <2>2. QED
      BY <1>1, <1>2, <1>3, <1>4, <2>1 DEF Came, Open
  <1>7. pc[0] # "partition"
    BY <1>1, PastTop
  <1>8. QED
    BY <1>1, <1>3, <1>5, <1>6, <1>7, PoolsSame DEF PC

(* What is known of a thread that is in its pool.                          *)
LEMMA InPool ==
    ASSUME IInv, NEW t \in Id, pc[t] \notin Outside
    PROVE  /\ AsMember(t, mine[t]) /\ mine[t] # NoPool
           /\ mine[t] \in DOMAIN pools /\ t \in Team(mine[t]) /\ Came(mine[t], t) = calls[t]
           /\ pc[0] # "partition" /\ calls[t] \in 0 .. 3
           /\ pools[mine[t]].arrived \in Nat /\ pools[mine[t]].n \in Nat
  <1>1. AsMember(t, mine[t]) /\ mine[t] # NoPool
    BY DEF IInv, Membership, MemberOK
  <1>2. QED
    BY <1>1, PastTop, TeamSize DEF IInv, AsMember, Came, Outside, Types

LEMMA ComeStartIInv ==
    ASSUME IInv, NEW t \in Id, ComeStart(t)
    PROVE  IInv'
  <1> DEFINE m == mine[t]
  <1>1. /\ pc[t] = "start" /\ Come(t, Pool(t).done) /\ Goto(t, "inStart")
        /\ UNCHANGED <<big, slot, mine, asRoot, queued>>
    BY DEF ComeStart
  <1>2. /\ AsMember(t, m) /\ m # NoPool /\ m \in DOMAIN pools /\ t \in Team(m)
        /\ pc[0] # "partition" /\ pools[m].arrived \in Nat /\ pools[m].n \in Nat
        /\ calls[t] = 0 /\ Open(m) /\ pools[m].done \in BOOLEAN
    BY <1>1, InPool DEF IInv, Pools, AsMember, Outside
  <1>3. pc'[t] = "inStart"
    BY <1>1 DEF IInv, Types, Goto
  <1>4. ASSUME calls'[t] = calls[t] + 1, \A p : Open(p)' <=> Open(p), DOMAIN pools' = DOMAIN pools
        PROVE  MemberOK(t)'
    <2>1. AsMember(t, m)'
      BY <1>1, <1>2, <1>3, <1>4 DEF AsMember
    <2>2. QED
      BY <1>1, <1>2, <1>3, <2>1 DEF MemberOK, Outside
  <1>5. pools[m].arrived >= calls[t] * pools[m].n
    BY <1>2
  <1>6. QED
    BY <1>1, <1>2, <1>4, <1>5, PoolsCome DEF Pool, PC

LEMMA FuncIInv ==
    ASSUME IInv, NEW t \in Id, Func(t)
    PROVE  IInv'
  <1> DEFINE m == mine[t]
  <1>1. /\ pc[t] = "func" /\ Come(t, Pool(t).done) /\ Goto(t, "inEnd")
        /\ UNCHANGED <<big, slot, mine, asRoot, queued>>
    BY DEF Func
  <1>2. /\ AsMember(t, m) /\ m # NoPool /\ m \in DOMAIN pools /\ t \in Team(m)
        /\ pc[0] # "partition" /\ pools[m].arrived \in Nat /\ pools[m].n \in Nat
        /\ calls[t] = 1 /\ Open(m) /\ pools[m].arrived >= pools[m].n
        /\ pools[m].done \in BOOLEAN
    BY <1>1, InPool DEF IInv, Pools, AsMember, Outside
  <1>3. pc'[t] = "inEnd"
    BY <1>1 DEF IInv, Types, Goto
  <1>4. ASSUME calls'[t] = calls[t] + 1, \A p : Open(p)' <=> Open(p), DOMAIN pools' = DOMAIN pools
        PROVE  MemberOK(t)'
    <2>1. AsMember(t, m)'
      BY <1>1, <1>2, <1>3, <1>4 DEF AsMember
    <2>2. QED
      BY <1>1, <1>2, <1>3, <2>1 DEF MemberOK, Outside
  <1>5. pools[m].arrived >= calls[t] * pools[m].n
    BY <1>2
  <1>6. QED
    BY <1>1, <1>2, <1>4, <1>5, PoolsCome DEF Pool, PC

LEMMA ReleaseIInv ==
    ASSUME IInv, NEW t \in Id, Release(t)
    PROVE  IInv'
  <1> DEFINE m == mine[t]
  <1>1. /\ pc[t] = "release" /\ Come(t, TRUE) /\ Goto(t, "inRelease")
        /\ UNCHANGED <<big, slot, mine, asRoot, queued>>
    BY DEF Release, ComeRelease
  <1>2. /\ AsMember(t, m) /\ m # NoPool /\ m \in DOMAIN pools /\ t \in Team(m)
        /\ pc[0] # "partition" /\ pools[m].arrived \in Nat /\ pools[m].n \in Nat
        /\ calls[t] = 2 /\ ~Open(m) /\ pools[m].arrived >= 2 * pools[m].n /\ t = Root(m)
    BY <1>1, InPool DEF AsMember, Outside
  <1>3. pc'[t] = "inRelease"
    BY <1>1 DEF IInv, Types, Goto
  <1>4. ASSUME calls'[t] = calls[t] + 1, \A p : Open(p)' <=> Open(p), DOMAIN pools' = DOMAIN pools
        PROVE  MemberOK(t)'
    <2>1. AsMember(t, m)'
      BY <1>1, <1>2, <1>3, <1>4 DEF AsMember
    <2>2. QED
      BY <1>1, <1>2, <1>3, <2>1 DEF MemberOK, Outside
  <1>5. pools[m].arrived >= calls[t] * pools[m].n
    BY <1>2
  <1>6. PICK d \in BOOLEAN : Come(t, d) /\ d
    BY <1>1
  <1>7. d <=> Pool(t).done \/ (t = Root(m) /\ calls[t] = 2)
    BY <1>2, <1>6
  <1>8. Pool(t).arrived >= calls[t] * Pool(t).n
    BY <1>5 DEF Pool
  <1>9. calls[t] \in 0 .. 2
    BY <1>2
  <1>10. "inRelease" \in PC \ {"partition", "barrier"}
    BY DEF PC
  <1>11. QED
    BY <1>1, <1>2, <1>4, <1>6, <1>7, <1>8, <1>9, <1>10, PoolsCome, Zenon

(* A pool is done when its root has come for the third time, and that it   *)
(* does only after it has queued the buckets.                              *)
LEMMA DoneIsClosed ==
    ASSUME IInv, NEW p \in DOMAIN pools, Came(p, Root(p)) = 3
    PROVE  pools[p].done /\ ~Open(p)
  <1>1. pools[p].done
    BY DEF IInv, DoneRight
  <1>2. Root(p) \in Id /\ Root(p) \in Team(p) /\ p # NoPool
    BY TeamSize DEF IInv
  <1>3. CASE mine[Root(p)] = p
    <2>1. calls[Root(p)] = 3
      BY <1>3 DEF Came
    <2>2. AsMember(Root(p), p) /\ pc[Root(p)] \in PC \ Outside
      BY <1>2, <1>3 DEF IInv, Membership, MemberOK, Types
    <2>3. ~Open(p)
      BY <2>1, <2>2 DEF AsMember, PC, Outside
    <2>4. QED
      BY <1>1, <2>3
  <1>4. CASE mine[Root(p)] # p
    BY <1>1, <1>4 DEF Came
  <1>5. QED
    BY <1>3, <1>4

LEMMA LeaveStartIInv ==
    ASSUME IInv, NEW t \in Id, LeaveStart(t)
    PROVE  IInv'
  <1> DEFINE m == mine[t]
  <1>1. /\ pc[t] = "inStart" /\ pools[m].arrived >= calls[t] * pools[m].n
        /\ UNCHANGED <<big, slot, pools, calls, asRoot, queued>>
    BY DEF LeaveStart, MeetingOver, Pool
  <1>2. /\ AsMember(t, m) /\ m # NoPool /\ m \in DOMAIN pools /\ t \in Team(m)
        /\ pc[0] # "partition" /\ Came(m, t) = calls[t] /\ calls[t] \in 0 .. 3
        /\ pools[m].arrived \in Nat /\ pools[m].n \in Nat
    BY <1>1, InPool DEF Outside
  <1>3. (calls[t] = 1 /\ Open(m)) \/ (calls[t] = 3 /\ t # Root(m))
    BY <1>1, <1>2 DEF AsMember
  <1>4. Root(m) \in Team(m) /\ m # NoPool /\ \A p \in DOMAIN pools : p # NoPool
    BY <1>2, TeamSize DEF IInv
  <1>5. calls[t] = 3 => Came(m, Root(m)) = 3
    <2>1. \A u \in Team(m) : Came(m, u) >= calls[t]
      BY <1>1, <1>2, MeetingOverAllCame
    <2>2. \E k \in 0 .. 2 : InRound(m, k)
      BY <1>2 DEF IInv, Rounds
    <2>3. Came(m, Root(m)) \in 0 .. 3
      BY <1>4, <2>2 DEF InRound
    <2>4. QED
      BY <1>4, <2>1, <2>3
  <1>6. CASE pools[m].done
    <2>1. Goto(t, "loop") /\ mine' = [mine EXCEPT ![t] = NoPool]
      BY <1>6 DEF LeaveStart, Pool
    <2>2. ~Open(m)
      BY <1>2, <1>6, DoneIsClosed DEF IInv, DoneRight
    <2>3. calls[t] = 3
      BY <1>3, <2>2
    <2>4. /\ DOMAIN mine' = Id /\ mine'[t] = NoPool /\ \A u \in Id \ {t} : mine'[u] = mine[u]
          /\ pc'[t] = "loop"
      BY <2>1 DEF IInv, Types, Goto
    <2>5. MemberOK(t)'
      BY <2>4 DEF MemberOK, Outside
    <2>6. \A p \in DOMAIN pools : Came(p, t)' = Came(p, t)
      BY <1>1, <1>2, <1>4, <2>2, <2>3, <2>4 DEF Came, Open
    <2>7. QED
      BY <1>1, <1>2, <2>1, <2>4, <2>5, <2>6, PoolsSame DEF IInv, Types, PC
  <1>7. CASE ~pools[m].done
    <2>1. Goto(t, "func") /\ mine' = mine
      BY <1>7 DEF LeaveStart, Pool
    <2>2. calls[t] = 1 /\ Open(m)
      BY <1>2, <1>3, <1>5, <1>7, DoneIsClosed
    <2>3. pc'[t] = "func"
      BY <2>1 DEF IInv, Types, Goto
    <2>4. AsMember(t, m)'
      BY <1>1, <1>2, <2>1, <2>2, <2>3 DEF AsMember, Open
    <2>5. MemberOK(t)'
      BY <1>1, <1>2, <2>1, <2>3, <2>4 DEF MemberOK, Outside
    <2>6. \A p \in DOMAIN pools : Came(p, t)' = Came(p, t)
      BY <1>1, <2>1 DEF Came, Open
    <2>7. QED
      BY <1>1, <1>2, <2>1, <2>5, <2>6, PoolsSame DEF IInv, Types, PC
  <1>8. QED
    BY <1>6, <1>7

LEMMA LeaveEndIInv ==
    ASSUME IInv, NEW t \in Id, LeaveEnd(t)
    PROVE  IInv'
  <1> DEFINE m == mine[t]
  <1>1. /\ pc[t] = "inEnd" /\ pools[m].arrived >= calls[t] * pools[m].n
        /\ UNCHANGED <<big, slot, mine, asRoot, queued>>
    BY DEF LeaveEnd, EndOver, MeetingOver, Pool
  <1>2. /\ AsMember(t, m) /\ m # NoPool /\ m \in DOMAIN pools /\ t \in Team(m)
        /\ pc[0] # "partition" /\ pools[m].arrived \in Nat /\ pools[m].n \in Nat
        /\ calls[t] = 2 /\ (asRoot[t] <=> t = Root(m)) /\ (t = Root(m) => Open(m))
        /\ pools[m].done \in BOOLEAN
    BY <1>1, InPool DEF IInv, Pools, AsMember, Outside
  <1>3. CASE asRoot[t]
    <2>1. Goto(t, "queue") /\ UNCHANGED <<calls, pools>>
      BY <1>3 DEF LeaveEnd
    <2>2. pc'[t] = "queue"
      BY <2>1 DEF IInv, Types, Goto
    <2>3. AsMember(t, m)'
      BY <1>1, <1>2, <1>3, <2>1, <2>2 DEF AsMember, Open
    <2>4. MemberOK(t)'
      BY <1>1, <1>2, <2>2, <2>3 DEF MemberOK, Outside
    <2>5. \A p \in DOMAIN pools : Came(p, t)' = Came(p, t)
      BY <1>1, <2>1 DEF Came, Open
    <2>6. QED
      BY <1>1, <1>2, <2>1, <2>4, <2>5, PoolsSame DEF IInv, Types, PC
  <1>4. CASE ~asRoot[t]
    <2>1. Goto(t, "inStart") /\ Come(t, Pool(t).done)
      BY <1>4 DEF LeaveEnd
    <2>2. pc'[t] = "inStart"
      BY <2>1 DEF IInv, Types, Goto
    <2>3. ASSUME calls'[t] = calls[t] + 1, \A p : Open(p)' <=> Open(p),
                 DOMAIN pools' = DOMAIN pools
          PROVE  MemberOK(t)'
      <3>1. AsMember(t, m)'
        BY <1>1, <1>2, <1>4, <2>2, <2>3 DEF AsMember
      <3>2. QED
        BY <1>1, <1>2, <2>2, <3>1 DEF MemberOK, Outside
    <2>4. QED
      BY <1>1, <1>2, <1>4, <2>1, <2>3, PoolsCome DEF Pool, PC
  <1>5. QED
    BY <1>3, <1>4

LEMMA LeaveReleaseIInv ==
    ASSUME IInv, NEW t \in Id, LeaveRelease(t)
    PROVE  IInv'
  <1> DEFINE m == mine[t]
  <1>1. /\ pc[t] = "inRelease" /\ mine' = [mine EXCEPT ![t] = NoPool] /\ Goto(t, "loop")
        /\ UNCHANGED <<big, slot, pools, calls, asRoot, queued>>
    BY DEF LeaveRelease
  <1>2. m \in DOMAIN pools /\ calls[t] = 3 /\ ~Open(m) /\ pc[0] # "partition"
    BY <1>1, InPool DEF AsMember, Outside
  <1>3. /\ DOMAIN mine' = Id /\ mine'[t] = NoPool /\ \A u \in Id \ {t} : mine'[u] = mine[u]
        /\ pc'[t] = "loop"
    BY <1>1 DEF IInv, Types, Goto
  <1>4. MemberOK(t)'
    BY <1>3 DEF MemberOK, Outside
  <1>5. \A p \in DOMAIN pools : Came(p, t)' = Came(p, t)
    <2>1. \A p \in DOMAIN pools : p # NoPool
      BY TeamSize DEF IInv
    <2>2. QED
      BY <1>1, <1>2, <1>3, <2>1 DEF Came, Open
  <1>6. QED
    BY <1>1, <1>2, <1>3, <1>4, <1>5, PoolsSame DEF IInv, Types, PC

-----------------------------------------------------------------------------
(* The buckets of a task, and the threads they go to                       *)

(* What a partitioning step leaves to queue: disjoint ranges inside the    *)
(* task, each smaller than it.                                             *)
LEMMA BucketsType ==
    ASSUME NEW n \in Nat, NEW rs \in Buckets(n)
    PROVE  /\ rs \subseteq BucketRange(n) /\ Disjoint(rs)
           /\ \A r \in rs : /\ r = [begin |-> r.begin, end |-> r.end]
                            /\ r.begin \in 0 .. n /\ r.end \in 0 .. n
                            /\ r.begin < r.end /\ r.end - r.begin < n
  <1>1. rs \subseteq BucketRange(n) /\ Disjoint(rs)
    <2>1. CASE rs = {}
      BY <2>1 DEF Disjoint
    <2>2. CASE rs # {}
      <3>1. rs \in {{f[i] : i \in DOMAIN f} : f \in [1 .. MaxBuckets -> BucketRange(n)]}
        BY <2>2 DEF Buckets
      <3>2. PICK f \in [1 .. MaxBuckets -> BucketRange(n)] : rs = {f[i] : i \in DOMAIN f}
        BY <3>1
      <3>3. rs \subseteq BucketRange(n)
        BY <3>2
      <3>4. Disjoint(rs)
        BY <2>2 DEF Buckets
      <3>5. QED
        BY <3>3, <3>4
    <2>3. QED
      BY <2>1, <2>2
  <1>2. ASSUME NEW r \in rs
        PROVE  /\ r = [begin |-> r.begin, end |-> r.end]
               /\ r.begin \in 0 .. n /\ r.end \in 0 .. n
               /\ r.begin < r.end /\ r.end - r.begin < n
    BY <1>1, SizeAssumption DEF SizeAssumption, BucketRange
  <1>3. QED
    BY <1>1, <1>2

(* A bucket goes to threads of the group of its task.                      *)
LEMMA BucketPlace ==
    ASSUME NEW offset \in Nat, NEW psize \in Nat, offset + psize <= Size,
           NEW id \in Nat, NEW n \in Nat \ {0},
           id <= ThreadAt(offset, stripe), ThreadAt(offset + psize, stripe) <= id + n,
           NEW rs \in Buckets(psize), NEW r \in rs
    PROVE  /\ GoodRange(Absolute(offset, r))
           /\ Inside(Absolute(offset, r), [begin |-> offset, end |-> offset + psize])
           /\ Root(Absolute(offset, r)) = First(offset, r)
           /\ Team(Absolute(offset, r)) = First(offset, r) .. Last(offset, r) - 1
           /\ First(offset, r) \in Nat /\ Last(offset, r) \in Nat
           /\ id <= First(offset, r) /\ Last(offset, r) <= id + n
           /\ Owner(id, n, psize, r) \in id .. id + n - 1
  <1>1. /\ r.begin \in 0 .. psize /\ r.end \in 0 .. psize
        /\ r.begin < r.end /\ r.end - r.begin < psize
    BY BucketsType
  <1>2. /\ offset + r.begin \in Nat /\ offset + r.end \in Nat /\ offset + psize \in Nat
        /\ offset <= offset + r.begin /\ offset + r.end <= offset + psize
        /\ offset + r.begin < offset + r.end
    BY <1>1
  <1>3. GoodRange(Absolute(offset, r))
    BY <1>2, Ids DEF GoodRange, TaskRange, Absolute
  <1>4. Inside(Absolute(offset, r), [begin |-> offset, end |-> offset + psize])
    BY <1>1, <1>2 DEF Inside, Absolute
  <1>5. /\ Root(Absolute(offset, r)) = First(offset, r)
        /\ Team(Absolute(offset, r)) = First(offset, r) .. Last(offset, r) - 1
    BY DEF Root, Team, Absolute, First, Last
  <1>6. /\ First(offset, r) \in Nat /\ Last(offset, r) \in Nat
        /\ id <= First(offset, r) /\ Last(offset, r) <= id + n
    BY <1>2, ThreadsInOrder DEF First, Last
  <1>7. Owner(id, n, psize, r) \in id .. id + n - 1
    <2> DEFINE middle == r.begin + (r.end - r.begin) \div 2
    <2> DEFINE ps == Stripe(psize, n)
    <2>1. (r.end - r.begin) \div 2 \in Nat /\ (r.end - r.begin) \div 2 < r.end - r.begin
      BY <1>1
    <2>2. middle \in Nat /\ middle < psize
      BY <1>1, <2>1
    <2>3. ps \in Nat \ {0} /\ psize <= n * ps
      BY <1>1, StripeFits
    <2>4. middle < n * ps /\ n * ps \in Nat
      BY <2>2, <2>3
    <2>5. middle \div ps < n
      BY <2>2, <2>3, <2>4, DivLess
    <2>6. middle \div ps \in Nat
      BY <2>2, <2>3, DivNat
    <2>7. QED
      BY <2>5, <2>6 DEF Owner, OwnerAt
  <1>8. QED
    BY <1>3, <1>4, <1>5, <1>6, <1>7

(* Different buckets share no element, and big ones no thread.             *)
LEMMA BucketsApart ==
    ASSUME NEW offset \in Nat, NEW psize \in Nat, NEW rs \in Buckets(psize),
           NEW r \in rs, NEW s \in rs, r # s
    PROVE  /\ Apart(Absolute(offset, r), Absolute(offset, s))
           /\ Absolute(offset, r) # Absolute(offset, s)
           /\ \/ Last(offset, r) <= First(offset, s)
              \/ Last(offset, s) <= First(offset, r)
           /\ First(offset, r) \in Nat /\ First(offset, s) \in Nat
           /\ Last(offset, r) \in Nat /\ Last(offset, s) \in Nat
  <1>1. /\ r.begin \in Nat /\ r.end \in Nat /\ r.begin < r.end
        /\ s.begin \in Nat /\ s.end \in Nat /\ s.begin < s.end
        /\ r.end <= s.begin \/ s.end <= r.begin
    BY BucketsType DEF Disjoint, Apart
  <1>2. /\ offset + r.begin \in Nat /\ offset + r.end \in Nat
        /\ offset + s.begin \in Nat /\ offset + s.end \in Nat
        /\ offset + r.end <= offset + s.begin \/ offset + s.end <= offset + r.begin
        /\ offset + r.begin < offset + r.end /\ offset + s.begin < offset + s.end
    BY <1>1
  <1>3. Apart(Absolute(offset, r), Absolute(offset, s))
    BY <1>2 DEF Apart, Absolute
  <1>4. Absolute(offset, r) # Absolute(offset, s)
    BY <1>2 DEF Absolute
  <1>5. \/ Last(offset, r) <= First(offset, s)
        \/ Last(offset, s) <= First(offset, r)
    BY <1>2, ThreadsInOrder DEF First, Last
  <1>6. /\ First(offset, r) \in Nat /\ First(offset, s) \in Nat
        /\ Last(offset, r) \in Nat /\ Last(offset, s) \in Nat
    BY <1>2, ThreadsInOrder DEF First, Last
  <1>7. QED
    BY <1>3, <1>4, <1>5, <1>6

(* The leftmost of one range is that range.                                *)
LEMMA LeftmostOfOne ==
    ASSUME NEW r, r.begin \in Int
    PROVE  Leftmost({r}) = r
  BY DEF Leftmost

(* The pools that are made, and the threads that get them.                 *)
LEMMA NewPoolsPlace ==
    ASSUME NEW offset \in Nat, NEW psize \in Nat, offset + psize <= Size,
           NEW id \in Nat, NEW n \in Nat \ {0},
           id <= ThreadAt(offset, stripe), ThreadAt(offset + psize, stripe) <= id + n,
           NEW rs \in Buckets(psize)
    PROVE  /\ \A c \in NewPools(offset, rs) :
                  /\ GoodRange(c) /\ Inside(c, [begin |-> offset, end |-> offset + psize])
                  /\ Root(c) \in Nat /\ Team(c) \subseteq id .. id + n - 1 /\ Root(c) \in Team(c)
                  /\ ThreadAt(c.end, stripe) \in Nat /\ ThreadAt(c.end, stripe) - Root(c) >= 2
           /\ \A c, d \in NewPools(offset, rs) : c # d =>
                  Apart(c, d) /\ Team(c) \cap Team(d) = {}
  <1>1. ASSUME NEW c \in NewPools(offset, rs)
        PROVE  /\ GoodRange(c) /\ Inside(c, [begin |-> offset, end |-> offset + psize])
               /\ Root(c) \in Nat /\ Team(c) \subseteq id .. id + n - 1 /\ Root(c) \in Team(c)
               /\ ThreadAt(c.end, stripe) \in Nat /\ ThreadAt(c.end, stripe) - Root(c) >= 2
    <2>1. PICK r \in rs : IsBig(offset, r) /\ c = Absolute(offset, r)
      BY DEF NewPools
    <2>2. ThreadAt(c.end, stripe) = Last(offset, r)
      BY <2>1 DEF Absolute, Last
    <2>3. Last(offset, r) - First(offset, r) > 1
      BY <2>1 DEF IsBig
    <2>4. /\ GoodRange(c) /\ Inside(c, [begin |-> offset, end |-> offset + psize])
          /\ Root(c) = First(offset, r)
          /\ Team(c) = First(offset, r) .. Last(offset, r) - 1
          /\ First(offset, r) \in Nat /\ Last(offset, r) \in Nat
          /\ id <= First(offset, r) /\ Last(offset, r) <= id + n
      BY <2>1, BucketPlace
    <2>5. /\ Team(c) \subseteq id .. id + n - 1 /\ Root(c) \in Team(c)
          /\ Last(offset, r) - Root(c) >= 2
      BY <2>3, <2>4
    <2>6. QED
      BY <2>2, <2>4, <2>5
  <1>2. ASSUME NEW c \in NewPools(offset, rs), NEW d \in NewPools(offset, rs), c # d
        PROVE  Apart(c, d) /\ Team(c) \cap Team(d) = {}
    <2>1. PICK r \in rs : c = Absolute(offset, r)
      BY DEF NewPools
    <2>2. PICK s \in rs : d = Absolute(offset, s)
      BY DEF NewPools
    <2>3. r # s
      BY <1>2, <2>1, <2>2
    <2>4. /\ Team(c) = First(offset, r) .. Last(offset, r) - 1
          /\ Team(d) = First(offset, s) .. Last(offset, s) - 1
      BY <2>1, <2>2, BucketPlace
    <2>5. /\ Apart(c, d)
          /\ Last(offset, r) <= First(offset, s) \/ Last(offset, s) <= First(offset, r)
          /\ First(offset, r) \in Nat /\ First(offset, s) \in Nat
          /\ Last(offset, r) \in Nat /\ Last(offset, s) \in Nat
      BY <2>1, <2>2, <2>3, BucketsApart
    <2>6. QED
      BY <2>4, <2>5
  <1>3. QED
    BY <1>1, <1>2

(* Small tasks of queueTasks: inside the task, on the queue of a thread of *)
(* the group, on one queue only, and apart from each other and from the    *)
(* new big tasks.                                                          *)
LEMMA SmallPlace ==
    ASSUME NEW offset \in Nat, NEW psize \in Nat, offset + psize <= Size,
           NEW id \in Nat, NEW n \in Nat \ {0},
           id <= ThreadAt(offset, stripe), ThreadAt(offset + psize, stripe) <= id + n,
           NEW rs \in Buckets(psize)
    PROVE  \A t : \A q \in SmallFor(id, n, psize, offset, rs, t) :
               /\ GoodRange(q) /\ Inside(q, [begin |-> offset, end |-> offset + psize])
               /\ t \in id .. id + n - 1
               /\ \A c \in NewPools(offset, rs) : Apart(q, c) /\ Apart(c, q)
               /\ \A u : \A s \in SmallFor(id, n, psize, offset, rs, u) :
                      <<t, q>> # <<u, s>> => Apart(q, s)
  <1> SUFFICES ASSUME NEW t, NEW q \in SmallFor(id, n, psize, offset, rs, t)
               PROVE  /\ GoodRange(q)
                      /\ Inside(q, [begin |-> offset, end |-> offset + psize])
                      /\ t \in id .. id + n - 1
                      /\ \A c \in NewPools(offset, rs) : Apart(q, c) /\ Apart(c, q)
                      /\ \A u : \A s \in SmallFor(id, n, psize, offset, rs, u) :
                             <<t, q>> # <<u, s>> => Apart(q, s)
    OBVIOUS
  <1>1. PICK r \in rs : /\ q = Absolute(offset, r) /\ ~IsBig(offset, r)
                        /\ Owner(id, n, psize, r) = t
    BY DEF SmallFor
  <1>2. /\ GoodRange(q) /\ Inside(q, [begin |-> offset, end |-> offset + psize])
        /\ t \in id .. id + n - 1
    BY <1>1, BucketPlace
  <1>3. ASSUME NEW c \in NewPools(offset, rs)
        PROVE  Apart(q, c) /\ Apart(c, q)
    <2>1. PICK x \in rs : IsBig(offset, x) /\ c = Absolute(offset, x)
      BY DEF NewPools
    <2>2. r # x
      BY <1>1, <2>1
    <2>3. QED
      BY <1>1, <2>1, <2>2, BucketsApart
  <1>4. ASSUME NEW u, NEW s \in SmallFor(id, n, psize, offset, rs, u), <<t, q>> # <<u, s>>
        PROVE  Apart(q, s)
    <2>1. PICK x \in rs : s = Absolute(offset, x) /\ Owner(id, n, psize, x) = u
      BY DEF SmallFor
    <2>2. r # x
      BY <1>1, <1>4, <2>1
    <2>3. QED
      BY <1>1, <2>1, <2>2, BucketsApart
  <1>5. QED
    BY <1>2, <1>3, <1>4

(* The whole of queueTasks, entry by entry.                                *)
LEMMA QueueEffect ==
    ASSUME NEW offset \in Nat, NEW psize \in Nat, offset + psize <= Size,
           NEW id \in Nat, NEW n \in Nat \ {0}, id + n <= T,
           id <= ThreadAt(offset, stripe), ThreadAt(offset + psize, stripe) <= id + n,
           NEW rs \in Buckets(psize), NEW emptied,
           QueueTasks(id, n, psize, offset, rs, emptied)
    PROVE  /\ \A c \in NewPools(offset, rs) : slot'[Root(c)] = c /\
                  \A t \in Team(c) :
                      big'[t] = [has |-> TRUE, begin |-> c.begin, end |-> c.end,
                                 root |-> Root(c), tid |-> t - Root(c)]
           /\ \A t \in Id : (\A c \in NewPools(offset, rs) : t \notin Team(c)) =>
                  big'[t] = IF t \in id .. id + n - 1 THEN Cleared(t) ELSE big[t]
           /\ \A t \in Id : (\A c \in NewPools(offset, rs) : t # Root(c)) => slot'[t] = emptied[t]
           /\ DOMAIN big' = Id /\ DOMAIN slot' = Id
  <1> DEFINE N == NewPools(offset, rs)
  <1>1. /\ big' = [t \in Id |->
                     IF Covers(offset, rs, t) # {}
                       THEN Entry(offset, Leftmost(Covers(offset, rs, t)), t)
                       ELSE IF t \in id .. id + n - 1 THEN Cleared(t) ELSE big[t]]
        /\ slot' = [t \in Id |->
                     IF RootedAt(offset, rs, t) # {}
                       THEN Absolute(offset, Leftmost(RootedAt(offset, rs, t)))
                       ELSE emptied[t]]
    BY DEF QueueTasks
  <1>2. id .. id + n - 1 \subseteq Id
    BY SizeAssumption DEF SizeAssumption, Id
  <1>3. ASSUME NEW c \in N
        PROVE  /\ slot'[Root(c)] = c
               /\ \A t \in Team(c) :
                      big'[t] = [has |-> TRUE, begin |-> c.begin, end |-> c.end,
                                 root |-> Root(c), tid |-> t - Root(c)]
    <2>1. PICK r \in rs : IsBig(offset, r) /\ c = Absolute(offset, r)
      BY DEF NewPools
    <2>2. /\ Root(c) = First(offset, r) /\ Team(c) = First(offset, r) .. Last(offset, r) - 1
          /\ Team(c) \subseteq Id /\ Root(c) \in Team(c)
      <3>1. /\ Root(c) = First(offset, r)
            /\ Team(c) = First(offset, r) .. Last(offset, r) - 1
        BY <2>1, BucketPlace
      <3>2. Team(c) \subseteq id .. id + n - 1 /\ Root(c) \in Team(c)
        BY NewPoolsPlace
      <3>3. QED
        BY <1>2, <3>1, <3>2
    <2>3. r.begin \in Int
      BY BucketsType
    <2>4. ASSUME NEW t \in Team(c)
          PROVE  Covers(offset, rs, t) = {r}
      <3>1. r \in Covers(offset, rs, t)
        BY <2>1, <2>2 DEF Covers
      <3>2. ASSUME NEW x \in Covers(offset, rs, t), x # r
            PROVE  FALSE
        <4>1. x \in rs /\ t \in First(offset, x) .. Last(offset, x) - 1
          BY DEF Covers
        <4>2. t \in First(offset, r) .. Last(offset, r) - 1
          BY <2>2
        <4>3. QED
          BY <3>2, <4>1, <4>2, BucketsApart
      <3>3. QED
        BY <3>1, <3>2
    <2>5. RootedAt(offset, rs, Root(c)) = {r}
      <3>1. r \in RootedAt(offset, rs, Root(c))
        BY <2>1, <2>2 DEF RootedAt
      <3>2. ASSUME NEW x \in RootedAt(offset, rs, Root(c))
            PROVE  x \in Covers(offset, rs, Root(c))
        <4>1. x \in rs /\ IsBig(offset, x) /\ First(offset, x) = Root(c)
          BY DEF RootedAt
        <4>2. First(offset, x) \in Nat /\ Last(offset, x) \in Nat
          BY <4>1, BucketPlace
        <4>3. QED
          BY <4>1, <4>2 DEF Covers, IsBig
      <3>3. QED
        BY <2>2, <2>4, <3>1, <3>2
    <2>6. slot'[Root(c)] = c
      BY <1>1, <2>1, <2>2, <2>3, <2>5, LeftmostOfOne
    <2>7. ASSUME NEW t \in Team(c)
          PROVE  big'[t] = [has |-> TRUE, begin |-> c.begin, end |-> c.end,
                            root |-> Root(c), tid |-> t - Root(c)]
      <3>1. big'[t] = Entry(offset, r, t)
        BY <1>1, <2>2, <2>3, <2>4, LeftmostOfOne
      <3>2. QED
        BY <2>1, <2>2, <3>1 DEF Entry
    <2>8. QED
      BY <2>6, <2>7
  <1>4. ASSUME NEW t \in Id, \A c \in N : t \notin Team(c)
        PROVE  big'[t] = IF t \in id .. id + n - 1 THEN Cleared(t) ELSE big[t]
    <2>1. ASSUME NEW x \in Covers(offset, rs, t)
          PROVE  FALSE
      <3>1. /\ x \in rs /\ IsBig(offset, x) /\ t \in First(offset, x) .. Last(offset, x) - 1
        BY DEF Covers
      <3>2. Absolute(offset, x) \in N
        BY <3>1 DEF NewPools
      <3>3. Team(Absolute(offset, x)) = First(offset, x) .. Last(offset, x) - 1
        BY <3>1, BucketPlace
      <3>4. QED
        BY <1>4, <3>1, <3>2, <3>3
    <2>2. Covers(offset, rs, t) = {}
      BY <2>1
    <2>3. QED
      BY <1>1, <2>2
  <1>5. ASSUME NEW t \in Id, \A c \in N : t # Root(c)
        PROVE  slot'[t] = emptied[t]
    <2>1. ASSUME NEW x \in RootedAt(offset, rs, t)
          PROVE  FALSE
      <3>1. x \in rs /\ IsBig(offset, x) /\ First(offset, x) = t
        BY DEF RootedAt
      <3>2. Absolute(offset, x) \in N /\ Root(Absolute(offset, x)) = t
        BY <3>1, BucketPlace DEF NewPools
      <3>3. QED
        BY <1>5, <3>2
    <2>2. RootedAt(offset, rs, t) = {}
      BY <2>1
    <2>3. QED
      BY <1>1, <2>2
  <1>6. DOMAIN big' = Id /\ DOMAIN slot' = Id
    BY <1>1
  <1>7. QED
    BY <1>3, <1>4, <1>5, <1>6

-----------------------------------------------------------------------------
(* The step that queues the buckets of a task                              *)

(* What lies inside a task is apart from all that is apart from the task.  *)
LEMMA InsideApart ==
    ASSUME NEW r, NEW p, NEW s, GoodRange(r), GoodRange(s), p.begin \in Nat, p.end \in Nat,
           Inside(r, p), Apart(p, s)
    PROVE  Apart(r, s) /\ Apart(s, r) /\ r # s
  <1>1. /\ r.begin \in Nat /\ r.end \in Nat /\ r.begin < r.end
        /\ s.begin \in Nat /\ s.end \in Nat /\ s.begin < s.end
    BY Ids DEF GoodRange, TaskRange
  <1>2. Apart(r, s) /\ Apart(s, r)
    BY <1>1 DEF Inside, Apart
  <1>3. r # s
    BY <1>1, <1>2 DEF Apart
  <1>4. QED
    BY <1>2, <1>3

(* What lies inside a task lies inside all that the task lies inside.      *)
LEMMA InsideInside ==
    ASSUME NEW r, NEW p, NEW s, GoodRange(r), GoodRange(s), p.begin \in Nat, p.end \in Nat,
           Inside(r, p), Inside(p, s)
    PROVE  Inside(r, s) /\ r # s
  <1>1. /\ r.begin \in Nat /\ r.end \in Nat
        /\ s.begin \in Nat /\ s.end \in Nat
    BY Ids DEF GoodRange, TaskRange
  <1>2. Inside(r, s)
    BY <1>1 DEF Inside
  <1>3. r # s
    BY <1>1, <1>2 DEF Inside
  <1>4. QED
    BY <1>2, <1>3

(* Tasks that do not overlap have different threads, since the ids come    *)
(* from the stripes.                                                       *)
LEMMA TeamsApart ==
    ASSUME NEW p, NEW q, GoodRange(p), GoodRange(q), Apart(p, q)
    PROVE  Team(p) \cap Team(q) = {}
  <1>1. /\ p.begin \in Nat /\ p.end \in Nat /\ p.begin < p.end
        /\ q.begin \in Nat /\ q.end \in Nat /\ q.begin < q.end
    BY Ids DEF GoodRange, TaskRange
  <1>2. /\ ThreadAt(p.begin, stripe) \in Nat /\ ThreadAt(p.end, stripe) \in Nat
        /\ ThreadAt(q.begin, stripe) \in Nat /\ ThreadAt(q.end, stripe) \in Nat
    BY <1>1, ThreadsInOrder
  <1>3. \/ ThreadAt(p.end, stripe) <= ThreadAt(q.begin, stripe)
        \/ ThreadAt(q.end, stripe) <= ThreadAt(p.begin, stripe)
    BY <1>1, ThreadsInOrder DEF Apart
  <1>4. QED
    BY <1>2, <1>3 DEF Team, Root

(* When the buckets of a task are queued for the n threads from id, the    *)
(* task is apart from all other work except the tasks it was cut from,     *)
(* those threads are in no other open pool, and the members of its pool,   *)
(* if it has one, are still in it.                                         *)
Task(offset, psize) == [begin |-> offset, end |-> offset + psize]
Group(id, n) == id .. id + n - 1
MayQueue(id, n, psize, offset) ==
    /\ offset \in Nat /\ psize \in Nat /\ offset + psize <= Size
    /\ id \in Nat /\ n \in Nat \ {0} /\ id + n <= T
    /\ id <= ThreadAt(offset, stripe) /\ ThreadAt(offset + psize, stripe) <= id + n
    /\ \A q \in DOMAIN pools : q # Task(offset, psize) =>
          Apart(Task(offset, psize), q) \/ (~Open(q) /\ Inside(Task(offset, psize), q))
    /\ \A q \in DOMAIN pools : Open(q) /\ q # Task(offset, psize) =>
          Team(q) \cap Group(id, n) = {}
    /\ \A t \in Id : \A r \in queued[t] : Apart(Task(offset, psize), r)
    /\ Task(offset, psize) \in DOMAIN pools =>
          /\ \A u \in Team(Task(offset, psize)) : mine[u] = Task(offset, psize)
          /\ Team(Task(offset, psize)) \subseteq Group(id, n)

(* The step itself; the slot that named the task has been emptied.         *)
Queues(id, n, psize, offset, rs, emptied) ==
    /\ MayQueue(id, n, psize, offset)
    /\ QueueTasks(id, n, psize, offset, rs, emptied)
    /\ \A u \in Id : emptied[u] = IF slot[u] = Task(offset, psize) THEN NoPool ELSE slot[u]
    /\ UNCHANGED <<mine, calls, asRoot>>

(* The preconditions of queueTasks, and where its new pools and their      *)
(* threads lie.                                                            *)
LEMMA QueueFacts ==
    ASSUME NEW id, NEW n, NEW psize, NEW offset, NEW rs \in Buckets(psize), NEW emptied,
           Queues(id, n, psize, offset, rs, emptied)
    PROVE  /\ Group(id, n) \subseteq Id
           /\ Task(offset, psize).begin \in Nat /\ Task(offset, psize).end \in Nat
           /\ \A c \in NewPools(offset, rs) :
                  /\ GoodRange(c) /\ Inside(c, Task(offset, psize))
                  /\ Root(c) \in Nat /\ Team(c) \subseteq Group(id, n) /\ Root(c) \in Team(c)
                  /\ ThreadAt(c.end, stripe) \in Nat /\ ThreadAt(c.end, stripe) - Root(c) >= 2
           /\ \A c, d \in NewPools(offset, rs) : c # d =>
                  Apart(c, d) /\ Team(c) \cap Team(d) = {}
  <1>1. /\ offset \in Nat /\ psize \in Nat /\ offset + psize <= Size
        /\ id \in Nat /\ n \in Nat \ {0} /\ id + n <= T
        /\ id <= ThreadAt(offset, stripe) /\ ThreadAt(offset + psize, stripe) <= id + n
    BY DEF Queues, MayQueue
  <1>2. Group(id, n) \subseteq Id
    BY <1>1, Ids DEF Group, Id
  <1>3. Task(offset, psize).begin \in Nat /\ Task(offset, psize).end \in Nat
    BY <1>1 DEF Task
  <1>4. QED
    BY <1>1, <1>2, <1>3, NewPoolsPlace DEF Task, Group

(* What the step leaves in big_tasks and thread_pools.                     *)
EntryOf(c, t) == [has |-> TRUE, begin |-> c.begin, end |-> c.end,
                  root |-> Root(c), tid |-> t - Root(c)]
Effect(id, n, psize, offset, rs) ==
    /\ \A c \in NewPools(offset, rs) : slot'[Root(c)] = c
    /\ \A c \in NewPools(offset, rs) : \A t \in Team(c) : big'[t] = EntryOf(c, t)
    /\ \A t \in Id : (\A c \in NewPools(offset, rs) : t \notin Team(c)) =>
           big'[t] = IF t \in Group(id, n) THEN Cleared(t) ELSE big[t]
    /\ \A t \in Id : (\A c \in NewPools(offset, rs) : t # Root(c)) =>
           slot'[t] = IF slot[t] = Task(offset, psize) THEN NoPool ELSE slot[t]
    /\ DOMAIN big' = Id /\ DOMAIN slot' = Id

(* queueTasks writes the tables of its own group only; Effect says what.   *)
LEMMA QueueSlots ==
    ASSUME NEW id, NEW n, NEW psize, NEW offset, NEW rs \in Buckets(psize), NEW emptied,
           Queues(id, n, psize, offset, rs, emptied)
    PROVE  Effect(id, n, psize, offset, rs)
  <1>1. /\ offset \in Nat /\ psize \in Nat /\ offset + psize <= Size
        /\ id \in Nat /\ n \in Nat \ {0} /\ id + n <= T
        /\ id <= ThreadAt(offset, stripe) /\ ThreadAt(offset + psize, stripe) <= id + n
        /\ QueueTasks(id, n, psize, offset, rs, emptied)
        /\ \A u \in Id : emptied[u] = IF slot[u] = Task(offset, psize) THEN NoPool ELSE slot[u]
    BY DEF Queues, MayQueue
  <1>2. /\ \A c \in NewPools(offset, rs) : slot'[Root(c)] = c /\
               \A t \in Team(c) :
                   big'[t] = [has |-> TRUE, begin |-> c.begin, end |-> c.end,
                              root |-> Root(c), tid |-> t - Root(c)]
        /\ \A t \in Id : (\A c \in NewPools(offset, rs) : t \notin Team(c)) =>
               big'[t] = IF t \in id .. id + n - 1 THEN Cleared(t) ELSE big[t]
        /\ \A t \in Id : (\A c \in NewPools(offset, rs) : t # Root(c)) => slot'[t] = emptied[t]
        /\ DOMAIN big' = Id /\ DOMAIN slot' = Id
    BY <1>1, QueueEffect
  <1>3. QED
    BY <1>1, <1>2, Zenon DEF Effect, Group, EntryOf

(* The pools that are made are new, and nobody is in them yet.             *)
LEMMA QueueNew ==
    ASSUME IInv, NEW id, NEW n, NEW psize, NEW offset, NEW rs \in Buckets(psize), NEW emptied,
           Queues(id, n, psize, offset, rs, emptied), NEW c \in NewPools(offset, rs)
    PROVE  /\ c \notin DOMAIN pools
           /\ \A u \in Id : mine[u] # c
           /\ \A q \in DOMAIN pools :
                  \/ Apart(c, q)
                  \/ Inside(c, q) /\ (q = Task(offset, psize) \/ ~Open(q))
           /\ \A q \in DOMAIN pools : Open(q) /\ q # Task(offset, psize) => Apart(q, c)
           /\ \A t \in Id : \A r \in queued[t] : Apart(c, r)
  <1> DEFINE P == Task(offset, psize)
  <1>1. /\ GoodRange(c) /\ Inside(c, P) /\ P.begin \in Nat /\ P.end \in Nat /\ c # NoPool
    <2>1. GoodRange(c) /\ Inside(c, P) /\ P.begin \in Nat /\ P.end \in Nat
      BY QueueFacts
    <2>2. QED
      BY <2>1 DEF GoodRange, NoPool
  <1>2. \A q \in DOMAIN pools : q # P => Apart(P, q) \/ (~Open(q) /\ Inside(P, q))
    BY DEF Queues, MayQueue
  <1>3. \A q \in DOMAIN pools : GoodRange(q)
    BY DEF IInv, Pools
  <1>4. ASSUME NEW q \in DOMAIN pools
        PROVE  /\ \/ Apart(c, q)
                  \/ Inside(c, q) /\ (q = P \/ ~Open(q))
               /\ c # q
               /\ Open(q) /\ q # P => Apart(q, c)
    <2>1. CASE q = P
      <3>1. c # P
        BY <1>1 DEF Inside, GoodRange
      <3>2. QED
        BY <1>1, <2>1, <3>1
    <2>2. CASE q # P /\ Apart(P, q)
      BY <1>1, <1>3, <2>2, InsideApart
    <2>3. CASE q # P /\ ~Open(q) /\ Inside(P, q)
      BY <1>1, <1>3, <2>3, InsideInside
    <2>4. QED
      BY <1>2, <2>1, <2>2, <2>3
  <1>5. c \notin DOMAIN pools
    BY <1>4
  <1>6. \A u \in Id : mine[u] # c
    BY <1>1, <1>5 DEF IInv, Membership, MemberOK, AsMember
  <1>7. ASSUME NEW t \in Id, NEW r \in queued[t]
        PROVE  Apart(c, r)
    <2>1. GoodRange(r) /\ Apart(P, r)
      BY DEF IInv, Ranges, Queues, MayQueue
    <2>2. QED
      BY <1>1, <2>1, InsideApart
  <1>8. QED
    BY <1>4, <1>5, <1>6, <1>7

(* The new pools are open, and the pool of the task is not any more.       *)
LEMMA QueueOpens ==
    ASSUME IInv, NEW id, NEW n, NEW psize, NEW offset, NEW rs \in Buckets(psize), NEW emptied,
           Queues(id, n, psize, offset, rs, emptied)
    PROVE  /\ \A c \in NewPools(offset, rs) : Open(c)'
           /\ \A q \in DOMAIN pools : Open(q)' <=> Open(q) /\ q # Task(offset, psize)
  <1> DEFINE P == Task(offset, psize)
  <1> Effect(id, n, psize, offset, rs)
    BY QueueSlots
  <1>1. ASSUME NEW c \in NewPools(offset, rs)
        PROVE  Open(c)'
    BY DEF Effect, Open
  <1>2. ASSUME NEW q \in DOMAIN pools
        PROVE  Open(q)' <=> Open(q) /\ q # P
    <2>1. Root(q) \in Team(q) /\ Root(q) \in Id /\ q # NoPool
      BY TeamSize DEF IInv
    <2>2. CASE \E c \in NewPools(offset, rs) : Root(q) = Root(c)
      <3>1. PICK c \in NewPools(offset, rs) : Root(q) = Root(c)
        BY <2>2
      <3>2. slot'[Root(q)] = c /\ c # q
        BY <3>1, QueueNew DEF Effect
      <3>3. Root(q) \in Group(id, n)
        BY <3>1, QueueFacts
      <3>4. ~(Open(q) /\ q # P)
        BY <2>1, <3>3 DEF Queues, MayQueue
      <3>5. QED
        BY <3>2, <3>4 DEF Open
    <2>3. CASE \A c \in NewPools(offset, rs) : Root(q) # Root(c)
      <3>1. slot'[Root(q)] = IF slot[Root(q)] = P THEN NoPool ELSE slot[Root(q)]
        BY <2>1, <2>3 DEF Effect
      <3>2. QED
        BY <2>1, <3>1 DEF Open
    <2>4. QED
      BY <2>2, <2>3
  <1>3. QED
    BY <1>1, <1>2

(* queueTasks and the parts of the invariant about pools and rounds.       *)
LEMMA QueuePools ==
    ASSUME IInv, NEW id, NEW n, NEW psize, NEW offset, NEW rs \in Buckets(psize), NEW emptied,
           Queues(id, n, psize, offset, rs, emptied)
    PROVE  /\ DOMAIN pools' = DOMAIN pools \cup NewPools(offset, rs)
           /\ \A p \in DOMAIN pools : pools'[p] = pools[p]
           /\ Pools' /\ Rounds' /\ DoneRight'
  <1> DEFINE P == Task(offset, psize)
             N == NewPools(offset, rs)
  <1>1. /\ DOMAIN pools' = DOMAIN pools \cup N
        /\ \A p \in N : pools'[p] = NewPool(p)
        /\ \A p \in DOMAIN pools : pools'[p] = pools[p]
    <2>1. pools' = [p \in DOMAIN pools \cup N |-> IF p \in N THEN NewPool(p) ELSE pools[p]]
      BY DEF Queues, QueueTasks
    <2>2. \A p \in DOMAIN pools : p \notin N
      BY QueueNew
    <2>3. QED
      BY <2>1, <2>2
  <1>2. ASSUME NEW c \in N
        PROVE  /\ GoodRange(c) /\ Team(c) \subseteq Id /\ Root(c) \in Team(c)
               /\ pools'[c].n = ThreadAt(c.end, stripe) - Root(c) /\ pools'[c].n >= 2
               /\ pools'[c] \in [n : Nat, arrived : Nat, done : BOOLEAN]
               /\ pools'[c].arrived = 0 /\ ~pools'[c].done
    <2>1. /\ GoodRange(c) /\ Team(c) \subseteq Group(id, n) /\ Root(c) \in Team(c)
          /\ Root(c) \in Nat
          /\ ThreadAt(c.end, stripe) \in Nat /\ ThreadAt(c.end, stripe) - Root(c) >= 2
      BY QueueFacts
    <2>2. Group(id, n) \subseteq Id
      BY QueueFacts
    <2>3. pools'[c] = [n |-> ThreadAt(c.end, stripe) - Root(c), arrived |-> 0, done |-> FALSE]
      BY <1>1 DEF NewPool, Root
    <2>4. QED
      BY <2>1, <2>2, <2>3
  <1>3. Pools'
    <2> SUFFICES ASSUME NEW p \in DOMAIN pools \cup N
                 PROVE  /\ GoodRange(p) /\ Team(p) \subseteq Id
                        /\ pools'[p] \in [n : Nat, arrived : Nat, done : BOOLEAN]
                        /\ pools'[p].n = ThreadAt(p.end, stripe) - Root(p)
                        /\ pools'[p].n >= 2
      BY <1>1 DEF Pools
    <2>1. CASE p \in N
      BY <1>2, <2>1
    <2>2. CASE p \in DOMAIN pools
      BY <1>1, <2>2 DEF IInv, Pools
    <2>3. QED
      BY <2>1, <2>2
  <1>4. ASSUME NEW c \in N, NEW t \in Id
        PROVE  Came(c, t)' = 0
    BY <1>2, QueueNew, QueueOpens DEF Came, Queues
  <1>5. ASSUME NEW p \in DOMAIN pools, NEW t \in Team(p)
        PROVE  Came(p, t)' = Came(p, t)
    <2>1. Open(p)' <=> Open(p) /\ p # P
      BY QueueOpens
    <2>2. mine' = mine /\ calls' = calls
      BY DEF Queues
    <2>3. p = P => mine[t] = p
      BY DEF Queues, MayQueue
    <2>4. QED
      BY <2>1, <2>2, <2>3 DEF Came
  <1>6. Rounds'
    <2> SUFFICES ASSUME NEW p \in DOMAIN pools \cup N
                 PROVE  \E k \in 0 .. 2 : InRound(p, k)'
      BY <1>1 DEF Rounds
    <2>1. CASE p \in N
      <3>1. \A t \in Team(p) : Came(p, t)' = 0
        BY <1>2, <1>4, <2>1
      <3>2. {t \in Team(p) : Came(p, t)' = 0 + 1} = {}
        BY <3>1
      <3>3. pools'[p].n \in Nat /\ pools'[p].arrived = 0
        BY <1>2, <2>1
      <3>4. InRound(p, 0)'
        BY <3>1, <3>2, <3>3, FS_EmptySet DEF InRound
      <3>5. QED
        BY <3>4
    <2>2. CASE p \in DOMAIN pools
      <3>1. PICK k \in 0 .. 2 : InRound(p, k)
        BY <2>2 DEF IInv, Rounds
      <3>2. {t \in Team(p) : Came(p, t)' = k + 1} = {t \in Team(p) : Came(p, t) = k + 1}
        BY <1>5, <2>2
      <3>3. InRound(p, k)'
        BY <1>1, <1>5, <2>2, <3>1, <3>2 DEF InRound
      <3>4. QED
        BY <3>3
    <2>3. QED
      BY <2>1, <2>2
  <1>7. DoneRight'
    <2> SUFFICES ASSUME NEW p \in DOMAIN pools \cup N
                 PROVE  pools'[p].done <=> Came(p, Root(p))' = 3
      BY <1>1 DEF DoneRight
    <2>1. CASE p \in N
      BY <1>2, <1>4, <2>1
    <2>2. CASE p \in DOMAIN pools
      <3>1. Root(p) \in Team(p)
        BY <2>2, TeamSize DEF IInv
      <3>2. QED
        BY <1>1, <1>5, <2>2, <3>1 DEF IInv, DoneRight
    <2>3. QED
      BY <2>1, <2>2
  <1>8. QED
    BY <1>1, <1>3, <1>6, <1>7

(* queueTasks and the part about the entries of big_tasks.                 *)
LEMMA QueueEntries ==
    ASSUME IInv, NEW id, NEW n, NEW psize, NEW offset, NEW rs \in Buckets(psize), NEW emptied,
           Queues(id, n, psize, offset, rs, emptied)
    PROVE  /\ Entries'
           /\ big' \in [Id -> [has : BOOLEAN, begin : 0 .. Size, end : 0 .. Size,
                               root : Id, tid : Id]]
           /\ \A t \in Id \ Group(id, n) : big'[t] = big[t]
           /\ DOMAIN slot' = Id
  <1> DEFINE P == Task(offset, psize)
             N == NewPools(offset, rs)
             G == Group(id, n)
  <1> Effect(id, n, psize, offset, rs)
    BY QueueSlots
  <1>1. /\ DOMAIN pools' = DOMAIN pools \cup N
        /\ \A q \in DOMAIN pools : Open(q)' <=> Open(q) /\ q # P
        /\ \A c \in N : Open(c)'
    BY QueuePools, QueueOpens
  <1>2. /\ \A c \in N : /\ Team(c) \subseteq G /\ Root(c) \in Team(c) /\ c # NoPool
                        /\ GoodRange(c) /\ Team(c) \subseteq Id
        /\ G \subseteq Id /\ Id \subseteq Nat
    <2>1. ASSUME NEW c \in N
          PROVE  Team(c) \subseteq G /\ Root(c) \in Team(c) /\ GoodRange(c)
      BY QueueFacts
    <2>2. G \subseteq Id
      BY QueueFacts
    <2>3. QED
      BY <2>1, <2>2, Ids DEF GoodRange, NoPool
  <1>3. ASSUME NEW q \in DOMAIN pools, Open(q), q # P
        PROVE  /\ Team(q) \cap G = {} /\ Root(q) \in Team(q) /\ Team(q) \subseteq Id
               /\ slot'[Root(q)] = q
               /\ \A t \in Team(q) : big'[t] = big[t]
    <2>1. Team(q) \cap G = {} /\ Root(q) \in Team(q) /\ Team(q) \subseteq Id
      BY <1>3, TeamSize DEF IInv, Queues, MayQueue
    <2>2. slot'[Root(q)] = q
      BY <1>1, <1>3 DEF Open
    <2>3. \A t \in Team(q) : big'[t] = big[t]
      BY <1>2, <2>1 DEF Effect
    <2>4. QED
      BY <2>1, <2>2, <2>3
  <1>4. ASSUME NEW t \in Id \ G
        PROVE  big'[t] = big[t]
    BY <1>2 DEF Effect
  <1>5. ASSUME NEW t \in Id
        PROVE  big'[t] \in [has : BOOLEAN, begin : 0 .. Size, end : 0 .. Size,
                            root : Id, tid : Id]
    <2>1. CASE \E c \in N : t \in Team(c)
      <3>1. PICK c \in N : t \in Team(c)
        BY <2>1
      <3>2. big'[t] = EntryOf(c, t)
        BY <3>1 DEF Effect
      <3>3. c.begin \in 0 .. Size /\ c.end \in 0 .. Size /\ Root(c) \in Id
        BY <1>2 DEF GoodRange, TaskRange
      <3>4. t - Root(c) \in Id
        <4>1. t \in Nat /\ Root(c) \in Nat /\ t >= Root(c) /\ t <= T - 1
          BY <1>2, <3>1, <3>3, Ids DEF Team, Id
        <4>2. QED
          BY <4>1, Ids DEF Id
      <3>5. QED
        BY <3>2, <3>3, <3>4 DEF EntryOf
    <2>2. CASE \A c \in N : t \notin Team(c)
      <3>1. big'[t] = IF t \in G THEN Cleared(t) ELSE big[t]
        BY <2>2 DEF Effect
      <3>2. big[t] \in [has : BOOLEAN, begin : 0 .. Size, end : 0 .. Size,
                        root : Id, tid : Id]
        BY DEF IInv, Types
      <3>3. QED
        BY <3>1, <3>2 DEF Cleared
    <2>3. QED
      BY <2>1, <2>2
  <1>6. \A u \in Id : slot'[u] # NoPool => slot'[u] \in DOMAIN pools' /\ Root(slot'[u]) = u
    <2> SUFFICES ASSUME NEW u \in Id, slot'[u] # NoPool
                 PROVE  slot'[u] \in DOMAIN pools' /\ Root(slot'[u]) = u
      OBVIOUS
    <2>1. CASE \E c \in N : u = Root(c)
      BY <1>1, <2>1 DEF Effect
    <2>2. CASE \A c \in N : u # Root(c)
      <3>1. slot'[u] = slot[u]
        BY <2>2 DEF Effect
      <3>2. QED
        BY <1>1, <3>1 DEF IInv, Entries
    <2>3. QED
      BY <2>1, <2>2
  <1>7. \A p \in DOMAIN pools' : Open(p)' =>
          \A t \in Team(p) :
              /\ big'[t].has /\ big'[t].begin = p.begin /\ big'[t].end = p.end
              /\ big'[t].root = Root(p) /\ big'[t].tid = t - Root(p)
    <2> SUFFICES ASSUME NEW p \in DOMAIN pools \cup N, Open(p)', NEW t \in Team(p)
                 PROVE  /\ big'[t].has /\ big'[t].begin = p.begin /\ big'[t].end = p.end
                        /\ big'[t].root = Root(p) /\ big'[t].tid = t - Root(p)
      BY <1>1
    <2>1. CASE p \in N
      <3>1. big'[t] = EntryOf(p, t)
        BY <2>1 DEF Effect
      <3>2. QED
        BY <3>1 DEF EntryOf
    <2>2. CASE p \in DOMAIN pools
      <3>1. Open(p) /\ p # P
        BY <1>1, <2>2
      <3>2. big'[t] = big[t]
        BY <1>3, <2>2, <3>1
      <3>3. QED
        BY <2>2, <3>1, <3>2 DEF IInv, Entries
    <2>3. QED
      BY <2>1, <2>2
  <1>8. \A u \in Id : big'[u].has =>
          slot'[big'[u].root] # NoPool /\ u \in Team(slot'[big'[u].root])
    <2> SUFFICES ASSUME NEW u \in Id, big'[u].has
                 PROVE  slot'[big'[u].root] # NoPool /\ u \in Team(slot'[big'[u].root])
      OBVIOUS
    <2>1. CASE \E c \in N : u \in Team(c)
      <3>1. PICK c \in N : u \in Team(c)
        BY <2>1
      <3>2. big'[u] = EntryOf(c, u) /\ slot'[Root(c)] = c
        BY <3>1 DEF Effect
      <3>3. big'[u].root = Root(c)
        BY <3>2 DEF EntryOf
      <3>4. QED
        BY <1>2, <3>1, <3>2, <3>3
    <2>2. CASE \A c \in N : u \notin Team(c)
      <3>1. big'[u] = IF u \in G THEN Cleared(u) ELSE big[u]
        BY <2>2 DEF Effect
      <3>2. ~Cleared(u).has
        BY DEF Cleared, IInv, Types
      <3>3. u \notin G /\ big'[u] = big[u] /\ big[u].has
        BY <3>1, <3>2
      <3>4. slot[big[u].root] # NoPool /\ u \in Team(slot[big[u].root]) /\ big[u].root \in Id
        BY <3>3 DEF IInv, Entries, Types
      <3>5. PICK q \in DOMAIN pools : q = slot[big[u].root] /\ Root(q) = big[u].root
        BY <3>4 DEF IInv, Entries
      <3>6. Open(q) /\ u \in Team(q)
        BY <3>4, <3>5 DEF Open
      <3>7. q # P
        BY <3>3, <3>6 DEF Queues, MayQueue
      <3>8. slot'[Root(q)] = q
        BY <1>3, <3>6, <3>7
      <3>9. QED
        BY <3>3, <3>4, <3>5, <3>8
    <2>3. QED
      BY <2>1, <2>2
  <1>9. Entries'
    BY <1>6, <1>7, <1>8 DEF Entries
  <1>10. big' \in [Id -> [has : BOOLEAN, begin : 0 .. Size, end : 0 .. Size,
                          root : Id, tid : Id]]
    <2>1. big' = [t \in Id |-> big'[t]]
      BY DEF Queues, QueueTasks
    <2>2. QED
      BY <1>5, <2>1
  <1>11. QED
    BY <1>4, <1>9, <1>10 DEF Effect

(* queueTasks and the part about the ranges still to be sorted.            *)
LEMMA QueueRanges ==
    ASSUME IInv, NEW id, NEW n, NEW psize, NEW offset, NEW rs \in Buckets(psize), NEW emptied,
           Queues(id, n, psize, offset, rs, emptied)
    PROVE  /\ Ranges'
           /\ queued' \in [Id -> SUBSET TaskRange]
           /\ \A t \in Id \ Group(id, n) : queued'[t] = queued[t]
  <1> DEFINE P == Task(offset, psize)
             N == NewPools(offset, rs)
             New(t) == SmallFor(id, n, psize, offset, rs, t)
  <1>1. /\ DOMAIN queued' = Id
        /\ \A t \in Id : queued'[t] = queued[t] \cup New(t)
        /\ queued' = [t \in Id |-> queued'[t]]
    BY DEF Queues, QueueTasks
  <1>2. \A t : \A q \in New(t) :
            /\ GoodRange(q) /\ Inside(q, P) /\ t \in Group(id, n)
            /\ \A c \in N : Apart(q, c) /\ Apart(c, q)
            /\ \A u : \A s \in New(u) : <<t, q>> # <<u, s>> => Apart(q, s)
    <2>1. /\ offset \in Nat /\ psize \in Nat /\ offset + psize <= Size
          /\ id \in Nat /\ n \in Nat \ {0}
          /\ id <= ThreadAt(offset, stripe) /\ ThreadAt(offset + psize, stripe) <= id + n
      BY DEF Queues, MayQueue
    <2>2. QED
      BY <2>1, SmallPlace, Zenon DEF Task, Group
  <1>3. /\ \A q \in DOMAIN pools : GoodRange(q)
        /\ \A t \in Id : \A r \in queued[t] : GoodRange(r) /\ Apart(P, r)
        /\ P.begin \in Nat /\ P.end \in Nat
    <2>1. P.begin \in Nat /\ P.end \in Nat
      BY QueueFacts
    <2>2. QED
      BY <2>1 DEF IInv, Pools, Ranges, Queues, MayQueue
  <1>4. /\ DOMAIN pools' = DOMAIN pools \cup N
        /\ \A q \in DOMAIN pools : Open(q)' <=> Open(q) /\ q # P
        /\ \A c \in N : Open(c)'
    BY QueuePools, QueueOpens
  <1>5. \A t \in Id : \A r \in queued'[t] : GoodRange(r)
    BY <1>1, <1>2, <1>3
  <1>6. ASSUME NEW p \in DOMAIN pools \cup N, NEW q \in DOMAIN pools \cup N, Open(p)', p # q
        PROVE  Apart(p, q) \/ (~Open(q)' /\ Inside(p, q))
    <2>1. CASE p \in N /\ q \in N
      BY <1>6, <2>1, QueueFacts
    <2>2. CASE p \in N /\ q \in DOMAIN pools
      BY <1>4, <2>2, QueueNew
    <2>3. CASE p \in DOMAIN pools /\ q \in N
      BY <1>4, <1>6, <2>3, QueueNew
    <2>4. CASE p \in DOMAIN pools /\ q \in DOMAIN pools
      <3>1. Open(p)
        BY <1>4, <1>6, <2>4
      <3>2. Apart(p, q) \/ (~Open(q) /\ Inside(p, q))
        BY <1>6, <2>4, <3>1 DEF IInv, Ranges
      <3>3. QED
        BY <1>4, <2>4, <3>2
    <2>5. QED
      BY <2>1, <2>2, <2>3, <2>4
  <1>7. ASSUME NEW p \in DOMAIN pools \cup N, Open(p)', NEW t \in Id, NEW r \in queued'[t]
        PROVE  Apart(p, r)
    <2>1. CASE p \in N /\ r \in queued[t]
      BY <2>1, QueueNew
    <2>2. CASE p \in N /\ r \in New(t)
      BY <1>2, <2>2
    <2>3. CASE p \in DOMAIN pools /\ r \in queued[t]
      BY <1>4, <1>7, <2>3 DEF IInv, Ranges
    <2>4. CASE p \in DOMAIN pools /\ r \in New(t)
      <3>1. Open(p) /\ p # P
        BY <1>4, <1>7, <2>4
      <3>2. Apart(P, p)
        BY <2>4, <3>1 DEF Queues, MayQueue
      <3>3. QED
        BY <1>2, <1>3, <2>4, <3>2, InsideApart
    <2>5. QED
      BY <1>1, <2>1, <2>2, <2>3, <2>4
  <1>8. ASSUME NEW t \in Id, NEW u \in Id, NEW r \in queued'[t], NEW s \in queued'[u],
               <<t, r>> # <<u, s>>
        PROVE  Apart(r, s)
    <2>1. CASE r \in queued[t] /\ s \in queued[u]
      BY <1>8, <2>1 DEF IInv, Ranges
    <2>2. CASE r \in queued[t] /\ s \in New(u)
      BY <1>2, <1>3, <2>2, InsideApart
    <2>3. CASE r \in New(t) /\ s \in queued[u]
      BY <1>2, <1>3, <2>3, InsideApart
    <2>4. CASE r \in New(t) /\ s \in New(u)
      BY <1>2, <1>8, <2>4
    <2>5. QED
      BY <1>1, <2>1, <2>2, <2>3, <2>4
  <1>9. Ranges'
    BY <1>4, <1>5, <1>6, <1>7, <1>8 DEF Ranges
  <1>10. \A t \in Id \ Group(id, n) : queued'[t] = queued[t]
    BY <1>1, <1>2
  <1>11. \A t \in Id : queued'[t] \in SUBSET TaskRange
    BY <1>5 DEF GoodRange
  <1>12. QED
    BY <1>1, <1>9, <1>10, <1>11

(* queueTasks of thread 0 after the first step keeps the invariant.        *)
LEMMA QueueTopIInv ==
    ASSUME IInv, QueueTop
    PROVE  IInv'
  <1>1. pc[0] = "partition" /\ Goto(0, "barrier") /\ UNCHANGED <<mine, calls, asRoot>>
    BY DEF QueueTop
  <1>2. PICK rs \in Buckets(Size) : QueueTasks(0, T, Size, 0, rs, slot)
    BY DEF QueueTop
  <1>3. /\ DOMAIN pools = {}
        /\ \A t \in Id : pc[t] \in {"partition", "barrier"} /\ queued[t] = {} /\ slot[t] = NoPool
        /\ \A t \in Id \ {0} : pc[t] = "barrier"
        /\ \A t \in Id : mine[t] = NoPool
    <2>1. /\ DOMAIN pools = {}
          /\ \A t \in Id : pc[t] \in {"partition", "barrier"} /\ queued[t] = {}
          /\ \A t \in Id \ {0} : pc[t] = "barrier"
      BY <1>1 DEF IInv, Top
    <2>2. \A t \in Id : slot[t] = NoPool
      BY <2>1 DEF IInv, Entries
    <2>3. \A t \in Id : mine[t] = NoPool
      BY <2>1 DEF IInv, Membership, MemberOK, Outside
    <2>4. QED
      BY <2>1, <2>2, <2>3
  <1>4. Queues(0, T, Size, 0, rs, slot)
    <2>1. /\ 0 + Size <= Size /\ 0 + T <= T /\ 0 \in Nat /\ Size \in Nat /\ T \in Nat \ {0}
          /\ 0 <= ThreadAt(0, stripe) /\ ThreadAt(0 + Size, stripe) <= 0 + T
      BY ThreadsOfInput, SizeAssumption DEF SizeAssumption
    <2>2. MayQueue(0, T, Size, 0)
      BY <1>3, <2>1 DEF MayQueue
    <2>3. Task(0, Size) # NoPool
      BY SizeAssumption DEF SizeAssumption, Task, NoPool
    <2>4. QED
      BY <1>1, <1>2, <1>3, <2>2, <2>3 DEF Queues
  <1>5. /\ pc' \in [Id -> PC] /\ pc'[0] = "barrier"
        /\ \A u \in Id : pc'[u] = "barrier"
    BY <1>1, <1>3, Ids DEF IInv, Types, Goto, PC
  <1>6. /\ Pools' /\ Rounds' /\ DoneRight' /\ Entries' /\ Ranges'
        /\ big' \in [Id -> [has : BOOLEAN, begin : 0 .. Size, end : 0 .. Size,
                            root : Id, tid : Id]]
        /\ DOMAIN slot' = Id /\ queued' \in [Id -> SUBSET TaskRange]
    BY <1>4, QueuePools, QueueEntries, QueueRanges
  <1>7. Types'
    BY <1>1, <1>5, <1>6 DEF IInv, Types
  <1>8. Membership'
    BY <1>1, <1>3, <1>5 DEF Membership, MemberOK, Outside
  <1>9. Top'
    BY <1>5, Ids DEF Top
  <1>10. QED
    BY <1>6, <1>7, <1>8, <1>9 DEF IInv

(* When a root queues the buckets of its task, its team has come to the    *)
(* second meeting and is still in the pool.                                *)
LEMMA RootMayQueue ==
    ASSUME IInv, NEW t \in Id, pc[t] = "queue"
    PROVE  /\ mine[t] \in DOMAIN pools /\ t = Root(mine[t]) /\ Open(mine[t])
           /\ big[t].begin = mine[t].begin /\ big[t].end = mine[t].end
           /\ Task(big[t].begin, big[t].end - big[t].begin) = mine[t]
           /\ Group(t, Pool(t).n) = Team(mine[t])
           /\ MayQueue(t, Pool(t).n, big[t].end - big[t].begin, big[t].begin)
           /\ \A u \in Team(mine[t]) \ {t} :
                  /\ mine[u] = mine[t]
                  /\ pc[u] = "inEnd" \/ (pc[u] = "inStart" /\ calls[u] = 3)
  <1> DEFINE m == mine[t]
             n == Pool(t).n
  <1>1. /\ m \in DOMAIN pools /\ t = Root(m) /\ Open(m) /\ calls[t] = 2
        /\ pools[m].arrived >= 2 * pools[m].n
    BY InPool DEF AsMember, Outside
  <1>2. /\ GoodRange(m) /\ Team(m) \subseteq Id /\ pools[m].n \in Nat
        /\ pools[m].n = ThreadAt(m.end, stripe) - Root(m) /\ pools[m].n >= 2
        /\ t \in Team(m) /\ m # NoPool
    BY <1>1, TeamSize DEF IInv, Pools
  <1>3. m.begin \in Nat /\ m.end \in Nat /\ m.begin < m.end /\ m.end <= Size
        /\ m = [begin |-> m.begin, end |-> m.end]
    BY <1>2, Ids DEF GoodRange, TaskRange
  <1>4. big[t].begin = m.begin /\ big[t].end = m.end
    BY <1>1, <1>2 DEF IInv, Entries
  <1>5. Task(big[t].begin, big[t].end - big[t].begin) = m
    <2>1. m.begin + (m.end - m.begin) = m.end
      BY <1>3
    <2>2. QED
      BY <1>3, <1>4, <2>1 DEF Task
  <1>6. ThreadAt(m.begin, stripe) = t /\ ThreadAt(m.end, stripe) = t + n /\ t + n <= T
        /\ t \in Nat /\ n \in Nat \ {0}
    <2>1. ThreadAt(m.begin, stripe) = t /\ t \in Nat
      BY <1>1, Ids DEF Root
    <2>2. ThreadAt(m.end, stripe) <= T /\ ThreadAt(m.end, stripe) \in Nat
      BY <1>3, ThreadsOfInput, ThreadsInOrder
    <2>3. QED
      BY <1>1, <1>2, <2>1, <2>2 DEF Pool
  <1>7. Group(t, n) = Team(m)
    BY <1>6 DEF Group, Team, Root
  <1>8. ASSUME NEW u \in Team(m)
        PROVE  mine[u] = m /\ calls[u] >= 2
    <2>1. Came(m, u) >= 2
      BY <1>1, MeetingOverAllCame
    <2>2. QED
      BY <1>1, <2>1 DEF Came
  <1>9. ASSUME NEW q \in DOMAIN pools, q # m
        PROVE  /\ Apart(m, q) \/ (~Open(q) /\ Inside(m, q))
               /\ Open(q) => Team(q) \cap Team(m) = {}
    <2>1. Apart(m, q) \/ (~Open(q) /\ Inside(m, q))
      BY <1>1, <1>9 DEF IInv, Ranges
    <2>2. GoodRange(q)
      BY DEF IInv, Pools
    <2>3. QED
      BY <1>2, <2>1, <2>2, TeamsApart
  <1>10. \A u \in Id : \A r \in queued[u] : Apart(m, r)
    BY <1>1 DEF IInv, Ranges
  <1>11. MayQueue(t, n, big[t].end - big[t].begin, big[t].begin)
    <2>1. /\ big[t].begin \in Nat /\ big[t].end - big[t].begin \in Nat
          /\ big[t].begin + (big[t].end - big[t].begin) <= Size
          /\ big[t].begin + (big[t].end - big[t].begin) = m.end
      BY <1>3, <1>4
    <2>2. /\ t <= ThreadAt(big[t].begin, stripe)
          /\ ThreadAt(big[t].begin + (big[t].end - big[t].begin), stripe) <= t + n
      BY <1>4, <1>6, <2>1
    <2>3. QED
      BY <1>5, <1>6, <1>7, <1>8, <1>9, <1>10, <2>1, <2>2 DEF MayQueue
  <1>12. ASSUME NEW u \in Team(m) \ {t}
         PROVE  pc[u] = "inEnd" \/ (pc[u] = "inStart" /\ calls[u] = 3)
    <2>1. u \in Id /\ mine[u] = m /\ calls[u] >= 2 /\ u # Root(m)
      BY <1>1, <1>2, <1>8
    <2>2. AsMember(u, m) /\ pc[u] \in PC \ Outside
      BY <1>2, <2>1 DEF IInv, Types, Membership, MemberOK
    <2>3. QED
      BY <2>1, <2>2 DEF AsMember, PC, Outside
  <1>13. QED
    BY <1>1, <1>4, <1>5, <1>7, <1>8, <1>11, <1>12

(* queueTasks of the root of a big task keeps the invariant.               *)
LEMMA QueueIInv ==
    ASSUME IInv, NEW t \in Id, Queue(t)
    PROVE  IInv'
  <1> DEFINE m == mine[t]
             n == Pool(t).n
             offset == big[t].begin
             psize == big[t].end - big[t].begin
  <1>1. pc[t] = "queue" /\ Goto(t, "release") /\ UNCHANGED <<mine, calls, asRoot>>
    BY DEF Queue
  <1>2. PICK rs \in Buckets(psize) : QueueTasks(t, n, psize, offset, rs, EmptySlot(t))
    BY DEF Queue
  <1>3. /\ m \in DOMAIN pools /\ t = Root(m) /\ Open(m)
        /\ Task(offset, psize) = m
        /\ Group(t, n) = Team(m)
        /\ MayQueue(t, n, psize, offset)
        /\ \A u \in Team(m) \ {t} :
               mine[u] = m /\ (pc[u] = "inEnd" \/ (pc[u] = "inStart" /\ calls[u] = 3))
    BY <1>1, RootMayQueue
  <1>4. \A u \in Id : EmptySlot(t)[u] = IF slot[u] = m THEN NoPool ELSE slot[u]
    <2>1. slot[t] = m /\ m # NoPool
      BY <1>3, TeamSize DEF IInv, Open
    <2>2. \A u \in Id : slot[u] = m => u = t
      BY <1>3, <2>1 DEF IInv, Entries
    <2>3. QED
      BY <2>1, <2>2 DEF IInv, Types, EmptySlot
  <1> HIDE DEF offset, psize, n
  <1>5. Queues(t, n, psize, offset, rs, EmptySlot(t))
    BY <1>1, <1>2, <1>3, <1>4 DEF Queues
  <1>6. /\ Pools' /\ Rounds' /\ DoneRight' /\ Entries' /\ Ranges'
        /\ big' \in [Id -> [has : BOOLEAN, begin : 0 .. Size, end : 0 .. Size,
                            root : Id, tid : Id]]
        /\ DOMAIN slot' = Id /\ queued' \in [Id -> SUBSET TaskRange]
    BY <1>5, QueuePools, QueueEntries, QueueRanges
  <1>7. /\ \A u \in Id \ Team(m) : big'[u] = big[u]
        /\ \A p \in DOMAIN pools : /\ p \in DOMAIN pools' /\ pools'[p] = pools[p]
                                   /\ Open(p)' <=> Open(p) /\ p # m
    <2>1. \A u \in Id \ Team(m) : big'[u] = big[u]
      BY <1>3, <1>5, QueueEntries
    <2>2. /\ DOMAIN pools' = DOMAIN pools \cup NewPools(offset, rs)
          /\ \A p \in DOMAIN pools : pools'[p] = pools[p]
      BY <1>5, QueuePools
    <2>3. \A p \in DOMAIN pools : Open(p)' <=> Open(p) /\ p # m
      BY <1>3, <1>5, QueueOpens
    <2>4. QED
      BY <2>1, <2>2, <2>3
  <1>8. /\ pc' \in [Id -> PC] /\ pc'[t] = "release"
        /\ \A u \in Id \ {t} : pc'[u] = pc[u]
    BY <1>1 DEF IInv, Types, Goto, PC
  <1>9. Types'
    BY <1>1, <1>6, <1>8 DEF IInv, Types
  <1>10. ASSUME NEW u \in Id
         PROVE  MemberOK(u)'
    <2>1. MemberOK(u) /\ m # NoPool
      BY <1>3, TeamSize DEF IInv, Membership
    <2>2. mine' = mine /\ calls' = calls /\ asRoot' = asRoot
      BY <1>1
    <2>3. CASE u = t
      <3>1. AsMember(t, m)
        BY <1>1, InPool DEF Outside
      <3>2. m \in DOMAIN pools' /\ pools'[m] = pools[m] /\ ~Open(m)'
        BY <1>3, <1>7, <2>2
      <3>3. AsMember(t, m)'
        BY <1>1, <1>8, <2>2, <3>1, <3>2 DEF AsMember
      <3>4. QED
        BY <1>8, <2>1, <2>2, <2>3, <3>3 DEF MemberOK, Outside
    <2>4. CASE u # t /\ u \in Team(m)
      <3>1. mine[u] = m /\ (pc[u] = "inEnd" \/ (pc[u] = "inStart" /\ calls[u] = 3)) /\ u # Root(m)
        BY <1>3, <2>4
      <3>2. AsMember(u, m)
        BY <2>1, <3>1 DEF MemberOK
      <3>3. m \in DOMAIN pools' /\ pools'[m] = pools[m] /\ ~Open(m)'
        BY <1>3, <1>7, <2>2
      <3>4. pc'[u] = pc[u]
        BY <1>8, <2>4
      <3>5. AsMember(u, m)'
        BY <2>2, <3>1, <3>2, <3>3, <3>4 DEF AsMember
      <3>6. QED
        BY <2>1, <2>2, <3>1, <3>4, <3>5 DEF MemberOK, Outside
    <2>5. CASE u # t /\ u \notin Team(m)
      <3>1. pc'[u] = pc[u] /\ big'[u] = big[u]
        BY <1>7, <1>8, <2>5
      <3>2. ASSUME mine[u] # NoPool
            PROVE  AsMember(u, mine[u])'
        <4>1. AsMember(u, mine[u])
          BY <2>1, <3>2 DEF MemberOK
        <4>2. mine[u] \in DOMAIN pools /\ mine[u] # m
          BY <2>5, <4>1 DEF AsMember
        <4>3. /\ mine[u] \in DOMAIN pools' /\ pools'[mine[u]] = pools[mine[u]]
              /\ Open(mine[u])' <=> Open(mine[u])
          BY <1>7, <2>2, <4>2
        <4>4. QED
          BY <2>2, <3>1, <4>1, <4>3 DEF AsMember
      <3>3. QED
        BY <2>1, <2>2, <3>1, <3>2 DEF MemberOK
    <2>6. QED
      BY <2>3, <2>4, <2>5
  <1>11. Membership'
    BY <1>10 DEF Membership
  <1>12. Top'
    BY <1>1, <1>8, PastTop, Ids DEF IInv, Top
  <1>13. QED
    BY <1>6, <1>9, <1>11, <1>12 DEF IInv

-----------------------------------------------------------------------------
LEMMA NextIInv == IInv /\ [Next]_vars => IInv'
  <1> SUFFICES ASSUME IInv, [Next]_vars PROVE IInv'
    OBVIOUS
  <1>1. CASE QueueTop
    BY <1>1, QueueTopIInv
  <1>2. ASSUME NEW t \in Id, Step(t) PROVE IInv'
    BY <1>2, PassTopBarrierIInv, TakePoolIInv, NoBigTaskIInv, ComeStartIInv, LeaveStartIInv,
       FuncIInv, LeaveEndIInv, QueueIInv, ReleaseIInv, LeaveReleaseIInv DEF Step
  <1>3. CASE Terminated \/ UNCHANGED vars
    <2>1. /\ big' = big /\ slot' = slot /\ pools' = pools /\ mine' = mine
          /\ calls' = calls /\ asRoot' = asRoot /\ pc' = pc /\ queued' = queued
      BY <1>3 DEF Terminated, vars
    <2>2. \A p : Open(p)' <=> Open(p)
      BY <2>1 DEF Open
    <2>3. \A p, u : Came(p, u)' = Came(p, u)
      BY <2>1, <2>2 DEF Came
    <2>4. /\ \A p \in DOMAIN pools : pools'[p] \in [n : Nat, arrived : Nat, done : BOOLEAN]
          /\ pools'= pools
      BY <2>1 DEF IInv, Pools
    <2>5. Pools' /\ Entries' /\ Ranges'
      BY <2>1, <2>4, Quiet
    <2>6. Rounds' /\ DoneRight'
      BY <2>1, <2>3, SameRounds
    <2>7. \A u \in Id : MemberOK(u)'
      <3> SUFFICES ASSUME NEW u \in Id PROVE MemberOK(u)'
        OBVIOUS
      <3>1. MemberOK(u)
        BY DEF IInv, Membership
      <3>2. mine[u] # NoPool => AsMember(u, mine[u])'
        BY <2>1, <2>2, <3>1 DEF MemberOK, AsMember
      <3>3. QED
        BY <2>1, <3>1, <3>2 DEF MemberOK
    <2>8. Types' /\ Top' /\ Membership'
      BY <2>1, <2>7 DEF IInv, Types, Top, Membership
    <2>9. QED
      BY <2>5, <2>6, <2>8 DEF IInv
  <1>4. QED
    BY <1>1, <1>2, <1>3 DEF Next

(* Entries of big_tasks, slots of thread_pools, the rounds of every pool's  *)
(* barrier and the ranges still to be sorted stay tied together through all *)
(* of processBigTasks, for any buckets the partitioning steps leave.        *)
THEOREM Invariance == Spec => []IInv
  BY InitIInv, NextIInv, PTL DEF Spec

-----------------------------------------------------------------------------
(* What the invariant says of the sort                                     *)

(* An entry of big_tasks leads to an open pool, which is not done.         *)
LEMMA EntryLeadsToPool ==
    ASSUME IInv, NEW t \in Id, big[t].has
    PROVE  /\ slot[big[t].root] \in DOMAIN pools /\ Root(slot[big[t].root]) = big[t].root
           /\ t \in Team(slot[big[t].root]) /\ Open(slot[big[t].root])
           /\ ~pools[slot[big[t].root]].done
  <1> DEFINE q == slot[big[t].root]
  <1>1. q # NoPool /\ t \in Team(q) /\ big[t].root \in Id
    BY DEF IInv, Entries, Types
  <1>2. q \in DOMAIN pools /\ Root(q) = big[t].root
    BY <1>1 DEF IInv, Entries
  <1>3. Open(q)
    BY <1>2 DEF Open
  <1>4. ~pools[q].done
    BY <1>2, <1>3, DoneIsClosed DEF IInv, DoneRight
  <1>5. QED
    BY <1>1, <1>2, <1>3, <1>4

(* GroupComplete: a thread that finds a big task finds the whole group     *)
(* queueTasks formed for it, and the group's pool ready in the root's slot *)
(* of thread_pools.                                                        *)
THEOREM GroupsComplete == Spec => []GroupComplete
  <1>1. IInv => GroupComplete
    <2> SUFFICES ASSUME IInv, NEW t \in Id, pc[t] = "loop", big[t].has
                 PROVE  LET root == big[t].root
                            p == slot[root]
                        IN  /\ p # NoPool /\ ~pools[p].done
                            /\ Members(root) = root .. root + pools[p].n - 1
                            /\ big[t].tid = t - root
                            /\ big[t].begin = big[root].begin /\ big[t].end = big[root].end
      BY DEF GroupComplete
    <2> DEFINE root == big[t].root
               p == slot[root]
    <2>1. /\ p \in DOMAIN pools /\ Root(p) = root /\ t \in Team(p) /\ Open(p)
          /\ ~pools[p].done
      BY EntryLeadsToPool
    <2>2. /\ root \in Team(p) /\ Team(p) \subseteq Id /\ p # NoPool /\ root \in Nat
          /\ pools[p].n = ThreadAt(p.end, stripe) - root /\ pools[p].n \in Nat
      BY <2>1, TeamSize DEF IInv, Pools
    <2>3. \A u \in Team(p) :
             /\ big[u].has /\ big[u].begin = p.begin /\ big[u].end = p.end
             /\ big[u].root = root /\ big[u].tid = u - root
      BY <2>1 DEF IInv, Entries
    <2>4. ThreadAt(p.end, stripe) \in Nat
      <3>1. GoodRange(p)
        BY <2>1 DEF IInv, Pools
      <3>2. QED
        BY <3>1, ThreadsInOrder, Ids DEF GoodRange, TaskRange
    <2>5. Team(p) = root .. root + pools[p].n - 1
      BY <2>1, <2>2, <2>4 DEF Team
    <2>6. Members(root) = Team(p)
      <3>1. ASSUME NEW u \in Members(root)
            PROVE  u \in Team(p)
        BY EntryLeadsToPool DEF Members
      <3>2. \A u \in Team(p) : u \in Members(root)
        BY <2>2, <2>3 DEF Members
      <3>3. QED
        BY <3>1, <3>2
    <2>7. QED
      BY <2>1, <2>2, <2>3, <2>5, <2>6
  <1>2. QED
    BY Invariance, <1>1, PTL

(* GroupDataStable: while a root queues buckets its team is held in the    *)
(* pool, and while a thread runs func_ its root's entry and slot name the  *)
(* task it works on.                                                       *)
THEOREM GroupDataHoldsStill == Spec => []GroupDataStable
  <1>1. IInv => RootQueuesAlone
    <2> SUFFICES ASSUME IInv, NEW t \in Id, pc[t] = "queue",
                        NEW u \in (t + 1) .. (t + Pool(t).n - 1)
                 PROVE  mine[u] = mine[t] /\ pc[u] \in {"inEnd", "inStart"}
      BY DEF RootQueuesAlone
    <2>1. /\ Group(t, Pool(t).n) = Team(mine[t])
          /\ \A v \in Team(mine[t]) \ {t} :
                 mine[v] = mine[t] /\ (pc[v] = "inEnd" \/ (pc[v] = "inStart" /\ calls[v] = 3))
      BY RootMayQueue
    <2>2. u \in Group(t, Pool(t).n) \ {t}
      BY Ids DEF Group
    <2>3. QED
      BY <2>1, <2>2
  <1>2. IInv => FuncReadsItsTask
    <2> SUFFICES ASSUME IInv, NEW t \in Id, pc[t] = "func"
                 PROVE  /\ big[t].has
                        /\ mine[big[t].root] = mine[t]
                        /\ slot[big[t].root] = mine[t]
                        /\ big[big[t].root].begin = big[t].begin
                        /\ big[big[t].root].end = big[t].end
      BY DEF FuncReadsItsTask
    <2> DEFINE m == mine[t]
    <2>1. /\ m \in DOMAIN pools /\ t \in Team(m) /\ Open(m)
          /\ pools[m].arrived >= pools[m].n
      BY InPool DEF AsMember, Outside
    <2>2. Root(m) \in Team(m) /\ pools[m].n \in Nat
      BY <2>1, TeamSize DEF IInv
    <2>3. \A u \in Team(m) :
             big[u].has /\ big[u].begin = m.begin /\ big[u].end = m.end /\ big[u].root = Root(m)
      BY <2>1 DEF IInv, Entries
    <2>4. Came(m, Root(m)) >= 1
      <3>1. pools[m].arrived >= 1 * pools[m].n
        BY <2>1, <2>2
      <3>2. QED
        BY <2>1, <2>2, <3>1, MeetingOverAllCame
    <2>5. mine[Root(m)] = m
      BY <2>1, <2>4 DEF Came
    <2>6. QED
      BY <2>1, <2>2, <2>3, <2>5 DEF Open
  <1>3. IInv => GroupDataStable
    BY <1>1, <1>2 DEF GroupDataStable
  <1>4. QED
    BY Invariance, <1>3, PTL

(* AllPoolsDone: when all threads have gone on to their small tasks, every *)
(* pool had its three meetings and was released, and no slot names one.    *)
THEOREM PoolsReleased == Spec => []AllPoolsDone
  <1>1. IInv => AllPoolsDone
    <2> SUFFICES ASSUME IInv, \A t \in Id : pc[t] = "small"
                 PROVE  /\ \A p \in DOMAIN pools :
                               pools[p].done /\ pools[p].arrived = 3 * pools[p].n
                        /\ \A t \in Id : slot[t] = NoPool
      BY DEF AllPoolsDone
    <2>1. \A t \in Id : mine[t] = NoPool /\ ~big[t].has
      BY DEF IInv, Membership, MemberOK, Outside
    <2>2. ASSUME NEW p \in DOMAIN pools
          PROVE  /\ ~Open(p) /\ pools[p].done /\ pools[p].arrived = 3 * pools[p].n
      <3>1. /\ Root(p) \in Team(p) /\ Team(p) \subseteq Id /\ p # NoPool
            /\ Cardinality(Team(p)) = pools[p].n /\ pools[p].n \in Nat
        BY TeamSize DEF IInv
      <3>2. ~Open(p)
        BY <2>1, <3>1 DEF IInv, Entries
      <3>3. \A u \in Team(p) : Came(p, u) = 3
        BY <2>1, <3>1, <3>2 DEF Came
      <3>4. pools[p].done
        BY <3>1, <3>3 DEF IInv, DoneRight
      <3>5. PICK k \in 0 .. 2 : InRound(p, k)
        BY DEF IInv, Rounds
      <3>6. Came(p, Root(p)) \in {k, k + 1}
        BY <3>1, <3>5 DEF InRound
      <3>7. k = 2
        BY <3>1, <3>3, <3>6
      <3>8. {t \in Team(p) : Came(p, t) = k + 1} = Team(p)
        BY <3>3, <3>7
      <3>9. pools[p].arrived = 2 * pools[p].n + pools[p].n
        BY <3>1, <3>5, <3>7, <3>8 DEF InRound
      <3>10. QED
        BY <3>1, <3>2, <3>4, <3>9
    <2>3. ASSUME NEW t \in Id, slot[t] # NoPool
          PROVE  FALSE
      <3>1. slot[t] \in DOMAIN pools /\ Root(slot[t]) = t
        BY <2>3 DEF IInv, Entries
      <3>2. Open(slot[t])
        BY <3>1 DEF Open
      <3>3. QED
        BY <2>2, <3>1, <3>2
    <2>4. QED
      BY <2>2, <2>3
  <1>2. QED
    BY Invariance, <1>1, PTL

(* QueuedDisjoint: the ranges on the private queues never overlap, so no   *)
(* element is sorted by two threads.                                       *)
THEOREM QueuedRangesDisjoint == Spec => []QueuedDisjoint
  <1>1. IInv => QueuedDisjoint
    <2> SUFFICES ASSUME IInv
                 PROVE  QueuedDisjoint
      OBVIOUS
    <2>1. ASSUME NEW r \in UNION {queued[t] : t \in Id}, NEW s \in UNION {queued[t] : t \in Id},
                 r # s
          PROVE  Apart(r, s)
      <3>1. PICK t \in Id : r \in queued[t]
        OBVIOUS
      <3>2. PICK u \in Id : s \in queued[u]
        OBVIOUS
      <3>3. QED
        BY <2>1, <3>1, <3>2 DEF IInv, Ranges
    <2>2. ASSUME NEW t \in Id, NEW u \in Id, t # u
          PROVE  queued[t] \cap queued[u] = {}
      <3>1. ASSUME NEW r \in queued[t], r \in queued[u]
            PROVE  FALSE
        <4>1. Apart(r, r) /\ GoodRange(r)
          BY <2>2, <3>1 DEF IInv, Ranges
        <4>2. r.begin \in Nat /\ r.end \in Nat /\ r.begin < r.end
          BY <4>1, Ids DEF GoodRange, TaskRange
        <4>3. QED
          BY <4>1, <4>2 DEF Apart
      <3>2. QED
        BY <3>1
    <2>3. QED
      BY <2>1, <2>2 DEF QueuedDisjoint, Disjoint
  <1>2. QED
    BY Invariance, <1>1, PTL

(* QueueOfHeldThread: a range is put on the private queue of another       *)
(* thread only while that thread is held in a barrier.                     *)
THEOREM QueuesOfHeldThreads == Spec => QueueOfHeldThread
  <1> DEFINE Held == {"partition", "barrier", "queue", "inEnd", "inStart"}
  <1>1. ASSUME IInv, QueueTop
        PROVE  \A u \in Id : queued'[u] # queued[u] => pc[u] \in Held
    <2>1. \A u \in Id : pc[u] \in {"partition", "barrier"}
      BY <1>1 DEF IInv, Top, QueueTop
    <2>2. QED
      BY <2>1
  <1>2. ASSUME IInv, NEW t \in Id, Queue(t)
        PROVE  \A u \in Id : queued'[u] # queued[u] => pc[u] \in Held
    <2>1. pc[t] = "queue"
      BY <1>2 DEF Queue
    <2>2. /\ Group(t, Pool(t).n) = Team(mine[t])
          /\ MayQueue(t, Pool(t).n, big[t].end - big[t].begin, big[t].begin)
          /\ \A u \in Team(mine[t]) \ {t} : pc[u] \in {"inEnd", "inStart"}
      BY <1>2, <2>1, RootMayQueue
    <2>3. PICK rs \in Buckets(big[t].end - big[t].begin) :
             QueueTasks(t, Pool(t).n, big[t].end - big[t].begin, big[t].begin, rs, EmptySlot(t))
      BY <1>2 DEF Queue
    <2>4. \A u \in Id \ Group(t, Pool(t).n) : queued'[u] = queued[u]
      <3> DEFINE n == Pool(t).n
                 offset == big[t].begin
                 psize == big[t].end - big[t].begin
      <3> HIDE DEF n, offset, psize
      <3>1. /\ offset \in Nat /\ psize \in Nat /\ offset + psize <= Size
            /\ t \in Nat /\ n \in Nat \ {0}
            /\ t <= ThreadAt(offset, stripe) /\ ThreadAt(offset + psize, stripe) <= t + n
        BY <2>2 DEF MayQueue, n, offset, psize
      <3>2. rs \in Buckets(psize)
        BY DEF psize
      <3>3. \A u \in Id : queued'[u] = queued[u] \cup SmallFor(t, n, psize, offset, rs, u)
        BY <2>3 DEF QueueTasks, n, offset, psize
      <3>4. ASSUME NEW u \in Id, NEW q \in SmallFor(t, n, psize, offset, rs, u)
            PROVE  u \in t .. t + n - 1
        BY <3>1, <3>2, SmallPlace
      <3>5. QED
        BY <3>3, <3>4 DEF Group, n
    <2>5. QED
      BY <2>1, <2>2, <2>4
  <1>3. ASSUME IInv, [Next]_vars
        PROVE  \A u \in Id : queued'[u] # queued[u] => pc[u] \in Held
    <2>1. CASE QueueTop
      BY <1>1, <1>3, <2>1
    <2>2. ASSUME NEW t \in Id, Queue(t)
          PROVE  \A u \in Id : queued'[u] # queued[u] => pc[u] \in Held
      BY <1>2, <1>3, <2>2
    <2>3. ASSUME NEW t \in Id, Step(t), ~Queue(t)
          PROVE  queued' = queued
      BY <2>3 DEF Step, PassTopBarrier, TakePool, NoBigTask, ComeStart, LeaveStart, Func,
                  LeaveEnd, Release, LeaveRelease
    <2>4. CASE Terminated \/ UNCHANGED vars
      BY <2>4 DEF Terminated, vars
    <2>5. QED
      BY <1>3, <2>1, <2>2, <2>3, <2>4 DEF Next
  <1>4. IInv /\ [Next]_vars =>
          [\A t \in Id : queued'[t] # queued[t] =>
              pc[t] \in {"partition", "barrier", "queue", "inEnd", "inStart"}]_vars
    BY <1>3
  <1>5. QED
    BY Invariance, <1>4, PTL DEF Spec, QueueOfHeldThread

=============================================================================
