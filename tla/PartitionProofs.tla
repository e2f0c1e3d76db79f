-------------------------- MODULE PartitionProofs --------------------------
(***************************************************************************)
(* Theorems about Partition, for any number of threads, elements and       *)
(* buckets and any classification: the boundaries in bucket_start_save are *)
(* exact, distributeElements is a stable counting sort, the buckets are    *)
(* divided among the threads without two of them sorting or moving what    *)
(* one sorts, and every bucket ends where its user expects it.             *)
(*                                                                         *)
(* First come sums over finite sets, the stripes and the ranks of          *)
(* elements; then one invariant for each phase (CountInv, WorkInv,         *)
(* ScatterInv, PlaceInv), each proved with the help of those before it.    *)
(***************************************************************************)
EXTENDS Partition, FiniteSetTheorems, TLAPS

-----------------------------------------------------------------------------

(* Finite sets are well-founded: a family of subsets of S that is not all  *)
(* of them leaves out one whose strict subsets it all contains.            *)
LEMMA SmallestLeftOut ==
    ASSUME NEW S, IsFiniteSet(S), NEW G, NEW B \in SUBSET S, B \notin G
    PROVE  \E R \in SUBSET S : R \notin G /\ \A U \in SUBSET R : U # R => U \in G
  <1> DEFINE Q == {U \in SUBSET S : U \notin G}
  <1>1. IsWellFoundedOn(StrictSubsetOrdering(S), SUBSET S)
    BY FS_StrictSubsetOrderingWellFounded, FS_FiniteSubsetsOfFinite
  <1>2. Q \subseteq SUBSET S /\ Q # {}
    OBVIOUS
  <1> HIDE DEF Q
  <1>3. PICK R \in Q : \A U \in Q : <<U, R>> \notin StrictSubsetOrdering(S)
    BY <1>1, <1>2, WFMin
  <1>4. R \in SUBSET S /\ R \notin G
    BY DEF Q
  <1>5. ASSUME NEW U \in SUBSET R, U # R  PROVE U \in G
    <2>1. U \in SUBSET S
      BY <1>4
    <2>2. <<U, R>> \in StrictSubsetOrdering(S)
      BY <1>4, <2>1, <1>5 DEF StrictSubsetOrdering
    <2>3. U \notin Q
      BY <1>3, <2>2
    <2>4. QED
      BY <2>1, <2>3 DEF Q
  <1>6. QED
    BY <1>4, <1>5

(* So a family that has the empty set and stays closed when an element is  *)
(* added has every subset.                                                 *)
LEMMA SetInduction ==
    ASSUME NEW S, IsFiniteSet(S), NEW G, {} \in G,
           \A U \in SUBSET S : \A x \in S \ U : U \in G => U \cup {x} \in G
    PROVE  SUBSET S \subseteq G
  <1> SUFFICES ASSUME NEW B \in SUBSET S, B \notin G  PROVE FALSE
    OBVIOUS
  <1>1. PICK R \in SUBSET S : R \notin G /\ \A U \in SUBSET R : U # R => U \in G
    BY SmallestLeftOut
  <1>2. PICK x : x \in R
    BY <1>1
  <1>3. R \ {x} \in G /\ R \ {x} \in SUBSET S /\ x \in S \ (R \ {x})
    BY <1>1, <1>2
  <1>4. (R \ {x}) \cup {x} = R
    BY <1>2
  <1>5. QED
    BY <1>1, <1>3, <1>4

-----------------------------------------------------------------------------
(* SumFunctionOnSet is defined by recursion on the set of indices.         *)
First(s) == CHOOSE x \in s : TRUE
Recursion(g, f, S) ==
    g = [s \in SUBSET S |-> IF s = {} THEN 0 ELSE f[First(s)] + g[s \ {First(s)}]]

(* The definition of the community modules, with its recursion named.      *)
LEMMA SumIsChoice ==
    ASSUME NEW f, NEW S
    PROVE  SumFunctionOnSet(f, S) = (CHOOSE g : Recursion(g, f, S))[S]
  BY DEF SumFunctionOnSet, FoldFunctionOnSet, MapThenFoldSet, First, Recursion

Solution(f, S) == [s \in SUBSET S |-> SumFunctionOnSet(f, s)]
OneSolution(f, S) == \A g : Recursion(g, f, S) <=> g = Solution(f, S)

(* A chosen element is one of the set.                                     *)
LEMMA FirstIn == \A s : s # {} => First(s) \in s
  BY DEF First

(* The step of the induction: if the recursion has one solution on all     *)
(* smaller sets, it has one on this set.                                   *)
LEMMA OneSolutionStep ==
    ASSUME NEW f, NEW S, \A U \in SUBSET S : U # S => OneSolution(f, U)
    PROVE  OneSolution(f, S)
  <1> DEFINE body(g, s) == IF s = {} THEN 0 ELSE f[First(s)] + g[s \ {First(s)}]
             h == [s \in SUBSET S |-> IF s = S THEN body(Solution(f, S), s)
                                      ELSE SumFunctionOnSet(f, s)]
  <1>0. \A g, U : Recursion(g, f, U) <=> g = [s \in SUBSET U |-> body(g, s)]
    BY DEF Recursion
  <1>1. ASSUME NEW U \in SUBSET S, U # S
        PROVE  SumFunctionOnSet(f, U) = body(Solution(f, S), U)
    <2>1. Recursion(Solution(f, U), f, U)
      BY <1>1 DEF OneSolution
    <2>2. Solution(f, U)[U] = body(Solution(f, U), U)
      <3>1. Solution(f, U) = [s \in SUBSET U |-> body(Solution(f, U), s)]
        BY <2>1, <1>0
      <3>2. U \in SUBSET U
        OBVIOUS
      <3> HIDE DEF body
      <3>3. QED
        BY <3>1, <3>2
    <2>3. Solution(f, U)[U] = SumFunctionOnSet(f, U)
      BY DEF Solution
    <2>4. U # {} => U \ {First(U)} \in SUBSET U /\ U \ {First(U)} \in SUBSET S
      OBVIOUS
    <2>5. U # {} => Solution(f, U)[U \ {First(U)}] = Solution(f, S)[U \ {First(U)}]
      BY <2>4 DEF Solution
    <2>6. QED
      BY <2>2, <2>3, <2>5
  <1>2. S # {} => S \ {First(S)} \in SUBSET S /\ S \ {First(S)} # S
    BY FirstIn
  <1>3. ASSUME NEW s \in SUBSET S  PROVE h[s] = body(Solution(f, S), s)
    BY <1>1, <1>3
  <1>4. \A s \in SUBSET S : s # {} => s \ {First(s)} \in SUBSET S /\ s \ {First(s)} # S
    BY FirstIn
  <1>5. ASSUME NEW s \in SUBSET S  PROVE h[s] = body(h, s)
    <2>1. s # {} => h[s \ {First(s)}] = Solution(f, S)[s \ {First(s)}]
      BY <1>4 DEF Solution
    <2>2. QED
      BY <2>1, <1>3
  <1>6. Recursion(h, f, S)
    <2>1. h = [s \in SUBSET S |-> body(h, s)]
      BY <1>5
    <2>2. QED
      BY <2>1, <1>0
  <1>7. ASSUME NEW g, Recursion(g, f, S)  PROVE g = h
    <2>0. g = [s \in SUBSET S |-> body(g, s)]
      BY <1>7, <1>0
    <2>1. ASSUME NEW U \in SUBSET S, U # S  PROVE g[U] = SumFunctionOnSet(f, U)
      <3> DEFINE r == [s \in SUBSET U |-> g[s]]
      <3>1. ASSUME NEW s \in SUBSET U  PROVE r[s] = body(r, s)
        <4>1. s \in SUBSET S /\ (s # {} => s \ {First(s)} \in SUBSET U)
          OBVIOUS
        <4>2. g[s] = body(g, s)
          BY <2>0, <4>1
        <4>3. QED
          BY <4>1, <4>2
      <3>2. r = [s \in SUBSET U |-> body(r, s)]
        BY <3>1
      <3>3. Recursion(r, f, U)
        BY <3>2, <1>0
      <3>4. r = Solution(f, U)
        BY <3>3, <2>1 DEF OneSolution
      <3>5. QED
        BY <3>4 DEF Solution
    <2>2. S # {} => g[S \ {First(S)}] = Solution(f, S)[S \ {First(S)}]
      BY <2>1, <1>2 DEF Solution
    <2>3. g[S] = h[S]
      BY <2>0, <2>2
    <2>4. \A s \in SUBSET S : g[s] = h[s]
      BY <2>1, <2>3
    <2>5. QED
      BY <2>0, <2>4
  <1> HIDE DEF h
  <1>8. (CHOOSE g : Recursion(g, f, S)) = h
    BY <1>6, <1>7
  <1>9. SumFunctionOnSet(f, S) = h[S]
    BY <1>8, SumIsChoice
  <1>10. h = Solution(f, S)
    BY <1>9 DEF h, Solution
  <1>11. QED
    BY <1>6, <1>7, <1>10 DEF OneSolution

(* The sum unfolds by one element on every finite set.                     *)
LEMMA SumUnfolds ==
    ASSUME NEW f, NEW S, IsFiniteSet(S)
    PROVE  SumFunctionOnSet(f, S) =
             IF S = {} THEN 0 ELSE f[First(S)] + SumFunctionOnSet(f, S \ {First(S)})
  <1> DEFINE G == {U \in SUBSET S : OneSolution(f, U)}
  <1>1. OneSolution(f, S)
    <2> SUFFICES ASSUME S \notin G  PROVE FALSE
      OBVIOUS
    <2>1. PICK R \in SUBSET S : R \notin G /\ \A U \in SUBSET R : U # R => U \in G
      <3> HIDE DEF G
      <3> QED BY SmallestLeftOut
    <2>2. OneSolution(f, R)
      BY <2>1, OneSolutionStep
    <2>3. QED
      BY <2>1, <2>2
  <1>2. Solution(f, S) = [s \in SUBSET S |->
            IF s = {} THEN 0 ELSE f[First(s)] + Solution(f, S)[s \ {First(s)}]]
    BY <1>1 DEF OneSolution, Recursion
  <1>3. Solution(f, S)[S] = IF S = {} THEN 0
                            ELSE f[First(S)] + Solution(f, S)[S \ {First(S)}]
    BY <1>2
  <1>4. S \in SUBSET S /\ S \ {First(S)} \in SUBSET S
    OBVIOUS
  <1>5. QED
    BY <1>3, <1>4 DEF Solution

(* The sum of natural numbers is one, whatever is left out of it.          *)
LEMMA SumNat ==
    ASSUME NEW S, IsFiniteSet(S), NEW f \in [S -> Nat], NEW R \in SUBSET S
    PROVE  SumFunctionOnSet(f, R) \in Nat
  <1> DEFINE G == {U \in SUBSET S : SumFunctionOnSet(f, U) \in Nat}
  <1> SUFFICES ASSUME R \notin G  PROVE FALSE
    OBVIOUS
  <1>1. PICK B \in SUBSET S : B \notin G /\ \A U \in SUBSET B : U # B => U \in G
    <2> HIDE DEF G
    <2> QED BY SmallestLeftOut
  <1>2. IsFiniteSet(B)
    BY FS_Subset
  <1>3. CASE B = {}
    <2>1. SumFunctionOnSet(f, B) = 0
      BY <1>2, <1>3, SumUnfolds
    <2>2. QED
      BY <1>1, <2>1
  <1>4. CASE B # {}
    <2>1. First(B) \in B
      BY <1>4, FirstIn
    <2>2. B \ {First(B)} \in SUBSET B /\ B \ {First(B)} # B
      BY <2>1
    <2>3. SumFunctionOnSet(f, B \ {First(B)}) \in Nat
      BY <1>1, <2>2
    <2>4. f[First(B)] \in Nat
      BY <2>1
    <2>5. SumFunctionOnSet(f, B) = f[First(B)] + SumFunctionOnSet(f, B \ {First(B)})
      BY <1>2, <1>4, SumUnfolds
    <2>6. QED
      BY <1>1, <2>3, <2>4, <2>5
  <1>5. QED
    BY <1>3, <1>4

(* The order in which the values are added does not matter.                *)
LEMMA SumTakes ==
    ASSUME NEW S, IsFiniteSet(S), NEW f \in [S -> Nat],
           NEW R \in SUBSET S, NEW x \in R
    PROVE  SumFunctionOnSet(f, R) = f[x] + SumFunctionOnSet(f, R \ {x})
  <1> DEFINE G == {U \in SUBSET S : \A y \in U :
                      SumFunctionOnSet(f, U) = f[y] + SumFunctionOnSet(f, U \ {y})}
  <1> SUFFICES ASSUME R \notin G  PROVE FALSE
    OBVIOUS
  <1>1. PICK B \in SUBSET S : B \notin G /\ \A U \in SUBSET B : U # B => U \in G
    <2> HIDE DEF G
    <2> QED BY SmallestLeftOut
  <1>2. PICK y \in B : SumFunctionOnSet(f, B) # f[y] + SumFunctionOnSet(f, B \ {y})
    BY <1>1
  <1> DEFINE z == First(B)
             C == B \ {y, z}
  <1>3. IsFiniteSet(B) /\ z \in B
    BY FS_Subset, FirstIn
  <1>4. SumFunctionOnSet(f, B) = f[z] + SumFunctionOnSet(f, B \ {z})
    BY <1>3, SumUnfolds
  <1>5. y # z
    BY <1>2, <1>4
  <1>6. SumFunctionOnSet(f, B \ {z}) = f[y] + SumFunctionOnSet(f, C)
    <2>1. B \ {z} \in G /\ y \in B \ {z} /\ (B \ {z}) \ {y} = C
      BY <1>1, <1>3, <1>5
    <2>2. QED
      BY <2>1
  <1>7. SumFunctionOnSet(f, B \ {y}) = f[z] + SumFunctionOnSet(f, C)
    <2>1. B \ {y} \in G /\ z \in B \ {y} /\ (B \ {y}) \ {z} = C
      BY <1>1, <1>3, <1>5
    <2>2. QED
      BY <2>1
  <1>8. f[y] \in Nat /\ f[z] \in Nat /\ SumFunctionOnSet(f, C) \in Nat
    <2>1. C \in SUBSET S
      OBVIOUS
    <2>2. SumFunctionOnSet(f, C) \in Nat
      BY <2>1, SumNat
    <2>3. QED
      BY <2>2, <1>3
  <1> HIDE DEF z, C, G
  <1>9. QED
    BY <1>2, <1>4, <1>6, <1>7, <1>8

(* The sum of natural numbers grows by what is added to the set, in any    *)
(* order.                                                                  *)
LEMMA SumAdds ==
    ASSUME NEW S, IsFiniteSet(S), NEW f \in [S -> Nat]
    PROVE  /\ SumFunctionOnSet(f, {}) = 0
           /\ \A R \in SUBSET S : SumFunctionOnSet(f, R) \in Nat
           /\ \A R \in SUBSET S : \A x \in S \ R :
                 SumFunctionOnSet(f, R \cup {x}) = SumFunctionOnSet(f, R) + f[x]
  <1>1. SumFunctionOnSet(f, {}) = 0
    BY FS_EmptySet, SumUnfolds
  <1>2. \A R \in SUBSET S : SumFunctionOnSet(f, R) \in Nat
    BY SumNat
  <1>3. ASSUME NEW R \in SUBSET S, NEW x \in S \ R
        PROVE  SumFunctionOnSet(f, R \cup {x}) = SumFunctionOnSet(f, R) + f[x]
    <2>1. R \cup {x} \in SUBSET S /\ x \in R \cup {x} /\ (R \cup {x}) \ {x} = R
      OBVIOUS
    <2>2. SumFunctionOnSet(f, R \cup {x}) = f[x] + SumFunctionOnSet(f, (R \cup {x}) \ {x})
      BY <2>1, SumTakes
    <2>3. SumFunctionOnSet(f, R \cup {x}) = f[x] + SumFunctionOnSet(f, R)
      BY <2>1, <2>2
    <2>4. f[x] \in Nat /\ SumFunctionOnSet(f, R) \in Nat
      BY <1>2
    <2>5. \A i, j \in Nat : i + j = j + i
      OBVIOUS
    <2>6. QED
      BY <2>3, <2>4, <2>5
  <1>4. QED
    BY <1>1, <1>2, <1>3

(* Counting a set by its parts.                                            *)
LEMMA SumOfParts ==
    ASSUME NEW S, IsFiniteSet(S), NEW V, IsFiniteSet(V),
           NEW part \in [S -> SUBSET V],
           \A x, y \in S : x # y => part[x] \cap part[y] = {},
           NEW R \in SUBSET S
    PROVE  SumFunctionOnSet([x \in S |-> Cardinality(part[x])], R) =
             Cardinality(UNION {part[x] : x \in R})
  <1> DEFINE f == [x \in S |-> Cardinality(part[x])]
             All(U) == UNION {part[x] : x \in U}
             G == {U \in SUBSET S : SumFunctionOnSet(f, U) = Cardinality(All(U))}
  <1>1. f \in [S -> Nat]
    <2>1. \A x \in S : Cardinality(part[x]) \in Nat
      BY FS_Subset, FS_CardinalityType
    <2>2. QED
      BY <2>1
  <1>2. {} \in G
    <2>1. All({}) = {}
      OBVIOUS
    <2> HIDE DEF f
    <2>2. SumFunctionOnSet(f, {}) = 0
      BY <1>1, SumAdds
    <2>3. QED
      BY <2>1, <2>2, FS_EmptySet
  <1>3. ASSUME NEW U \in SUBSET S, NEW x \in S \ U, U \in G  PROVE U \cup {x} \in G
    <2>1. All(U \cup {x}) = All(U) \cup part[x] /\ All(U) \cap part[x] = {}
      OBVIOUS
    <2>2. All(U) \in SUBSET V /\ part[x] \in SUBSET V
      OBVIOUS
    <2>3. IsFiniteSet(All(U)) /\ IsFiniteSet(part[x])
      <3> HIDE DEF All
      <3> QED BY <2>2, FS_Subset
    <2>4. Cardinality(All(U) \cup part[x]) = Cardinality(All(U)) + Cardinality(part[x])
      <3> HIDE DEF All
      <3>1. Cardinality(All(U)) \in Nat /\ Cardinality(part[x]) \in Nat
        BY <2>3, FS_CardinalityType
      <3>2. Cardinality(All(U) \cup part[x]) =
              Cardinality(All(U)) + Cardinality(part[x]) - Cardinality(All(U) \cap part[x])
        BY <2>3, FS_Union
      <3>3. Cardinality(All(U) \cap part[x]) = 0
        BY <2>1, FS_EmptySet
      <3>4. QED
        BY <3>1, <3>2, <3>3
    <2>5. SumFunctionOnSet(f, U \cup {x}) = SumFunctionOnSet(f, U) + f[x]
      <3> HIDE DEF f
      <3> QED BY <1>1, SumAdds
    <2>6. QED
      <3> f[x] = Cardinality(part[x])
        OBVIOUS
      <3> HIDE DEF f, All
      <3> QED BY <1>3, <2>1, <2>4, <2>5
  <1>4. SUBSET S \subseteq G
    <2> HIDE DEF G
    <2> QED BY <1>2, <1>3, SetInduction
  <1>5. QED
    BY <1>4

-----------------------------------------------------------------------------
(* The stripes of the threads.                                             *)
LEMMA MinOfTwo ==
    ASSUME NEW x \in Int, NEW y \in Int
    PROVE  Min({x, y}) = IF x <= y THEN x ELSE y
  <1>1. \A m \in {x, y} : (\A z \in {x, y} : m <= z) => m = IF x <= y THEN x ELSE y
    OBVIOUS
  <1>2. \E m \in {x, y} : \A z \in {x, y} : m <= z
    OBVIOUS
  <1>3. QED
    BY <1>1, <1>2 DEF Min

(* What division does, for the leaves below.                               *)
LEMMA DivNat ==
    ASSUME NEW x \in Nat, NEW d \in Nat \ {0}
    PROVE  x \div d \in Nat /\ d * (x \div d) <= x /\ x < d * (x \div d) + d
  <1>1. x \div d \in Nat
    OBVIOUS
  <1>2. x = d * (x \div d) + (x % d) /\ x % d \in 0 .. d - 1
    OBVIOUS
  <1>3. QED
    BY <1>1, <1>2

(* The stripes of all threads cover the input.                             *)
LEMMA StripeType == myStripe \in Nat \ {0} /\ N <= T * myStripe /\ T \in Nat /\ T > 1 /\ N \in Nat \ {0}
  <1>1. T \in Nat \ {0} /\ T > 1 /\ N \in Nat \ {0}
    BY PartitionAssumption DEF PartitionAssumption
  <1>2. N + T - 1 \in Nat
    BY <1>1
  <1>3. T * myStripe <= N + T - 1 /\ N + T - 1 < T * myStripe + T /\ myStripe \in Nat
    BY <1>1, <1>2, DivNat DEF myStripe, Stripe
  <1> HIDE DEF myStripe
  <1>4. myStripe # 0
    BY <1>1, <1>3
  <1>5. T * myStripe \in Int
    BY <1>1, <1>3
  <1>6. QED
    BY <1>1, <1>3, <1>4, <1>5

(* Multiples of the stripe keep the order.                                 *)
LEMMA Multiples ==
    ASSUME NEW i \in Int, NEW j \in Int, i <= j
    PROVE  /\ i * myStripe \in Int /\ j * myStripe \in Int
           /\ i * myStripe <= j * myStripe
           /\ (i + 1) * myStripe = i * myStripe + myStripe
  <1>1. \A s \in Nat : i * s <= j * s /\ (i + 1) * s = i * s + s /\ i * s \in Int /\ j * s \in Int
    OBVIOUS
  <1>2. QED
    BY <1>1, StripeType

(* A thread's stripe lies in the array, behind those of earlier threads;   *)
(* only at the end are stripes empty.                                      *)
LEMMA StripeBounds ==
    ASSUME NEW t \in Thread
    PROVE  /\ MyBegin(t) \in 0 .. N /\ MyEnd(t) \in 0 .. N
           /\ MyBegin(t) <= MyEnd(t)
           /\ MyBegin(t) = MyEnd(t) => MyBegin(t) = N
           /\ MyBegin(0) = 0
           /\ t = T - 1 => MyEnd(t) = N
           /\ \A u \in 0 .. t - 1 : MyEnd(u) <= MyBegin(t)
  <1>1. t \in Int /\ t >= 0 /\ t <= T - 1 /\ 0 \in Int
    BY StripeType DEF Thread
  <1>2. t * myStripe \in Int /\ (t + 1) * myStripe = t * myStripe + myStripe
        /\ 0 * myStripe <= t * myStripe
    BY <1>1, Multiples
  <1>3. 0 * myStripe = 0
    BY StripeType
  <1>4. MyBegin(t) = IF t * myStripe <= N THEN t * myStripe ELSE N
    BY <1>2, MinOfTwo, StripeType DEF MyBegin
  <1>5. MyEnd(t) = IF t * myStripe + myStripe <= N THEN t * myStripe + myStripe ELSE N
    BY <1>2, MinOfTwo, StripeType DEF MyEnd
  <1>6. MyBegin(0) = 0
    BY <1>3, MinOfTwo, StripeType DEF MyBegin
  <1>7. t = T - 1 => MyEnd(t) = N
    <2> SUFFICES ASSUME t = T - 1  PROVE MyEnd(t) = N
      OBVIOUS
    <2>1. (t + 1) * myStripe = T * myStripe
      BY StripeType
    <2>2. N <= t * myStripe + myStripe
      BY <2>1, <1>2, StripeType
    <2>3. QED
      BY <2>2, <1>5, <1>2, StripeType
  <1>8. ASSUME NEW u \in 0 .. t - 1  PROVE MyEnd(u) <= MyBegin(t)
    <2>1. u + 1 \in Int /\ u + 1 <= t
      BY <1>1
    <2>2. (u + 1) * myStripe \in Int /\ (u + 1) * myStripe <= t * myStripe
      BY <2>1, <1>1, Multiples
    <2>3. MyEnd(u) = IF (u + 1) * myStripe <= N THEN (u + 1) * myStripe ELSE N
      BY <2>2, MinOfTwo, StripeType DEF MyEnd
    <2>4. QED
      BY <2>2, <2>3, <1>2, <1>4, StripeType
  <1>9. QED
    BY <1>2, <1>3, <1>4, <1>5, <1>6, <1>7, <1>8, StripeType

(* Every place is in somebody's stripe.                                    *)
LEMMA OwnStripe ==
    ASSUME NEW p \in Pos
    PROVE  \E t \in Thread : p \in Mine(t)
  <1> DEFINE t == p \div myStripe
  <1>1. p \in Nat /\ p < N
    BY StripeType DEF Pos
  <1>2. t \in Nat /\ myStripe * t <= p /\ p < myStripe * t + myStripe
    BY <1>1, StripeType, DivNat
  <1> HIDE DEF t
  <1>3. t * myStripe = myStripe * t /\ (t + 1) * myStripe = myStripe * t + myStripe
        /\ t * myStripe \in Int
    BY <1>2, StripeType
  <1>4. t <= T - 1
    <2> SUFFICES ASSUME T <= t  PROVE FALSE
      BY <1>2, StripeType
    <2>1. T * myStripe <= t * myStripe
      BY <1>2, Multiples, StripeType
    <2>2. QED
      BY <2>1, <1>1, <1>2, <1>3, StripeType
  <1>5. t \in Thread
    BY <1>2, <1>4, StripeType DEF Thread
  <1>6. MyBegin(t) <= p /\ p < MyEnd(t) /\ MyBegin(t) \in Int /\ MyEnd(t) \in Int
    BY <1>1, <1>2, <1>3, MinOfTwo, StripeType DEF MyBegin, MyEnd
  <1>7. QED
    BY <1>1, <1>5, <1>6 DEF Mine

(* Nobody shares a place of his stripe.                                    *)
LEMMA StripesApart ==
    ASSUME NEW t \in Thread, NEW u \in Thread, t # u
    PROVE  Mine(t) \cap Mine(u) = {}
  <1>1. t \in Int /\ u \in Int /\ t >= 0 /\ u >= 0
    BY DEF Thread
  <1>2. MyBegin(t) \in Int /\ MyEnd(t) \in Int /\ MyBegin(u) \in Int /\ MyEnd(u) \in Int
    BY StripeBounds
  <1>3. CASE t < u
    <2>1. MyEnd(t) <= MyBegin(u)
      BY <1>1, <1>3, StripeBounds
    <2>2. QED
      BY <1>2, <2>1 DEF Mine
  <1>4. CASE u < t
    <2>1. MyEnd(u) <= MyBegin(t)
      BY <1>1, <1>4, StripeBounds
    <2>2. QED
      BY <1>2, <2>1 DEF Mine
  <1>5. QED
    BY <1>1, <1>3, <1>4

(* What the threads before t have is what lies before t's stripe.          *)
LEMMA StripesBefore ==
    ASSUME NEW t \in Thread
    PROVE  UNION {Mine(u) : u \in 0 .. t - 1} = {p \in Pos : p < MyBegin(t)}
  <1>1. ASSUME NEW u \in 0 .. t - 1, NEW p \in Mine(u)
        PROVE  p \in Pos /\ p < MyBegin(t)
    <2>1. u \in Thread /\ MyEnd(u) <= MyBegin(t)
      BY StripeBounds, StripeType DEF Thread
    <2>2. MyBegin(u) \in 0 .. N /\ MyEnd(u) \in 0 .. N /\ MyBegin(t) \in 0 .. N
      BY <2>1, StripeBounds
    <2>3. QED
      BY <2>1, <2>2, StripeType DEF Mine, Pos
  <1>2. ASSUME NEW p \in Pos, p < MyBegin(t)
        PROVE  \E u \in 0 .. t - 1 : p \in Mine(u)
    <2>1. PICK u \in Thread : p \in Mine(u)
      BY OwnStripe
    <2>2. u < t
      <3> SUFFICES ASSUME t <= u  PROVE FALSE
        BY DEF Thread
      <3>1. MyBegin(t) <= MyBegin(u)
        <4>1. CASE t = u
          BY <4>1, StripeBounds
        <4>2. CASE t < u
          <5>1. t \in 0 .. u - 1
            BY <4>2 DEF Thread
          <5>2. MyEnd(t) <= MyBegin(u) /\ MyBegin(t) <= MyEnd(t)
            BY <5>1, StripeBounds
          <5>3. QED
            BY <5>2, StripeBounds
        <4>3. QED
          BY <4>1, <4>2 DEF Thread
      <3>2. MyBegin(u) <= p /\ MyBegin(u) \in Int /\ MyBegin(t) \in Int /\ p \in Int
        BY <2>1, StripeBounds DEF Mine, Pos
      <3>3. QED
        BY <1>2, <3>1, <3>2
    <2>3. u \in 0 .. t - 1
      BY <2>2 DEF Thread
    <2>4. QED
      BY <2>1, <2>3
  <1>3. QED
    BY <1>1, <1>2

(* Together the stripes are the array.                                     *)
LEMMA AllStripes == UNION {Mine(u) : u \in Thread} = Pos
  <1>1. ASSUME NEW u \in Thread, NEW p \in Mine(u)  PROVE p \in Pos
    <2>1. MyBegin(u) \in 0 .. N /\ MyEnd(u) \in 0 .. N
      BY StripeBounds
    <2>2. QED
      BY <2>1, StripeType DEF Mine, Pos
  <1>2. QED
    BY <1>1, OwnStripe

-----------------------------------------------------------------------------
(* Counting.  Below(b) are the elements of the buckets before b, Earlier   *)
(* (b, q) also those of bucket b before the place q.                       *)
Below(b) == {p \in Pos : job.bucketOf[p] < b}
Earlier(b, q) == {p \in Pos : job.bucketOf[p] < b \/ (job.bucketOf[p] = b /\ p < q)}
Rank(p) == Cardinality(Earlier(job.bucketOf[p], p))

JobType == job \in Jobs
SizesRight == \A t \in Thread : size[t] = Counted(t)

(* The types of a job, and that all sets counted below are finite.         *)
LEMMA Types ==
    ASSUME JobType
    PROVE  /\ job.bucketOf \in [Pos -> Bucket]
           /\ job.equal \in BOOLEAN /\ job.inInput \in BOOLEAN /\ job.lastLevel \in BOOLEAN
           /\ IsFiniteSet(Pos) /\ IsFiniteSet(Thread) /\ IsFiniteSet(Bucket)
           /\ Cardinality(Pos) = N
           /\ NumBuckets \in Nat \ {0} /\ NumBuckets % 2 = 0 /\ BaseCase \in Nat
  <1>1. /\ job.bucketOf \in [Pos -> Bucket]
        /\ job.equal \in BOOLEAN /\ job.inInput \in BOOLEAN /\ job.lastLevel \in BOOLEAN
    BY JobsAssumption DEF JobsAssumption, JobType
  <1>2. NumBuckets \in Nat \ {0} /\ NumBuckets % 2 = 0 /\ BaseCase \in Nat
    BY PartitionAssumption DEF PartitionAssumption
  <1>3. IsFiniteSet(Pos) /\ Cardinality(Pos) = N
    BY StripeType, FS_Interval DEF Pos
  <1>4. IsFiniteSet(Thread)
    BY StripeType, FS_Interval DEF Thread
  <1>5. IsFiniteSet(Bucket)
    BY <1>2, FS_Interval DEF Bucket
  <1>6. QED
    BY <1>1, <1>2, <1>3, <1>4, <1>5

(* The counters of some threads add up to the elements in their stripes.   *)
LEMMA OfThreadsCounts ==
    ASSUME JobType, SizesRight, NEW b \in Bucket, NEW ts \in SUBSET Thread
    PROVE  OfThreads(ts, b) = Cardinality({p \in UNION {Mine(u) : u \in ts} : job.bucketOf[p] = b})
  <1> DEFINE part == [u \in Thread |-> {p \in Mine(u) : job.bucketOf[p] = b}]
  <1>1. part \in [Thread -> SUBSET Pos]
    BY AllStripes
  <1>2. \A u, v \in Thread : u # v => part[u] \cap part[v] = {}
    BY StripesApart
  <1>3. [u \in Thread |-> size[u][b]] = [u \in Thread |-> Cardinality(part[u])]
    BY DEF SizesRight, Counted
  <1>4. UNION {part[u] : u \in ts} = {p \in UNION {Mine(u) : u \in ts} : job.bucketOf[p] = b}
    <2>1. \A u \in ts : part[u] = {p \in Mine(u) : job.bucketOf[p] = b}
      OBVIOUS
    <2>2. UNION {part[u] : u \in ts} = UNION {{p \in Mine(u) : job.bucketOf[p] = b} : u \in ts}
      BY <2>1
    <2> HIDE DEF part
    <2>3. \A p : p \in UNION {{q \in Mine(u) : job.bucketOf[q] = b} : u \in ts}
                  <=> p \in {q \in UNION {Mine(u) : u \in ts} : job.bucketOf[q] = b}
      OBVIOUS
    <2>4. QED
      BY <2>2, <2>3
  <1> HIDE DEF part
  <1>5. SumFunctionOnSet([u \in Thread |-> Cardinality(part[u])], ts)
          = Cardinality(UNION {part[u] : u \in ts})
    BY <1>1, <1>2, Types, SumOfParts
  <1>6. QED
    BY <1>3, <1>4, <1>5 DEF OfThreads

(* The sizes of the buckets before b add up to their elements.             *)
LEMMA InBucketsCounts ==
    ASSUME JobType, SizesRight, NEW b \in 0 .. NumBuckets
    PROVE  InBuckets(0 .. b - 1) = Cardinality(Below(b))
  <1> DEFINE part == [c \in Bucket |-> Elements(c)]
  <1>1. part \in [Bucket -> SUBSET Pos]
    BY DEF Elements
  <1>2. \A c, d \in Bucket : c # d => part[c] \cap part[d] = {}
    BY DEF Elements
  <1>3. \A c \in Bucket : OfThreads(Thread, c) = Cardinality(part[c])
    BY OfThreadsCounts, AllStripes DEF Elements
  <1>4. [c \in Bucket |-> OfThreads(Thread, c)] = [c \in Bucket |-> Cardinality(part[c])]
    BY <1>3
  <1>5. 0 .. b - 1 \in SUBSET Bucket
    BY Types DEF Bucket
  <1>6. UNION {part[c] : c \in 0 .. b - 1} = Below(b)
    <2>1. \A c \in 0 .. b - 1 : part[c] = Elements(c)
      BY <1>5
    <2>2. ASSUME NEW p \in Pos  PROVE p \in Below(b) <=> \E c \in 0 .. b - 1 : p \in Elements(c)
      <3>1. job.bucketOf[p] \in Nat
        BY Types DEF Bucket
      <3>2. b \in Nat
        BY Types
      <3>3. QED
        BY <3>1, <3>2 DEF Below, Elements
    <2>3. Below(b) \subseteq Pos /\ \A c : Elements(c) \subseteq Pos
      BY DEF Below, Elements
    <2>4. UNION {part[c] : c \in 0 .. b - 1} = UNION {Elements(c) : c \in 0 .. b - 1}
      BY <2>1
    <2>5. \A p : p \in Below(b) <=> p \in UNION {Elements(c) : c \in 0 .. b - 1}
      BY <2>2, <2>3
    <2>6. QED
      BY <2>4, <2>5
  <1> HIDE DEF part
  <1>7. SumFunctionOnSet([c \in Bucket |-> Cardinality(part[c])], 0 .. b - 1)
          = Cardinality(UNION {part[c] : c \in 0 .. b - 1})
    BY <1>1, <1>2, <1>5, Types, SumOfParts
  <1>8. QED
    BY <1>4, <1>6, <1>7 DEF InBuckets

(* A thread's write position in a bucket is the number of elements before  *)
(* its first.                                                              *)
LEMMA StartCounts ==
    ASSUME JobType, SizesRight, NEW t \in Thread, NEW b \in Bucket
    PROVE  StartOf(t, b) = Cardinality(Earlier(b, MyBegin(t)))
  <1> DEFINE own == {p \in UNION {Mine(u) : u \in 0 .. t - 1} : job.bucketOf[p] = b}
  <1>1. 0 .. t - 1 \in SUBSET Thread /\ b \in 0 .. NumBuckets /\ b \in Int
    BY Types, StripeType DEF Thread, Bucket
  <1>2. OfThreads(0 .. t - 1, b) = Cardinality(own)
    BY <1>1, OfThreadsCounts
  <1>3. InBuckets(0 .. b - 1) = Cardinality(Below(b))
    BY <1>1, InBucketsCounts
  <1>4. own = {p \in Pos : job.bucketOf[p] = b /\ p < MyBegin(t)}
    BY StripesBefore
  <1>5. Below(b) \cap own = {}
    <2>1. \A p \in Pos : job.bucketOf[p] \in Int
      BY Types DEF Bucket
    <2>2. QED
      BY <1>1, <1>4, <2>1 DEF Below
  <1>6. Earlier(b, MyBegin(t)) = Below(b) \cup own
    BY <1>4 DEF Below, Earlier
  <1>7. Below(b) \in SUBSET Pos /\ own \in SUBSET Pos
    BY <1>4 DEF Below
  <1> HIDE DEF own
  <1>8. IsFiniteSet(Below(b)) /\ IsFiniteSet(own)
    BY <1>7, Types, FS_Subset
  <1>9. Cardinality(Below(b) \cup own) = Cardinality(Below(b)) + Cardinality(own) - Cardinality({})
    BY <1>5, <1>8, FS_Union
  <1>10. QED
    BY <1>2, <1>3, <1>6, <1>8, <1>9, FS_EmptySet, FS_CardinalityType DEF StartOf

(* Cardinalities of sets of places.                                        *)
LEMMA Counts ==
    ASSUME NEW A \in SUBSET Pos, NEW B \in SUBSET Pos
    PROVE  /\ IsFiniteSet(A) /\ Cardinality(A) \in 0 .. N
           /\ A \subseteq B => Cardinality(A) <= Cardinality(B)
           /\ A \subseteq B /\ A # B => Cardinality(A) < Cardinality(B)
           /\ A \cap B = {} => Cardinality(A \cup B) = Cardinality(A) + Cardinality(B)
  <1>1. IsFiniteSet(Pos) /\ Cardinality(Pos) = N
    BY StripeType, FS_Interval DEF Pos
  <1>2. IsFiniteSet(A) /\ IsFiniteSet(B)
    BY <1>1, FS_Subset
  <1>3. Cardinality(A) \in Nat /\ Cardinality(B) \in Nat /\ Cardinality(A) <= N
    BY <1>1, <1>2, FS_Subset, FS_CardinalityType
  <1>4. A \subseteq B => Cardinality(A) <= Cardinality(B)
    BY <1>2, FS_Subset
  <1>5. A \subseteq B /\ A # B => Cardinality(A) # Cardinality(B)
    BY <1>2, FS_Subset
  <1>6. A \cap B = {} => Cardinality(A \cup B) = Cardinality(A) + Cardinality(B)
    <2>1. Cardinality(A \cup B) = Cardinality(A) + Cardinality(B) - Cardinality(A \cap B)
      BY <1>2, FS_Union
    <2>2. A \cap B = {} => Cardinality(A \cap B) = 0
      BY FS_EmptySet
    <2>3. QED
      BY <1>3, <2>1, <2>2
  <1>7. QED
    BY <1>2, <1>3, <1>4, <1>5, <1>6, StripeType

(* Bound(b) is where bucket b should begin.                                *)
Bound(b) == Cardinality(Below(b))

(* The exact boundaries lie in the array and increase.                     *)
LEMMA Bounds ==
    ASSUME JobType
    PROVE  /\ \A b \in 0 .. NumBuckets : Bound(b) \in 0 .. N
           /\ Bound(0) = 0 /\ Bound(NumBuckets) = N
           /\ \A b \in Bucket : /\ b + 1 \in 0 .. NumBuckets
                                /\ Bound(b + 1) = Bound(b) + Cardinality(Elements(b))
                                /\ Cardinality(Elements(b)) \in 0 .. N
           /\ \A b, c \in 0 .. NumBuckets : b <= c => Bound(b) <= Bound(c)
  <1>1. \A p \in Pos : job.bucketOf[p] \in Int /\ 0 <= job.bucketOf[p] /\ job.bucketOf[p] < NumBuckets
    BY Types DEF Bucket
  <1>2. NumBuckets \in Nat \ {0}
    BY Types
  <1>3. \A b : Below(b) \in SUBSET Pos /\ Elements(b) \in SUBSET Pos
    BY DEF Below, Elements
  <1>4. \A b \in 0 .. NumBuckets : Bound(b) \in 0 .. N
    BY <1>3, Counts DEF Bound
  <1>5. Bound(0) = 0
    <2>1. Below(0) = {}
      BY <1>1 DEF Below
    <2>2. QED
      BY <2>1, FS_EmptySet DEF Bound
  <1>6. Bound(NumBuckets) = N
    <2>1. Below(NumBuckets) = Pos
      BY <1>1 DEF Below
    <2>2. QED
      BY <2>1, Types DEF Bound
  <1>7. ASSUME NEW b \in Bucket
        PROVE  /\ b + 1 \in 0 .. NumBuckets
               /\ Bound(b + 1) = Bound(b) + Cardinality(Elements(b))
               /\ Cardinality(Elements(b)) \in 0 .. N
    <2>1. b \in Int /\ b + 1 \in 0 .. NumBuckets
      BY <1>2 DEF Bucket
    <2>2. Below(b + 1) = Below(b) \cup Elements(b) /\ Below(b) \cap Elements(b) = {}
      BY <1>1, <2>1 DEF Below, Elements
    <2>3. Cardinality(Below(b) \cup Elements(b)) = Cardinality(Below(b)) + Cardinality(Elements(b))
      BY <1>3, <2>2, Counts
    <2>4. QED
      BY <1>3, <2>1, <2>2, <2>3, Counts DEF Bound
  <1>8. ASSUME NEW b \in 0 .. NumBuckets, NEW c \in 0 .. NumBuckets, b <= c
        PROVE  Bound(b) <= Bound(c)
    <2>1. Below(b) \subseteq Below(c)
      BY <1>1, <1>8 DEF Below
    <2>2. QED
      BY <1>3, <2>1, Counts DEF Bound
  <1>9. QED
    BY <1>4, <1>5, <1>6, <1>7, <1>8

(* Rank is a one-to-one map of the elements to the places, bucket by       *)
(* bucket.                                                                 *)
LEMMA RankInBucket ==
    ASSUME JobType, NEW p \in Pos
    PROVE  /\ Rank(p) \in Pos
           /\ Bound(job.bucketOf[p]) <= Rank(p) /\ Rank(p) < Bound(job.bucketOf[p] + 1)
  <1> DEFINE b == job.bucketOf[p]
  <1>1. b \in Bucket /\ b \in Int
    BY Types DEF Bucket
  <1>2. \A q \in Pos : job.bucketOf[q] \in Int
    BY Types DEF Bucket
  <1>3. Below(b) \subseteq Earlier(b, p) /\ Earlier(b, p) \subseteq Below(b + 1)
        /\ p \in Below(b + 1) /\ p \notin Earlier(b, p)
        /\ Below(b) \in SUBSET Pos /\ Below(b + 1) \in SUBSET Pos /\ Earlier(b, p) \in SUBSET Pos
    BY <1>1, <1>2 DEF Below, Earlier, Pos
  <1>4. Earlier(b, p) # Below(b + 1)
    BY <1>3
  <1>5. Cardinality(Below(b)) <= Cardinality(Earlier(b, p))
        /\ Cardinality(Earlier(b, p)) < Cardinality(Below(b + 1))
        /\ Cardinality(Earlier(b, p)) \in 0 .. N /\ Cardinality(Below(b + 1)) \in 0 .. N
    BY <1>3, <1>4, Counts
  <1>6. QED
    BY <1>5, StripeType DEF Bound, Rank, Pos

(* Two elements never have the same rank, and every place is the rank of   *)
(* one.                                                                    *)
LEMMA RankInjective ==
    ASSUME JobType, NEW p \in Pos, NEW q \in Pos, Rank(p) = Rank(q)
    PROVE  p = q
  <1>1. \A r \in Pos : job.bucketOf[r] \in Int /\ r \in Int
    <2>1. \A r \in Pos : r \in Int
      BY DEF Pos
    <2>2. \A r \in Pos : job.bucketOf[r] \in Int
      BY Types DEF Bucket
    <2>3. QED
      BY <2>1, <2>2
  <1>2. ASSUME NEW x \in Pos, NEW y \in Pos,
               \/ job.bucketOf[x] < job.bucketOf[y]
               \/ job.bucketOf[x] = job.bucketOf[y] /\ x < y
        PROVE  Rank(x) < Rank(y)
    <2>1. Earlier(job.bucketOf[x], x) \subseteq Earlier(job.bucketOf[y], y)
          /\ x \in Earlier(job.bucketOf[y], y) /\ x \notin Earlier(job.bucketOf[x], x)
      BY <1>1, <1>2 DEF Earlier
    <2>2. \A b, r : Earlier(b, r) \in SUBSET Pos
      BY DEF Earlier
    <2>3. QED
      BY <2>1, <2>2, Counts DEF Rank
  <1>3. Rank(p) \in Int
    BY RankInBucket DEF Pos
  <1>4. QED
    BY <1>1, <1>2, <1>3

LEMMA RankSurjective ==
    ASSUME JobType, NEW q \in Pos
    PROVE  \E p \in Pos : Rank(p) = q
  <1> DEFINE f == [p \in Pos |-> Rank(p)]
  <1>1. f \in Injection(Pos, Pos)
    BY RankInBucket, RankInjective DEF Injection, IsInjective
  <1>2. f \in Surjection(Pos, Pos)
    <2> HIDE DEF f
    <2> QED BY <1>1, Types, FS_Injection
  <1>3. QED
    BY <1>2 DEF Surjection

(* A place has one bucket.                                                 *)
LEMMA OneBucket ==
    ASSUME JobType, NEW b \in Bucket, NEW c \in Bucket, NEW q \in Int,
           Bound(b) <= q, q < Bound(b + 1), Bound(c) <= q, q < Bound(c + 1)
    PROVE  b = c
  <1>1. b \in Int /\ c \in Int /\ b \in 0 .. NumBuckets /\ c \in 0 .. NumBuckets
        /\ b + 1 \in 0 .. NumBuckets /\ c + 1 \in 0 .. NumBuckets
    BY Bounds, Types DEF Bucket
  <1>2. Bound(b) \in Int /\ Bound(c) \in Int /\ Bound(b + 1) \in Int /\ Bound(c + 1) \in Int
    BY <1>1, Bounds
  <1>3. b < c => Bound(b + 1) <= Bound(c)
    BY <1>1, Bounds
  <1>4. c < b => Bound(c + 1) <= Bound(b)
    BY <1>1, Bounds
  <1>5. QED
    BY <1>1, <1>2, <1>3, <1>4

(* A thread writes the element of the place p where it ranks: no place is  *)
(* written twice, and equal buckets keep their order.                      *)
LEMMA TargetIsRank ==
    ASSUME JobType, NEW t \in Thread, NEW p \in Mine(t),
           \A b \in Bucket : start[t][b] = Cardinality(Earlier(b, MyBegin(t)))
    PROVE  Target(t, p) = Rank(p)
  <1> DEFINE b == job.bucketOf[p]
             own == {r \in Mine(t) : r < p /\ job.bucketOf[r] = job.bucketOf[p]}
  <1>1. MyBegin(t) \in 0 .. N /\ MyEnd(t) \in 0 .. N
    BY StripeBounds
  <1>2. p \in Pos /\ Mine(t) \subseteq Pos
    BY AllStripes
  <1>3. b \in Bucket
    BY <1>2, Types
  <1>4. own = {r \in Pos : MyBegin(t) <= r /\ r < p /\ job.bucketOf[r] = b}
    <2>1. ASSUME NEW r \in Pos, r < p  PROVE r \in Mine(t) <=> MyBegin(t) <= r
      BY <1>1, <2>1 DEF Mine, Pos
    <2>2. QED
      BY <1>2, <2>1
  <1>5. Earlier(b, p) = Earlier(b, MyBegin(t)) \cup own /\ Earlier(b, MyBegin(t)) \cap own = {}
    <2>1. ASSUME NEW r \in Pos
          PROVE  /\ r \in Earlier(b, p) <=> r \in Earlier(b, MyBegin(t)) \/ r \in own
                 /\ ~(r \in Earlier(b, MyBegin(t)) /\ r \in own)
      <3>1. job.bucketOf[r] \in Int /\ b \in Int
        BY <1>2, Types DEF Bucket
      <3>2. r \in Int /\ p \in Int /\ MyBegin(t) \in Int /\ MyBegin(t) <= p
        BY <1>1, <1>2 DEF Mine, Pos
      <3> HIDE DEF b, own
      <3>3. r \in own <=> MyBegin(t) <= r /\ r < p /\ job.bucketOf[r] = b
        BY <1>4
      <3>4. QED
        BY <3>1, <3>2, <3>3 DEF Earlier
    <2>2. Earlier(b, p) \subseteq Pos /\ Earlier(b, MyBegin(t)) \subseteq Pos /\ own \subseteq Pos
      BY <1>2 DEF Earlier
    <2> HIDE DEF own, b
    <2>3. QED
      BY <2>1, <2>2
  <1>6. Earlier(b, MyBegin(t)) \in SUBSET Pos /\ own \in SUBSET Pos
    BY <1>2 DEF Earlier
  <1>7. Cardinality(Earlier(b, p)) = Cardinality(Earlier(b, MyBegin(t))) + Cardinality(own)
    <2> HIDE DEF own, b
    <2> QED BY <1>5, <1>6, Counts
  <1>8. QED
    BY <1>3, <1>7 DEF Target, Rank

-----------------------------------------------------------------------------
(* The invariant of the first three phases.  A thread without elements     *)
(* contributes what its counters held before, which is right only if that  *)
(* is nothing (Stale).                                                     *)
NothingStale == Stale \subseteq {0} \/ \A t \in Thread : Mine(t) # {}

Types1 ==
    /\ JobType
    /\ pc \in [Thread -> PC]
    /\ size \in [Thread -> [Bucket -> Nat]]
    /\ start \in [Thread -> [Bucket -> 0 .. N]]
    /\ save \in [0 .. NumBuckets -> 0 .. N]

Phases ==
    /\ (\A t \in Thread : pc[t] \in {"classify", "classified"}) \/ Summed
    /\ (\E t \in Thread : pc[t] = "finish") => AllScattered

Counting ==
    \A t \in Thread : pc[t] # "classify" \/ Mine(t) = {} => size[t] = Counted(t)

Positions ==
    Summed =>
        /\ \A b \in 0 .. NumBuckets : save[b] = Bound(b)
        /\ \A t \in Thread, b \in Bucket :
              start[t][b] = Cardinality(Earlier(b, MyBegin(t)))

CountInv == Types1 /\ Phases /\ Counting /\ Positions

LEMMA InitCount ==
    ASSUME NothingStale, Init
    PROVE  CountInv
  <1>1. T \in Nat /\ T > 1 /\ N \in Nat \ {0} /\ Stale \subseteq Nat /\ NumBuckets \in Nat
    BY StripeType, PartitionAssumption DEF PartitionAssumption
  <1>2. JobType
    BY DEF Init, JobType
  <1>3. PICK s \in Stale : size = [t \in Thread |-> [b \in Bucket |-> s]]
    BY DEF Init
  <1>4. Types1
    BY <1>1, <1>2, <1>3 DEF Init, Types1, PC
  <1>5. 0 \in Thread
    BY <1>1 DEF Thread
  <1>6. Phases /\ Positions
    BY <1>5 DEF Init, Phases, Positions, Summed
  <1>7. ASSUME NEW t \in Thread, Mine(t) = {}  PROVE size[t] = Counted(t)
    <2>1. s = 0
      BY <1>7, <1>3 DEF NothingStale
    <2>2. \A b : {p \in Mine(t) : job.bucketOf[p] = b} = {}
      BY <1>7
    <2>3. Counted(t) = [b \in Bucket |-> 0]
      BY <2>2, FS_EmptySet DEF Counted
    <2>4. QED
      BY <1>3, <2>1, <2>3
  <1>8. Counting
    BY <1>7 DEF Counting, Init
  <1>9. QED
    BY <1>4, <1>6, <1>8 DEF CountInv

(* A thread's counters are natural numbers.                                *)
LEMMA CountedType ==
    ASSUME JobType, NEW t \in Thread
    PROVE  Counted(t) \in [Bucket -> Nat]
  <1>1. \A b : {p \in Mine(t) : job.bucketOf[p] = b} \in SUBSET Pos
    BY AllStripes
  <1>2. \A b : Cardinality({p \in Mine(t) : job.bucketOf[p] = b}) \in Nat
    BY <1>1, Counts
  <1>3. QED
    BY <1>2 DEF Counted

(* One lemma for each action: it keeps CountInv. Classifying fills the     *)
(* thread's counters exactly.                                              *)
LEMMA ClassifyCount ==
    ASSUME CountInv, NEW t \in Thread, Classify(t)
    PROVE  CountInv'
  <1>1. pc[t] = "classify" /\ pc' = [pc EXCEPT ![t] = "classified"]
        /\ UNCHANGED <<job, start, save>>
        /\ size' = IF Mine(t) = {} THEN size ELSE [size EXCEPT ![t] = Counted(t)]
    BY DEF Classify, Goto
  <1>2. JobType /\ JobType'
    BY <1>1 DEF CountInv, Types1, JobType
  <1>3. Counted(t) \in [Bucket -> Nat] /\ size \in [Thread -> [Bucket -> Nat]]
    BY <1>2, CountedType DEF CountInv, Types1
  <1>4. size' \in [Thread -> [Bucket -> Nat]]
    BY <1>1, <1>3
  <1>5. Types1'
    BY <1>1, <1>2, <1>4 DEF CountInv, Types1, PC
  <1>6. ~Summed /\ ~Summed' /\ Phases'
    <2>1. \A u \in Thread : pc[u] \in {"classify", "classified"}
      BY <1>1 DEF CountInv, Phases, Summed
    <2>2. \A u \in Thread : pc'[u] \in {"classify", "classified"}
      BY <1>1, <2>1 DEF CountInv, Types1
    <2>3. QED
      BY <1>1, <2>1, <2>2 DEF Summed, Phases
  <1>7. ASSUME NEW u \in Thread, pc'[u] # "classify" \/ Mine(u) = {}
        PROVE  size'[u] = Counted(u)'
    <2>1. Counted(u)' = Counted(u)
      BY <1>1 DEF Counted
    <2>2. CASE u = t
      BY <1>1, <1>3, <2>1, <2>2 DEF CountInv, Counting
    <2>3. CASE u # t
      <3>1. size'[u] = size[u] /\ pc'[u] = pc[u]
        BY <1>1, <1>3, <2>3 DEF CountInv, Types1
      <3>2. QED
        BY <1>7, <2>1, <3>1 DEF CountInv, Counting
    <2>4. QED
      BY <2>2, <2>3
  <1>8. Counting'
    BY <1>7 DEF Counting
  <1>9. QED
    BY <1>5, <1>6, <1>8 DEF CountInv, Positions

(* The prefix sums of thread 0 are the exact boundaries.                   *)
LEMMA PrefixSumsCount ==
    ASSUME CountInv, PrefixSums
    PROVE  CountInv'
  <1>1. /\ \A t \in Thread : pc[t] = "classified"
        /\ start' = [t \in Thread |-> [b \in Bucket |-> StartOf(t, b)]]
        /\ save' = [b \in 0 .. NumBuckets |-> InBuckets(0 .. b - 1)]
        /\ pc' = [t \in Thread |-> "scatter"]
        /\ UNCHANGED <<job, size>>
    BY DEF PrefixSums
  <1>2. JobType /\ JobType' /\ SizesRight
    BY <1>1 DEF CountInv, Types1, JobType, Counting, SizesRight
  <1>3. \A b \in 0 .. NumBuckets : save'[b] = Bound(b) /\ Bound(b) \in 0 .. N
    BY <1>1, <1>2, InBucketsCounts, Bounds DEF Bound
  <1>4. \A t \in Thread, b \in Bucket :
           /\ start'[t][b] = Cardinality(Earlier(b, MyBegin(t)))
           /\ Cardinality(Earlier(b, MyBegin(t))) \in 0 .. N
    <2>1. \A b, q : Earlier(b, q) \in SUBSET Pos
      BY DEF Earlier
    <2>2. QED
      BY <1>1, <1>2, <2>1, StartCounts, Counts
  <1>5. Types1'
    <2>1. start' \in [Thread -> [Bucket -> 0 .. N]]
      BY <1>1, <1>4
    <2>2. save' \in [0 .. NumBuckets -> 0 .. N]
      BY <1>1, <1>3
    <2>3. QED
      BY <1>1, <1>2, <2>1, <2>2 DEF CountInv, Types1, PC
  <1>6. Positions'
    <2>1. \A b : Bound(b)' = Bound(b)
      BY <1>1 DEF Bound, Below
    <2>2. \A b, q : Earlier(b, q)' = Earlier(b, q)
      BY <1>1 DEF Earlier
    <2>3. QED
      BY <1>3, <1>4, <2>1, <2>2 DEF Positions
  <1>7. Phases'
    BY <1>1 DEF Phases, Summed, AllScattered
  <1>8. Counting'
    <2>1. \A u \in Thread : Counted(u)' = Counted(u)
      BY <1>1 DEF Counted
    <2>2. QED
      BY <1>1, <1>2, <2>1 DEF Counting, SizesRight
  <1>9. QED
    BY <1>5, <1>6, <1>7, <1>8 DEF CountInv

(* After the sums, steps that leave them alone keep them right.            *)
LEMMA LaterCount ==
    ASSUME CountInv, Summed, UNCHANGED <<job, size, start, save>>,
           pc' \in [Thread -> PC], Summed', Phases'
    PROVE  CountInv'
  <1>1. \A b : Bound(b)' = Bound(b)
    BY DEF Bound, Below
  <1>2. \A b, q : Earlier(b, q)' = Earlier(b, q)
    BY DEF Earlier
  <1>3. \A u \in Thread : Counted(u)' = Counted(u)
    BY DEF Counted
  <1>4. Types1'
    BY DEF CountInv, Types1, JobType
  <1>5. Positions'
    BY <1>1, <1>2 DEF CountInv, Positions
  <1>6. Counting'
    BY <1>3 DEF CountInv, Counting, Summed
  <1>7. QED
    BY <1>4, <1>5, <1>6 DEF CountInv

LEMMA ScatterCount ==
    ASSUME CountInv, NEW t \in Thread, Scatter(t)
    PROVE  CountInv'
  <1>1. pc[t] = "scatter" /\ pc' = [pc EXCEPT ![t] = "scattered"]
        /\ UNCHANGED <<job, size, start, save>>
    BY DEF Scatter, Goto
  <1>2. pc \in [Thread -> PC] /\ Phases
    BY DEF CountInv, Types1
  <1>3. Summed /\ Summed' /\ pc' \in [Thread -> PC]
    BY <1>1, <1>2 DEF Phases, Summed, PC
  <1>4. Phases'
    <2>1. \A u \in Thread : pc[u] # "finish" /\ pc'[u] # "finish"
      BY <1>1, <1>2 DEF Phases, AllScattered
    <2>2. QED
      BY <1>3, <2>1 DEF Phases
  <1>5. QED
    BY <1>1, <1>3, <1>4, LaterCount

LEMMA DivideCount ==
    ASSUME CountInv, NEW t \in Thread, DivideBuckets(t)
    PROVE  CountInv'
  <1>1. pc[t] = "scattered" /\ pc' = [pc EXCEPT ![t] = "finish"] /\ AllScattered
        /\ UNCHANGED <<job, size, start, save>>
    BY DEF DivideBuckets, Goto
  <1>2. pc \in [Thread -> PC] /\ Phases
    BY DEF CountInv, Types1
  <1>3. Summed /\ Summed' /\ pc' \in [Thread -> PC]
    BY <1>1, <1>2 DEF Phases, Summed, PC
  <1>4. Phases'
    BY <1>1, <1>2, <1>3 DEF Phases, AllScattered
  <1>5. QED
    BY <1>1, <1>3, <1>4, LaterCount

LEMMA FinishCount ==
    ASSUME CountInv, NEW t \in Thread, FinishPiece(t)
    PROVE  CountInv'
  <1>1. pc[t] = "finish" /\ UNCHANGED <<job, pc, size, start, save>>
    BY DEF FinishPiece
  <1>2. Summed /\ Summed' /\ pc' \in [Thread -> PC] /\ Phases'
    BY <1>1 DEF CountInv, Types1, Phases, Summed, AllScattered
  <1>3. QED
    BY <1>1, <1>2, LaterCount

LEMMA NextCount == CountInv /\ [Next]_vars => CountInv'
  <1> SUFFICES ASSUME CountInv, [Next]_vars  PROVE CountInv'
    OBVIOUS
  <1>1. CASE PrefixSums
    BY <1>1, PrefixSumsCount
  <1>2. ASSUME NEW t \in Thread, Step(t)  PROVE CountInv'
    BY <1>2, ClassifyCount, ScatterCount, DivideCount, FinishCount DEF Step
  <1>3. CASE UNCHANGED vars
    <2>1. \A b : Bound(b)' = Bound(b)
      BY <1>3 DEF vars, Bound, Below
    <2>2. \A b, q : Earlier(b, q)' = Earlier(b, q)
      BY <1>3 DEF vars, Earlier
    <2>3. \A u \in Thread : Counted(u)' = Counted(u)
      BY <1>3 DEF vars, Counted
    <2>4. Types1' /\ Phases'
      BY <1>3 DEF vars, CountInv, Types1, JobType, Phases, Summed, AllScattered
    <2>5. Positions' /\ Counting'
      BY <1>3, <2>1, <2>2, <2>3 DEF vars, CountInv, Positions, Counting, Summed
    <2>6. QED
      BY <2>4, <2>5 DEF CountInv
  <1>4. QED
    BY <1>1, <1>2, <1>3 DEF Next, Terminated

LEMMA CountInvariance == ASSUME NothingStale PROVE Spec => []CountInv
  <1>1. Init => CountInv
    BY InitCount
  <1>2. QED
    BY <1>1, NextCount, PTL DEF Spec

(* The table bucket_start_save that thread 0 leaves                        *)
(* (parallelClassification) holds the exact number of elements of every    *)
(* bucket, provided that no thread contributes old counters.               *)
THEOREM BoundariesExact == ASSUME NothingStale PROVE Spec => []BoundariesRight
  <1>1. CountInv => BoundariesRight
    <2> SUFFICES ASSUME CountInv, Summed
                 PROVE  /\ save[0] = 0 /\ save[NumBuckets] = N
                        /\ \A b \in Bucket :
                              save[b + 1] - save[b] = Cardinality(Elements(b))
      BY DEF BoundariesRight
    <2>1. JobType /\ \A b \in 0 .. NumBuckets : save[b] = Bound(b)
      BY DEF CountInv, Types1, Positions
    <2>2. NumBuckets \in Nat \ {0}
      BY <2>1, Types
    <2>3. save[0] = 0 /\ save[NumBuckets] = N
      BY <2>1, <2>2, Bounds
    <2>4. ASSUME NEW b \in Bucket
          PROVE  save[b + 1] - save[b] = Cardinality(Elements(b))
      <3>1. b \in 0 .. NumBuckets /\ b + 1 \in 0 .. NumBuckets
        BY <2>2 DEF Bucket
      <3>2. Bound(b + 1) = Bound(b) + Cardinality(Elements(b))
            /\ Bound(b) \in 0 .. N /\ Cardinality(Elements(b)) \in 0 .. N
        BY <2>1, <3>1, Bounds
      <3>3. QED
        BY <2>1, <3>1, <3>2
    <2>5. QED
      BY <2>3, <2>4
  <1>2. QED
    BY <1>1, CountInvariance, PTL

-----------------------------------------------------------------------------
(* Smallest and greatest elements of finite sets of integers.              *)
LEMMA HasMin ==
    ASSUME NEW S \in SUBSET Int, IsFiniteSet(S), S # {}
    PROVE  Min(S) \in S /\ \A x \in S : Min(S) <= x
  <1> DEFINE G == {U \in SUBSET S : U = {} \/ \E m \in U : \A x \in U : m <= x}
  <1>1. {} \in G
    OBVIOUS
  <1>2. ASSUME NEW U \in SUBSET S, NEW y \in S \ U, U \in G  PROVE U \cup {y} \in G
    <2>1. CASE U = {}
      BY <2>1
    <2>2. CASE U # {}
      <3>1. PICK m \in U : \A x \in U : m <= x
        BY <1>2, <2>2
      <3>2. CASE m <= y
        BY <3>1, <3>2
      <3>3. CASE y < m
        <4>1. \A x \in U \cup {y} : y <= x
          BY <3>1, <3>3
        <4>2. QED
          BY <4>1
      <3>4. QED
        BY <3>2, <3>3
    <2>3. QED
      BY <2>1, <2>2
  <1>3. SUBSET S \subseteq G
    <2> HIDE DEF G
    <2> QED BY <1>1, <1>2, SetInduction
  <1>4. PICK m \in S : \A x \in S : m <= x
    BY <1>3
  <1>5. QED
    BY <1>4 DEF Min

(* A finite set of numbers has a greatest one.                             *)
LEMMA HasMax ==
    ASSUME NEW S \in SUBSET Int, IsFiniteSet(S), S # {}
    PROVE  Max(S) \in S /\ \A x \in S : Max(S) >= x
  <1> DEFINE G == {U \in SUBSET S : U = {} \/ \E m \in U : \A x \in U : m >= x}
  <1>1. {} \in G
    OBVIOUS
  <1>2. ASSUME NEW U \in SUBSET S, NEW y \in S \ U, U \in G  PROVE U \cup {y} \in G
    <2>1. CASE U = {}
      BY <2>1
    <2>2. CASE U # {}
      <3>1. PICK m \in U : \A x \in U : m >= x
        BY <1>2, <2>2
      <3>2. CASE m >= y
        BY <3>1, <3>2
      <3>3. CASE y > m
        <4>1. \A x \in U \cup {y} : y >= x
          BY <3>1, <3>3
        <4>2. QED
          BY <4>1
      <3>4. QED
        BY <3>2, <3>3
    <2>3. QED
      BY <2>1, <2>2
  <1>3. SUBSET S \subseteq G
    <2> HIDE DEF G
    <2> QED BY <1>1, <1>2, SetInduction
  <1>4. PICK m \in S : \A x \in S : m >= x
    BY <1>3
  <1>5. QED
    BY <1>4 DEF Max

-----------------------------------------------------------------------------
(* Sorting a piece: every rank below the size of the piece has an element, *)
(* so that SortedOn is defined, and elements that differ are permuted.     *)
Value == Pos \cup {Gone}

(* The values at more than k places have one at position k of their order. *)
LEMMA HasKth ==
    ASSUME NEW a \in [Pos -> Value], NEW ps \in SUBSET Pos,
           NEW k \in Int, 0 <= k, k < Cardinality(ps)
    PROVE  \E x \in {a[q] : q \in ps} : IsKth(a, ps, k, x)
  <1> DEFINE X == {a[q] : q \in ps}
             more(x) == {q \in ps : Before(a[q], x)}
             upTo(x) == {q \in ps : ~Before(x, a[q])}
             Y == {x \in X : Cardinality(more(x)) <= k}
  <1>1. X \in SUBSET Int /\ IsFiniteSet(X)
    <2>1. X \subseteq -1 .. N - 1
      BY StripeType DEF Value, Gone, Pos
    <2>2. IsFiniteSet(-1 .. N - 1)
      BY StripeType, FS_Interval
    <2> HIDE DEF X
    <2>3. X \in SUBSET (-1 .. N - 1) /\ \A i \in -1 .. N - 1 : i \in Int
      BY <2>1
    <2>4. IsFiniteSet(X)
      BY <2>2, <2>3, FS_Subset
    <2>5. QED
      BY <2>3, <2>4
  <1>2. \A q \in ps : a[q] \in X /\ a[q] \in Int
    BY <1>1
  <1>3. X # {}
    BY FS_EmptySet
  <1>4. \A x : /\ more(x) \in SUBSET Pos /\ upTo(x) \in SUBSET Pos
               /\ Cardinality(more(x)) \in 0 .. N /\ Cardinality(upTo(x)) \in 0 .. N
    <2>1. \A x : more(x) \in SUBSET Pos /\ upTo(x) \in SUBSET Pos
      OBVIOUS
    <2> HIDE DEF more, upTo
    <2>2. QED
      BY <2>1, Counts
  <1> HIDE DEF X
  <1>5. Max(X) \in Y
    <2>1. Max(X) \in X /\ \A x \in X : Max(X) >= x
      BY <1>1, <1>3, HasMax
    <2>2. more(Max(X)) = {}
      <3>1. ASSUME NEW q \in ps  PROVE ~(a[q] > Max(X))
        <4>1. a[q] \in X /\ a[q] \in Int
          BY <1>2
        <4>2. Max(X) \in Int
          BY <1>1, <2>1
        <4>3. Max(X) >= a[q]
          BY <2>1, <4>1
        <4>4. QED
          BY <4>1, <4>2, <4>3
      <3>2. \A q : q \notin more(Max(X))
        BY <3>1 DEF Before
      <3>3. QED
        BY <3>2
    <2>3. Cardinality(more(Max(X))) = 0
      BY <2>2, FS_EmptySet
    <2>4. QED
      BY <2>1, <2>3
  <1>6. Y \in SUBSET Int /\ IsFiniteSet(Y) /\ Y # {} /\ Y \subseteq X
    BY <1>1, <1>5, FS_Subset
  <1> DEFINE m == Min(Y)
  <1>7. m \in Y /\ \A x \in Y : m <= x
    <2> HIDE DEF Y
    <2> QED BY <1>6, HasMin
  <1>8. m \in X /\ m \in Int /\ Cardinality(more(m)) <= k
    BY <1>6, <1>7
  <1> HIDE DEF m
  <1>9. k < Cardinality(upTo(m))
    <2>0. Cardinality(upTo(m)) \in 0 .. N
      BY <1>4
    <2> SUFFICES ASSUME Cardinality(upTo(m)) <= k  PROVE FALSE
      <3> HIDE DEF upTo
      <3> QED BY <2>0
    <2> DEFINE Z == {x \in X : x < m}
    <2>1. Z # {}
      <3> SUFFICES ASSUME Z = {}  PROVE FALSE
        OBVIOUS
      <3>1. \A q \in ps : ~(m > a[q])
        BY <1>1, <1>2, <1>8
      <3>2. upTo(m) = ps
        BY <3>1 DEF Before
      <3>3. Cardinality(ps) <= k
        BY <3>2
      <3>4. QED
        BY <3>3, Counts, StripeType
    <2>2. Z \in SUBSET Int /\ IsFiniteSet(Z)
      BY <1>1, FS_Subset
    <2>3. Max(Z) \in Z /\ \A x \in Z : Max(Z) >= x
      <3> HIDE DEF Z
      <3> QED BY <2>1, <2>2, HasMax
    <2>4. more(Max(Z)) = upTo(m)
      <3>1. ASSUME NEW q \in ps  PROVE a[q] > Max(Z) <=> ~(m > a[q])
        <4>1. a[q] \in X /\ a[q] \in Int /\ Max(Z) \in Int /\ Max(Z) < m
          BY <1>2, <2>2, <2>3
        <4>2. a[q] < m => Max(Z) >= a[q]
          BY <4>1, <2>3
        <4>3. QED
          BY <4>1, <4>2, <1>8
      <3>2. QED
        BY <3>1 DEF Before
    <2>5. Max(Z) \in Y
      BY <2>3, <2>4
    <2>6. QED
      BY <2>2, <2>3, <2>5, <1>7, <1>8
  <1>10. IsKth(a, ps, k, m)
    BY <1>8, <1>9 DEF IsKth
  <1>11. QED
    BY <1>8, <1>10 DEF X

(* A piece as a set of places.                                             *)
PlacesOf(w) == w.lo .. w.hi - 1

(* A stretch of the array has as many places as its length.                *)
LEMMA PiecePlaces ==
    ASSUME NEW lo \in 0 .. N, NEW hi \in 0 .. N, lo <= hi
    PROVE  /\ lo .. hi - 1 \in SUBSET Pos
           /\ Cardinality(lo .. hi - 1) = hi - lo
  <1>1. lo \in Int /\ hi \in Int /\ hi - 1 \in Int
    BY StripeType
  <1>2. Cardinality(lo .. hi - 1) = IF lo > hi - 1 THEN 0 ELSE hi - 1 - lo + 1
    BY <1>1, FS_Interval
  <1>3. Cardinality(lo .. hi - 1) = hi - lo
    BY <1>1, <1>2
  <1>4. QED
    BY <1>1, <1>3, StripeType DEF Pos

(* Sorting a piece puts at each of its places the order statistic of that  *)
(* place, and touches nothing else.                                        *)
LEMMA SortedOnType ==
    ASSUME NEW a \in [Pos -> Value], NEW w, w.lo \in 0 .. N, w.hi \in 0 .. N, w.lo <= w.hi
    PROVE  /\ SortedOn(a, w) \in [Pos -> Value]
           /\ \A p \in Pos \ PlacesOf(w) : SortedOn(a, w)[p] = a[p]
           /\ \A p \in PlacesOf(w) :
                 /\ SortedOn(a, w)[p] \in {a[q] : q \in PlacesOf(w)}
                 /\ IsKth(a, PlacesOf(w), p - w.lo, SortedOn(a, w)[p])
  <1>1. PlacesOf(w) \in SUBSET Pos /\ Cardinality(PlacesOf(w)) = w.hi - w.lo
    BY PiecePlaces DEF PlacesOf
  <1>2. \A p \in PlacesOf(w) : p - w.lo \in Int /\ 0 <= p - w.lo /\ p - w.lo < Cardinality(PlacesOf(w))
    BY <1>1 DEF PlacesOf
  <1>3. SortedOn(a, w) = [p \in Pos |-> IF p \in PlacesOf(w)
              THEN CHOOSE x \in {a[q] : q \in PlacesOf(w)} : IsKth(a, PlacesOf(w), p - w.lo, x)
              ELSE a[p]]
    BY DEF SortedOn, PlacesOf
  <1>4. ASSUME NEW p \in PlacesOf(w)
        PROVE  /\ SortedOn(a, w)[p] \in {a[q] : q \in PlacesOf(w)}
               /\ IsKth(a, PlacesOf(w), p - w.lo, SortedOn(a, w)[p])
    <2>1. \E x \in {a[q] : q \in PlacesOf(w)} : IsKth(a, PlacesOf(w), p - w.lo, x)
      BY <1>1, <1>2, HasKth
    <2>2. SortedOn(a, w)[p] =
            CHOOSE x \in {a[q] : q \in PlacesOf(w)} : IsKth(a, PlacesOf(w), p - w.lo, x)
      BY <1>1, <1>3
    <2>3. QED
      BY <2>1, <2>2
  <1>5. ASSUME NEW p \in Pos \ PlacesOf(w)  PROVE SortedOn(a, w)[p] = a[p]
    BY <1>3
  <1>6. \A p \in Pos : SortedOn(a, w)[p] \in Value
    <2>1. {a[q] : q \in PlacesOf(w)} \subseteq Value
      BY <1>1
    <2>2. QED
      BY <1>4, <1>5, <2>1
  <1>7. QED
    BY <1>3, <1>4, <1>5, <1>6

(* Sorting a piece of different elements keeps the set of its elements and *)
(* brings them in order.                                                   *)
LEMMA SortedOnSorts ==
    ASSUME NEW a \in [Pos -> Value], NEW w, w.lo \in 0 .. N, w.hi \in 0 .. N, w.lo <= w.hi,
           \A q, r \in PlacesOf(w) : a[q] = a[r] => q = r
    PROVE  /\ {SortedOn(a, w)[p] : p \in PlacesOf(w)} = {a[p] : p \in PlacesOf(w)}
           /\ \A p \in PlacesOf(w) : p - 1 \in PlacesOf(w) =>
                 Before(SortedOn(a, w)[p - 1], SortedOn(a, w)[p])
  <1> DEFINE X == {a[q] : q \in PlacesOf(w)}
             more(x) == {q \in PlacesOf(w) : Before(a[q], x)}
             upTo(x) == {q \in PlacesOf(w) : ~Before(x, a[q])}
             s == SortedOn(a, w)
  <1>1. PlacesOf(w) \in SUBSET Pos /\ Cardinality(PlacesOf(w)) = w.hi - w.lo
    BY PiecePlaces DEF PlacesOf
  <1>2. \A q \in PlacesOf(w) : a[q] \in Int
    BY <1>1 DEF Value, Pos, Gone
  <1>3. \A x : /\ more(x) \in SUBSET Pos /\ upTo(x) \in SUBSET Pos
               /\ Cardinality(more(x)) \in 0 .. N /\ Cardinality(upTo(x)) \in 0 .. N
    <2>1. \A x : more(x) \in SUBSET Pos /\ upTo(x) \in SUBSET Pos
      BY <1>1
    <2> HIDE DEF more, upTo
    <2>2. QED
      BY <2>1, Counts
  <1>4. ASSUME NEW q \in PlacesOf(w)
        PROVE  Cardinality(upTo(a[q])) = Cardinality(more(a[q])) + 1
    <2>1. \A r \in PlacesOf(w) : ~(a[q] > a[r]) <=> a[r] > a[q] \/ r = q
      BY <1>2
    <2>2. upTo(a[q]) = more(a[q]) \cup {q} /\ more(a[q]) \cap {q} = {} /\ {q} \in SUBSET Pos
      BY <2>1, <1>1, <1>2 DEF Before
    <2> HIDE DEF more, upTo
    <2>3. Cardinality(more(a[q]) \cup {q}) = Cardinality(more(a[q])) + Cardinality({q})
      BY <2>2, <1>3, Counts
    <2>4. QED
      BY <2>2, <2>3, FS_Singleton
  <1>5. ASSUME NEW q \in PlacesOf(w), NEW r \in PlacesOf(w), a[q] < a[r]
        PROVE  Cardinality(more(a[r])) < Cardinality(more(a[q]))
    <2>1. \A i \in PlacesOf(w) : a[i] > a[r] => a[i] > a[q]
      BY <1>2, <1>5
    <2>2. a[r] > a[q] /\ ~(a[r] > a[r])
      BY <1>2, <1>5
    <2>3. more(a[r]) \subseteq more(a[q]) /\ r \in more(a[q]) /\ r \notin more(a[r])
      BY <2>1, <2>2 DEF Before
    <2> HIDE DEF more
    <2>4. QED
      BY <2>3, <1>3, Counts
  <1>6. ASSUME NEW p \in PlacesOf(w)
        PROVE  \E q \in PlacesOf(w) : s[p] = a[q] /\ Cardinality(more(a[q])) = p - w.lo
    <2>1. s[p] \in X /\ IsKth(a, PlacesOf(w), p - w.lo, s[p])
      BY SortedOnType
    <2>2. PICK q \in PlacesOf(w) : s[p] = a[q]
      BY <2>1
    <2>3. Cardinality(more(a[q])) <= p - w.lo /\ p - w.lo < Cardinality(upTo(a[q]))
      BY <2>1, <2>2 DEF IsKth
    <2>4. Cardinality(upTo(a[q])) = Cardinality(more(a[q])) + 1
          /\ Cardinality(more(a[q])) \in 0 .. N
      BY <1>3, <1>4
    <2>5. p - w.lo \in Int
      BY DEF PlacesOf
    <2> HIDE DEF more, upTo
    <2>6. Cardinality(more(a[q])) = p - w.lo
      BY <2>3, <2>4, <2>5
    <2>7. QED
      BY <2>2, <2>6
  <1> HIDE DEF s
  <1>7. ASSUME NEW p \in PlacesOf(w), p - 1 \in PlacesOf(w)
        PROVE  Before(s[p - 1], s[p])
    <2>1. PICK q \in PlacesOf(w) : s[p] = a[q] /\ Cardinality(more(a[q])) = p - w.lo
      BY <1>6
    <2>2. PICK r \in PlacesOf(w) : s[p - 1] = a[r] /\ Cardinality(more(a[r])) = p - 1 - w.lo
      BY <1>6, <1>7
    <2>3. p \in Int /\ w.lo \in Int
      BY DEF PlacesOf
    <2> HIDE DEF more
    <2>4. ~(Cardinality(more(a[q])) < Cardinality(more(a[r])))
          /\ Cardinality(more(a[q])) # Cardinality(more(a[r]))
      BY <2>1, <2>2, <2>3
    <2>5. ~(a[r] < a[q]) /\ a[r] # a[q]
      BY <2>4, <1>5
    <2>6. a[r] > a[q]
      BY <2>5, <1>2
    <2>7. QED
      BY <2>1, <2>2, <2>6 DEF Before
  <1>8. ASSUME NEW q \in PlacesOf(w)  PROVE \E p \in PlacesOf(w) : s[p] = a[q]
    <2> DEFINE k == Cardinality(more(a[q]))
    <2>1. q \notin more(a[q])
      BY <1>2 DEF Before
    <2>2. k < w.hi - w.lo /\ k \in 0 .. N
      <3>1. more(a[q]) \subseteq PlacesOf(w) /\ more(a[q]) # PlacesOf(w)
        BY <2>1
      <3> HIDE DEF more
      <3>2. QED
        BY <3>1, <1>1, <1>3, Counts
    <2> HIDE DEF k
    <2> DEFINE i == w.lo + k
    <2>3. i \in PlacesOf(w) /\ i - w.lo = k
      BY <2>2 DEF PlacesOf
    <2> HIDE DEF i
    <2>4. PICK r \in PlacesOf(w) : s[i] = a[r] /\ Cardinality(more(a[r])) = i - w.lo
      BY <2>3, <1>6
    <2>5. Cardinality(more(a[r])) = Cardinality(more(a[q]))
      BY <2>3, <2>4 DEF k
    <2>6. ~(a[r] < a[q]) /\ ~(a[q] < a[r])
      <3> HIDE DEF more
      <3>0. Cardinality(more(a[q])) \in Int
        BY <2>2 DEF k
      <3>1. ~(Cardinality(more(a[r])) < Cardinality(more(a[q])))
            /\ ~(Cardinality(more(a[q])) < Cardinality(more(a[r])))
        BY <2>5, <3>0
      <3>2. QED
        BY <3>1, <1>5
    <2>7. a[r] = a[q]
      BY <2>6, <1>2
    <2>8. QED
      BY <2>3, <2>4, <2>7
  <1>9. {s[p] : p \in PlacesOf(w)} = X
    <2>1. ASSUME NEW p \in PlacesOf(w)  PROVE s[p] \in X
      <3>1. PICK q \in PlacesOf(w) : s[p] = a[q]
        BY <1>6
      <3>2. QED
        BY <3>1
    <2>2. ASSUME NEW x \in X  PROVE \E p \in PlacesOf(w) : s[p] = x
      <3>1. PICK q \in PlacesOf(w) : x = a[q]
        OBVIOUS
      <3>2. QED
        BY <3>1, <1>8
    <2> HIDE DEF X
    <2>3. QED
      BY <2>1, <2>2
  <1>10. QED
    BY <1>7, <1>9 DEF s

-----------------------------------------------------------------------------
(* Lists of pieces.                                                        *)
Piece == [kind : {"sort", "move", "shared"}, lo : 0 .. N, hi : 0 .. N]
Has(s, w) == \E i \in DOMAIN s : s[i] = w

(* Pieces of two lists are pieces of the lists joined.                     *)
LEMMA HasConcat ==
    ASSUME NEW s \in Seq(Piece), NEW r \in Seq(Piece)
    PROVE  /\ s \o r \in Seq(Piece)
           /\ \A w : Has(s \o r, w) <=> Has(s, w) \/ Has(r, w)
  <1>1. s \o r \in Seq(Piece)
    OBVIOUS
  <1>2. Len(s) \in Nat /\ Len(r) \in Nat /\ DOMAIN s = 1 .. Len(s) /\ DOMAIN r = 1 .. Len(r)
        /\ DOMAIN (s \o r) = 1 .. Len(s) + Len(r)
    OBVIOUS
  <1>3. ASSUME NEW w, NEW i \in DOMAIN s, s[i] = w  PROVE Has(s \o r, w)
    <2>1. i \in DOMAIN (s \o r) /\ (s \o r)[i] = w
      BY <1>2, <1>3
    <2>2. QED
      BY <2>1 DEF Has
  <1>4. ASSUME NEW w, NEW i \in DOMAIN r, r[i] = w  PROVE Has(s \o r, w)
    <2> DEFINE j == Len(s) + i
    <2>1. j \in DOMAIN (s \o r) /\ (s \o r)[j] = w
      BY <1>2, <1>4
    <2> HIDE DEF j
    <2>2. QED
      BY <2>1 DEF Has
  <1>5. ASSUME NEW w, NEW i \in DOMAIN (s \o r), (s \o r)[i] = w
        PROVE  Has(s, w) \/ Has(r, w)
    <2>1. CASE i <= Len(s)
      <3>1. i \in DOMAIN s /\ s[i] = w
        BY <1>2, <1>5, <2>1
      <3>2. QED
        BY <3>1 DEF Has
    <2>2. CASE i > Len(s)
      <3> DEFINE j == i - Len(s)
      <3>1. j \in DOMAIN r /\ r[j] = w
        BY <1>2, <1>5, <2>2
      <3> HIDE DEF j
      <3>2. QED
        BY <3>1 DEF Has
    <2>3. QED
      BY <1>2, <2>1, <2>2
  <1>6. QED
    BY <1>1, <1>3, <1>4, <1>5 DEF Has

(* The pieces of a list of one, and of none.                               *)
LEMMA HasOne ==
    ASSUME NEW v \in Piece
    PROVE  /\ <<v>> \in Seq(Piece) /\ <<>> \in Seq(Piece)
           /\ \A w : Has(<<v>>, w) <=> w = v
           /\ \A w : ~Has(<<>>, w)
  <1>1. <<v>> \in Seq(Piece) /\ <<>> \in Seq(Piece)
        /\ DOMAIN <<v>> = {1} /\ <<v>>[1] = v /\ DOMAIN <<>> = {}
    OBVIOUS
  <1>2. QED
    BY <1>1 DEF Has

Saves == save \in [0 .. NumBuckets -> 0 .. N]

(* The pieces of work for one bucket.                                      *)
LEMMA WorkTypes ==
    ASSUME Saves, NEW b \in Bucket
    PROVE  /\ SortAndMove(b) \in Piece /\ Move(b) \in Piece
           /\ SortAndMove(b).kind = "sort" /\ Move(b).kind = "move"
           /\ SortAndMove(b).lo = save[b] /\ SortAndMove(b).hi = save[b + 1]
           /\ Move(b).lo = save[b] /\ Move(b).hi = save[b + 1]
  <1>1. NumBuckets \in Nat
    BY PartitionAssumption DEF PartitionAssumption
  <1>2. b \in 0 .. NumBuckets /\ b + 1 \in 0 .. NumBuckets
    BY <1>1 DEF Bucket
  <1>3. save[b] \in 0 .. N /\ save[b + 1] \in 0 .. N
    BY <1>2 DEF Saves
  <1>4. QED
    BY <1>3 DEF SortAndMove, Move, Work, Piece

(* The pieces of the loop over plain buckets.                              *)
LEMMA HasSortAll ==
    ASSUME Saves, NEW lo \in Nat, NEW hi \in 0 .. NumBuckets
    PROVE  /\ SortAll(lo, hi) \in Seq(Piece)
           /\ \A w : Has(SortAll(lo, hi), w) <=> \E b \in lo .. hi - 1 : w = SortAndMove(b)
  <1> DEFINE n == IF lo < hi THEN hi - lo ELSE 0
  <1>1. NumBuckets \in Nat /\ hi \in Nat /\ n \in Nat
    BY PartitionAssumption DEF PartitionAssumption
  <1>2. \A i \in 1 .. n : lo + i - 1 \in lo .. hi - 1
    BY <1>1
  <1>3. lo .. hi - 1 \subseteq Bucket
    BY <1>1 DEF Bucket
  <1>4. SortAll(lo, hi) = [i \in 1 .. n |-> SortAndMove(lo + i - 1)]
    BY DEF SortAll
  <1>5. \A i \in 1 .. n : SortAndMove(lo + i - 1) \in Piece
    BY <1>2, <1>3, WorkTypes
  <1> HIDE DEF n
  <1>6. SortAll(lo, hi) \in Seq(Piece) /\ DOMAIN SortAll(lo, hi) = 1 .. n
    BY <1>1, <1>4, <1>5
  <1>7. ASSUME NEW w, NEW i \in DOMAIN SortAll(lo, hi), SortAll(lo, hi)[i] = w
        PROVE  \E b \in lo .. hi - 1 : w = SortAndMove(b)
    <2>1. w = SortAndMove(lo + i - 1)
      BY <1>4, <1>6, <1>7
    <2>2. QED
      BY <1>2, <1>6, <2>1
  <1>8. ASSUME NEW w, NEW b \in lo .. hi - 1, w = SortAndMove(b)
        PROVE  Has(SortAll(lo, hi), w)
    <2> DEFINE i == b - lo + 1
    <2>1. i \in 1 .. n /\ lo + i - 1 = b
      BY <1>1 DEF n
    <2> HIDE DEF i
    <2>2. SortAll(lo, hi)[i] = w
      BY <1>4, <1>8, <2>1
    <2>3. QED
      BY <1>6, <2>1, <2>2 DEF Has
  <1>9. QED
    BY <1>6, <1>7, <1>8 DEF Has

(* The pieces of the loop over pairs of a bucket and its equality bucket.  *)
LEMMA HasPairs ==
    ASSUME Saves, NEW lo \in Nat, NEW hi \in Nat, hi < NumBuckets
    PROVE  /\ PairsFrom(lo, hi) \in Seq(Piece)
           /\ \A w : Has(PairsFrom(lo, hi), w) <=>
                 \E k \in Nat : /\ lo + 2 * k < hi
                                /\ w = SortAndMove(lo + 2 * k) \/ w = Move(lo + 2 * k + 1)
  <1> DEFINE n == IF lo < hi THEN 2 * ((hi - lo + 1) \div 2) ELSE 0
             P(i) == IF i % 2 = 1 THEN SortAndMove(lo + i - 1) ELSE Move(lo + i - 1)
  <1>1. NumBuckets \in Nat /\ n \in Nat
    BY PartitionAssumption DEF PartitionAssumption
  <1>2. \A i \in 1 .. n : lo + i - 1 \in Bucket
    <2>1. lo < hi => n <= hi - lo + 1
      OBVIOUS
    <2>2. QED
      BY <1>1, <2>1 DEF Bucket
  <1>3. PairsFrom(lo, hi) = [i \in 1 .. n |-> P(i)]
    BY DEF PairsFrom
  <1>4. \A i \in 1 .. n : P(i) \in Piece
    BY <1>2, WorkTypes
  <1> HIDE DEF P
  <1>5. PairsFrom(lo, hi) \in Seq(Piece) /\ DOMAIN PairsFrom(lo, hi) = 1 .. n
    <2> HIDE DEF n
    <2> QED BY <1>1, <1>3, <1>4
  <1>6. ASSUME NEW w, NEW i \in DOMAIN PairsFrom(lo, hi), PairsFrom(lo, hi)[i] = w
        PROVE  \E k \in Nat : /\ lo + 2 * k < hi
                              /\ w = SortAndMove(lo + 2 * k) \/ w = Move(lo + 2 * k + 1)
    <2>1. i \in 1 .. n /\ w = P(i)
      BY <1>3, <1>5, <1>6
    <2> DEFINE k == (i - 1) \div 2
    <2>2. k \in Nat /\ lo + 2 * k < hi
          /\ (i % 2 = 1 => lo + i - 1 = lo + 2 * k)
          /\ (i % 2 # 1 => lo + i - 1 = lo + 2 * k + 1)
      <3>1. lo < hi /\ i \in Nat /\ i >= 1 /\ i <= n
        BY <2>1
      <3>2. n <= hi - lo + 1 /\ n % 2 = 0
        BY <3>1
      <3> HIDE DEF n
      <3>3. QED
        BY <1>1, <3>1, <3>2
    <2> HIDE DEF k
    <2>3. w = SortAndMove(lo + 2 * k) \/ w = Move(lo + 2 * k + 1)
      BY <2>1, <2>2 DEF P
    <2>4. QED
      BY <2>2, <2>3
  <1>7. ASSUME NEW w, NEW k \in Nat, lo + 2 * k < hi, w = SortAndMove(lo + 2 * k)
        PROVE  Has(PairsFrom(lo, hi), w)
    <2> DEFINE i == 2 * k + 1
    <2>1. i \in 1 .. n /\ lo + i - 1 = lo + 2 * k /\ i % 2 = 1
      BY <1>1, <1>7
    <2> HIDE DEF i, n
    <2>2. PairsFrom(lo, hi)[i] = w
      BY <1>3, <1>7, <2>1 DEF P
    <2>3. QED
      BY <1>5, <2>1, <2>2 DEF Has
  <1>8. ASSUME NEW w, NEW k \in Nat, lo + 2 * k < hi, w = Move(lo + 2 * k + 1)
        PROVE  Has(PairsFrom(lo, hi), w)
    <2> DEFINE i == 2 * k + 2
    <2>1. i \in 1 .. n /\ lo + i - 1 = lo + 2 * k + 1 /\ i % 2 # 1
      BY <1>1, <1>8
    <2> HIDE DEF i, n
    <2>2. PairsFrom(lo, hi)[i] = w
      BY <1>3, <1>8, <2>1 DEF P
    <2>3. QED
      BY <1>5, <2>1, <2>2 DEF Has
  <1>9. QED
    BY <1>5, <1>6, <1>7, <1>8 DEF Has

(* FullBuckets with its local names.                                       *)
First2(first) == IF IsEqualityBucket(first) THEN first + 1 ELSE first
SortLast(first, last) ==
    First2(first) < last /\ last % 2 = 0 /\ First2(first) < NumBuckets - 2
Last2(first, last) == IF SortLast(first, last) THEN last - 1 ELSE last
EndEqb(first, last) == Min({Last2(first, last), NumBuckets - 2})

(* The pieces of all whole buckets from first to last.                     *)
LEMMA HasFullBuckets ==
    ASSUME Saves, NEW first \in Nat, NEW last \in 0 .. NumBuckets, first < last
    PROVE  /\ FullBuckets(first, last) \in Seq(Piece)
           /\ \A w : Has(FullBuckets(first, last), w) <=>
                 \/ IsEqualityBucket(first) /\ w = Move(first)
                 \/ SortLast(first, last) /\ w = SortAndMove(last - 1)
                 \/ \E k \in Nat :
                       /\ First2(first) + 2 * k < EndEqb(first, last)
                       /\ \/ w = SortAndMove(First2(first) + 2 * k)
                          \/ w = Move(First2(first) + 2 * k + 1)
                 \/ \E b \in EndEqb(first, last) .. Last2(first, last) - 1 : w = SortAndMove(b)
  <1> DEFINE s1 == IF IsEqualityBucket(first) THEN <<Move(first)>> ELSE <<>>
             s2 == IF SortLast(first, last) THEN <<SortAndMove(last - 1)>> ELSE <<>>
             s3 == PairsFrom(First2(first), EndEqb(first, last))
             s4 == SortAll(EndEqb(first, last), Last2(first, last))
  <1>1. NumBuckets \in Nat \ {0} /\ NumBuckets % 2 = 0
    BY PartitionAssumption DEF PartitionAssumption
  <1>2. First2(first) \in Nat /\ Last2(first, last) \in 0 .. NumBuckets
        /\ first \in Bucket /\ last - 1 \in Bucket
    BY <1>1 DEF First2, Last2, Bucket
  <1>3. EndEqb(first, last) \in Nat /\ EndEqb(first, last) < NumBuckets
    BY <1>1, <1>2, MinOfTwo DEF EndEqb
  <1>4. FullBuckets(first, last) = ((s1 \o s2) \o s3) \o s4
    BY DEF FullBuckets, SortLast, First2, Last2, EndEqb
  <1>5. s1 \in Seq(Piece) /\ \A w : Has(s1, w) <=> IsEqualityBucket(first) /\ w = Move(first)
    BY <1>2, WorkTypes, HasOne
  <1>6. s2 \in Seq(Piece)
        /\ \A w : Has(s2, w) <=> SortLast(first, last) /\ w = SortAndMove(last - 1)
    BY <1>2, WorkTypes, HasOne
  <1>7. s3 \in Seq(Piece)
        /\ \A w : Has(s3, w) <=> \E k \in Nat :
                       /\ First2(first) + 2 * k < EndEqb(first, last)
                       /\ \/ w = SortAndMove(First2(first) + 2 * k)
                          \/ w = Move(First2(first) + 2 * k + 1)
    BY <1>2, <1>3, HasPairs
  <1>8. s4 \in Seq(Piece)
        /\ \A w : Has(s4, w) <=>
              \E b \in EndEqb(first, last) .. Last2(first, last) - 1 : w = SortAndMove(b)
    BY <1>2, <1>3, HasSortAll
  <1> HIDE DEF s1, s2, s3, s4
  <1>9. s1 \o s2 \in Seq(Piece) /\ \A w : Has(s1 \o s2, w) <=> Has(s1, w) \/ Has(s2, w)
    BY <1>5, <1>6, HasConcat
  <1>10. (s1 \o s2) \o s3 \in Seq(Piece)
         /\ \A w : Has((s1 \o s2) \o s3, w) <=> Has(s1 \o s2, w) \/ Has(s3, w)
    BY <1>7, <1>9, HasConcat
  <1>11. ((s1 \o s2) \o s3) \o s4 \in Seq(Piece)
         /\ \A w : Has(((s1 \o s2) \o s3) \o s4, w) <=> Has((s1 \o s2) \o s3, w) \/ Has(s4, w)
    BY <1>8, <1>10, HasConcat
  <1>12. ASSUME NEW w
         PROVE  Has(FullBuckets(first, last), w) <=> Has(s1, w) \/ Has(s2, w) \/ Has(s3, w) \/ Has(s4, w)
    BY <1>4, <1>9, <1>10, <1>11
  <1>13. QED
    BY <1>4, <1>5, <1>6, <1>7, <1>8, <1>11, <1>12

(* What thread t takes when there are equality buckets.                    *)
LastOf(t) == IF SharesLast(t) THEN LastBucket(t) - 1 ELSE LastBucket(t)

(* The boundaries are in order and cover all places, and with equality     *)
(* buckets the last bucket but one is empty.                               *)
GoodSaves ==
    /\ Saves
    /\ save[0] = 0 /\ save[NumBuckets] = N
    /\ \A b, c \in 0 .. NumBuckets : b <= c => save[b] <= save[c]

(* The first and last bucket of a stripe, found by the searches through    *)
(* bucket_start_save, hold its ends.                                       *)
LEMMA Limits ==
    ASSUME GoodSaves, NEW t \in Thread, Mine(t) # {}
    PROVE  /\ FirstBucket(t) \in Bucket /\ LastBucket(t) \in 0 .. NumBuckets
           /\ FirstBucket(t) < LastBucket(t)
           /\ save[FirstBucket(t)] <= MyBegin(t) /\ MyBegin(t) < save[FirstBucket(t) + 1]
           /\ save[LastBucket(t) - 1] < MyEnd(t) /\ MyEnd(t) <= save[LastBucket(t)]
  <1> DEFINE F == {b \in 0 .. NumBuckets : save[b] <= MyBegin(t)}
             f == FirstBucket(t)
             L == {b \in f .. NumBuckets : save[b] >= MyEnd(t)}
             l == LastBucket(t)
  <1>1. NumBuckets \in Nat \ {0}
    BY PartitionAssumption DEF PartitionAssumption
  <1>2. MyBegin(t) \in 0 .. N /\ MyEnd(t) \in 0 .. N /\ MyBegin(t) < MyEnd(t)
    BY StripeBounds DEF Mine
  <1>3. \A b \in 0 .. NumBuckets : save[b] \in 0 .. N
    BY DEF GoodSaves, Saves
  <1>4. f \in F /\ \A b \in F : f >= b
    <2>1. 0 \in F
      BY <1>1, <1>2 DEF GoodSaves
    <2>2. F \in SUBSET (0 .. NumBuckets) /\ IsFiniteSet(0 .. NumBuckets)
      BY <1>1, FS_Interval
    <2>3. F \in SUBSET Int /\ IsFiniteSet(F)
      <3>1. IsFiniteSet(F)
        BY <2>2, FS_Subset
      <3>2. QED
        BY <2>2, <3>1
    <2>4. f = Max(F)
      BY DEF FirstBucket
    <2> HIDE DEF F, f
    <2>5. QED
      BY <2>1, <2>3, <2>4, HasMax
  <1>5. f # NumBuckets
    <2> HIDE DEF f
    <2>1. save[f] <= MyBegin(t)
      BY <1>4
    <2>2. save[NumBuckets] = N /\ N \in Nat
      BY PartitionAssumption DEF GoodSaves, PartitionAssumption
    <2> HIDE DEF F
    <2>3. QED
      BY <1>2, <2>1, <2>2
  <1>6. f \in Bucket /\ f \in 0 .. NumBuckets /\ f + 1 \in 0 .. NumBuckets /\ f \in Nat
    BY <1>1, <1>4, <1>5 DEF Bucket
  <1>7. save[f] <= MyBegin(t)
    BY <1>4
  <1>8. MyBegin(t) < save[f + 1]
    <2>1. f + 1 \notin F
      <3>1. ~(f >= f + 1)
        BY <1>6
      <3> HIDE DEF F, f
      <3>2. QED
        BY <3>1, <1>4
    <2>2. QED
      BY <2>1, <1>2, <1>3, <1>6
  <1> HIDE DEF f, F
  <1>9. l \in L /\ \A b \in L : l <= b
    <2>1. NumBuckets \in L
      BY <1>1, <1>2, <1>6 DEF GoodSaves
    <2>2. L \in SUBSET (0 .. NumBuckets) /\ IsFiniteSet(0 .. NumBuckets)
      BY <1>1, <1>6, FS_Interval
    <2>3. L \in SUBSET Int /\ IsFiniteSet(L)
      <3>1. IsFiniteSet(L)
        BY <2>2, FS_Subset
      <3>2. QED
        BY <2>2, <3>1
    <2>4. l = Min(L)
      BY DEF LastBucket, f
    <2> HIDE DEF L, l
    <2>5. QED
      BY <2>1, <2>3, <2>4, HasMin
  <1>10. l \in 0 .. NumBuckets /\ f <= l /\ save[l] >= MyEnd(t)
    BY <1>1, <1>6, <1>9
  <1>11. f # l
    BY <1>2, <1>3, <1>6, <1>7, <1>10
  <1>12. save[l - 1] < MyEnd(t)
    <2> HIDE DEF l
    <2>1. l - 1 \in f .. NumBuckets /\ l - 1 \in 0 .. NumBuckets /\ ~(l <= l - 1)
      BY <1>1, <1>6, <1>10, <1>11
    <2>2. l - 1 \notin L
      <3> HIDE DEF L
      <3> QED BY <2>1, <1>9
    <2>3. QED
      BY <2>1, <2>2, <1>2, <1>3
  <1>13. QED
    BY <1>6, <1>7, <1>8, <1>10, <1>11, <1>12 DEF f

(* Without a stripe there is no work.                                      *)
LEMMA NoStripe ==
    ASSUME GoodSaves, NEW t \in Thread, Mine(t) = {}
    PROVE  EqualWork(t) = <<>>
  <1> DEFINE F == {b \in 0 .. NumBuckets : save[b] <= MyBegin(t)}
             L == {b \in NumBuckets .. NumBuckets : save[b] >= MyEnd(t)}
  <1>1. NumBuckets \in Nat \ {0} /\ NumBuckets % 2 = 0 /\ N \in Nat
    BY PartitionAssumption DEF PartitionAssumption
  <1>2. MyBegin(t) = N /\ MyEnd(t) = N
    <2>1. MyBegin(t) \in Int /\ MyEnd(t) \in Int /\ MyBegin(t) <= MyEnd(t)
          /\ (MyBegin(t) = MyEnd(t) => MyBegin(t) = N)
      BY StripeBounds
    <2>2. ~(MyBegin(t) < MyEnd(t))
      <3>1. SUFFICES ASSUME MyBegin(t) < MyEnd(t)  PROVE FALSE
        OBVIOUS
      <3>2. MyBegin(t) \in Mine(t)
        BY <2>1, <3>1 DEF Mine
      <3>3. QED
        BY <3>2
    <2>3. QED
      BY <2>1, <2>2
  <1>3. \A b \in 0 .. NumBuckets : save[b] \in 0 .. N
    BY DEF GoodSaves, Saves
  <1>4. F = 0 .. NumBuckets
    BY <1>1, <1>2, <1>3
  <1>5. FirstBucket(t) = NumBuckets
    <2>1. FirstBucket(t) = Max(F)
      BY DEF FirstBucket
    <2> HIDE DEF F
    <2>2. F \in SUBSET Int /\ IsFiniteSet(F) /\ F # {} /\ NumBuckets \in F
      <3>1. IsFiniteSet(0 .. NumBuckets)
        BY <1>1, FS_Interval
      <3>2. NumBuckets \in 0 .. NumBuckets
        BY <1>1
      <3>3. QED
        BY <1>4, <3>1, <3>2
    <2>3. Max(F) \in F /\ Max(F) >= NumBuckets
      BY <2>2, HasMax
    <2>4. QED
      BY <1>1, <1>4, <2>1, <2>3
  <1>6. LastBucket(t) = NumBuckets
    <2>1. LastBucket(t) = Min(L)
      BY <1>5 DEF LastBucket
    <2>2. L = {NumBuckets}
      BY <1>1, <1>2 DEF GoodSaves
    <2> HIDE DEF L
    <2>3. L \in SUBSET Int /\ IsFiniteSet(L) /\ L # {}
      <3>1. IsFiniteSet({NumBuckets})
        BY FS_Singleton
      <3>2. QED
        BY <1>1, <2>2, <3>1
    <2>4. Min(L) \in L
      BY <2>3, HasMin
    <2>5. QED
      BY <2>1, <2>2, <2>4
  <1>7. ~IsEqualityBucket(NumBuckets)
    BY <1>1 DEF IsEqualityBucket
  <1>8. FirstFull(t) = NumBuckets
    BY <1>1, <1>2, <1>5, <1>7 DEF FirstFull, GoodSaves
  <1>9. ~SharesLast(t)
    BY <1>1, <1>6, <1>8 DEF SharesLast
  <1>10. SharedFirst(t) = <<>> /\ SharedLast(t) = <<>>
    BY <1>5, <1>7, <1>9 DEF SharedFirst, SharedLast
  <1>11. EqualWork(t) = <<>> \o <<>> \o <<>>
    BY <1>1, <1>6, <1>8, <1>9, <1>10 DEF EqualWork
  <1>12. QED
    BY <1>11

(* All pieces of a thread with equality buckets: shared parts at the two   *)
(* ends, whole buckets between.                                            *)
LEMMA HasEqualWork ==
    ASSUME GoodSaves, NEW t \in Thread, Mine(t) # {}
    PROVE  /\ EqualWork(t) \in Seq(Piece)
           /\ \A w : Has(EqualWork(t), w) <=>
                 \/ /\ IsEqualityBucket(FirstBucket(t))
                    /\ w = Work("shared", MyBegin(t), Min({MyEnd(t), save[FirstBucket(t) + 1]}))
                 \/ /\ SharesLast(t)
                    /\ w = Work("shared", save[LastBucket(t) - 1], MyEnd(t))
                 \/ /\ FirstFull(t) < LastOf(t)
                    /\ Has(FullBuckets(FirstFull(t), LastOf(t)), w)
  <1> DEFINE v1 == Work("shared", MyBegin(t), Min({MyEnd(t), save[FirstBucket(t) + 1]}))
             v2 == Work("shared", save[LastBucket(t) - 1], MyEnd(t))
             s3 == IF FirstFull(t) < LastOf(t) THEN FullBuckets(FirstFull(t), LastOf(t)) ELSE <<>>
  <1>1. NumBuckets \in Nat \ {0}
    BY PartitionAssumption DEF PartitionAssumption
  <1>2. FirstBucket(t) \in Bucket /\ LastBucket(t) \in 0 .. NumBuckets
        /\ FirstBucket(t) < LastBucket(t)
    BY Limits
  <1>3. MyBegin(t) \in 0 .. N /\ MyEnd(t) \in 0 .. N
    BY StripeBounds
  <1>4. save[FirstBucket(t) + 1] \in 0 .. N /\ save[LastBucket(t) - 1] \in 0 .. N
    <2>1. FirstBucket(t) + 1 \in 0 .. NumBuckets /\ LastBucket(t) - 1 \in 0 .. NumBuckets
      BY <1>1, <1>2 DEF Bucket
    <2>2. QED
      BY <2>1 DEF GoodSaves, Saves
  <1>5. v1 \in Piece
    <2>1. Min({MyEnd(t), save[FirstBucket(t) + 1]}) \in 0 .. N
      BY <1>3, <1>4, MinOfTwo
    <2>2. QED
      BY <1>3, <2>1 DEF Piece, Work
  <1>6. v2 \in Piece
    BY <1>3, <1>4 DEF Piece, Work
  <1>7. SharedFirst(t) \in Seq(Piece)
        /\ \A w : Has(SharedFirst(t), w) <=> IsEqualityBucket(FirstBucket(t)) /\ w = v1
    <2>1. SharedFirst(t) = IF IsEqualityBucket(FirstBucket(t)) THEN <<v1>> ELSE <<>>
      BY DEF SharedFirst
    <2> HIDE DEF v1
    <2>2. QED
      BY <1>5, <2>1, HasOne
  <1>8. SharedLast(t) \in Seq(Piece)
        /\ \A w : Has(SharedLast(t), w) <=> SharesLast(t) /\ w = v2
    <2>1. SharedLast(t) = IF SharesLast(t) THEN <<v2>> ELSE <<>>
      BY DEF SharedLast
    <2> HIDE DEF v2
    <2>2. QED
      BY <1>6, <2>1, HasOne
  <1>9. s3 \in Seq(Piece)
        /\ \A w : Has(s3, w) <=> FirstFull(t) < LastOf(t) /\ Has(FullBuckets(FirstFull(t), LastOf(t)), w)
    <2>1. FirstFull(t) \in Nat
      BY <1>2 DEF FirstFull, Bucket
    <2>2. LastOf(t) \in 0 .. NumBuckets
      BY <1>1, <1>2 DEF LastOf, Bucket
    <2>3. CASE FirstFull(t) < LastOf(t)
      BY <2>1, <2>2, <2>3, HasFullBuckets DEF GoodSaves
    <2>4. CASE ~(FirstFull(t) < LastOf(t))
      BY <1>5, <2>4, HasOne
    <2>5. QED
      BY <2>3, <2>4
  <1>10. EqualWork(t) = (SharedFirst(t) \o SharedLast(t)) \o s3
    BY DEF EqualWork, LastOf
  <1> HIDE DEF v1, v2, s3
  <1>11. SharedFirst(t) \o SharedLast(t) \in Seq(Piece)
         /\ \A w : Has(SharedFirst(t) \o SharedLast(t), w) <=> Has(SharedFirst(t), w) \/ Has(SharedLast(t), w)
    BY <1>7, <1>8, HasConcat
  <1>12. (SharedFirst(t) \o SharedLast(t)) \o s3 \in Seq(Piece)
         /\ \A w : Has((SharedFirst(t) \o SharedLast(t)) \o s3, w)
                     <=> Has(SharedFirst(t) \o SharedLast(t), w) \/ Has(s3, w)
    BY <1>9, <1>11, HasConcat
  <1>13. ASSUME NEW w
         PROVE  Has(EqualWork(t), w) <=>
                  \/ IsEqualityBucket(FirstBucket(t)) /\ w = v1
                  \/ SharesLast(t) /\ w = v2
                  \/ FirstFull(t) < LastOf(t) /\ Has(FullBuckets(FirstFull(t), LastOf(t)), w)
    BY <1>7, <1>8, <1>9, <1>10, <1>11, <1>12
  <1>14. QED
    BY <1>10, <1>12, <1>13 DEF v1, v2

(* The buckets thread t sorts: with equality buckets those that begin in   *)
(* its stripe, without them its share of the buckets.                      *)
PerThread == (NumBuckets + T - 1) \div T
PlainFirst(t) == Min({t * PerThread, NumBuckets})
PlainEnd(t) == Min({(t + 1) * PerThread, NumBuckets})
Owns(t, b) ==
    IF job.equal THEN save[b] \in Mine(t) ELSE b \in PlainFirst(t) .. PlainEnd(t) - 1

AllEqual(b) == job.equal /\ IsEqualityBucket(b)

(* A piece of thread t lies in one bucket; it sorts one of t's buckets, or *)
(* it moves places of an equality bucket.                                  *)
RightPiece(t, w) ==
    \E b \in Bucket :
        /\ save[b] <= w.lo /\ w.hi <= save[b + 1]
        /\ \/ w = SortAndMove(b) /\ ~AllEqual(b) /\ Owns(t, b)
           \/ w.kind \in {"move", "shared"} /\ AllEqual(b)

PairUnused == job.equal => save[NumBuckets - 2] = save[NumBuckets - 1]

(* Where the whole buckets of a thread start and end, and what the parity  *)
(* test makes of the last.                                                 *)
LEMMA FirstFullFacts ==
    ASSUME GoodSaves, NEW t \in Thread, Mine(t) # {}
    PROVE  /\ FirstFull(t) \in Nat
           /\ FirstFull(t) \in {FirstBucket(t), FirstBucket(t) + 1}
           /\ FirstFull(t) = FirstBucket(t) => /\ ~IsEqualityBucket(FirstBucket(t))
                                               /\ MyBegin(t) = save[FirstBucket(t)]
           /\ LastOf(t) \in 0 .. NumBuckets /\ LastOf(t) <= LastBucket(t)
           /\ FirstFull(t) < LastOf(t) =>
                 /\ LastOf(t) % 2 = 0 => LastOf(t) = NumBuckets
                 /\ SharesLast(t) => LastOf(t) % 2 = 1
  <1>1. NumBuckets \in Nat \ {0} /\ NumBuckets % 2 = 0
    BY PartitionAssumption DEF PartitionAssumption
  <1>2. FirstBucket(t) \in Bucket /\ LastBucket(t) \in 0 .. NumBuckets
        /\ FirstBucket(t) < LastBucket(t) /\ save[FirstBucket(t)] <= MyBegin(t)
    BY Limits
  <1>3. FirstFull(t) \in Nat /\ FirstFull(t) \in {FirstBucket(t), FirstBucket(t) + 1}
    BY <1>2 DEF FirstFull, Bucket
  <1>4. MyBegin(t) \in Int /\ save[FirstBucket(t)] \in Int
    <2>1. FirstBucket(t) \in 0 .. NumBuckets
      BY <1>1, <1>2 DEF Bucket
    <2>2. QED
      BY <2>1, StripeBounds DEF GoodSaves, Saves
  <1>5. FirstFull(t) = FirstBucket(t) => /\ ~IsEqualityBucket(FirstBucket(t))
                                         /\ MyBegin(t) = save[FirstBucket(t)]
    BY <1>2, <1>4 DEF FirstFull, Bucket
  <1>6. LastOf(t) \in 0 .. NumBuckets /\ LastOf(t) <= LastBucket(t)
    BY <1>1, <1>2 DEF LastOf, Bucket
  <1>7. SharesLast(t) => LastOf(t) % 2 = 1
    BY <1>1, <1>2 DEF LastOf, SharesLast, IsEqualityBucket
  <1>8. FirstFull(t) < LastOf(t) /\ LastOf(t) % 2 = 0 => LastOf(t) = NumBuckets
    <2>1. SUFFICES ASSUME FirstFull(t) < LastOf(t), LastOf(t) % 2 = 0
                   PROVE  LastOf(t) = NumBuckets
      OBVIOUS
    <2>2. ~SharesLast(t)
      BY <1>7, <2>1
    <2>3. LastOf(t) = LastBucket(t)
      BY <2>2 DEF LastOf
    <2>4. ~IsEqualityBucket(LastBucket(t) - 1)
      BY <2>1, <2>2, <2>3 DEF SharesLast
    <2>5. QED
      BY <1>1, <1>2, <2>1, <2>3, <2>4 DEF IsEqualityBucket
  <1>9. QED
    BY <1>3, <1>5, <1>6, <1>7, <1>8

(* A full bucket of t begins in its stripe.                                *)
LEMMA FullBucketsOwned ==
    ASSUME GoodSaves, NEW t \in Thread, Mine(t) # {},
           NEW b \in Bucket, FirstFull(t) <= b, b < LastOf(t)
    PROVE  save[b] \in Mine(t)
  <1>1. NumBuckets \in Nat \ {0}
    BY PartitionAssumption DEF PartitionAssumption
  <1>2. FirstBucket(t) \in Bucket /\ LastBucket(t) \in 0 .. NumBuckets
        /\ MyBegin(t) < save[FirstBucket(t) + 1] /\ save[LastBucket(t) - 1] < MyEnd(t)
    BY Limits
  <1>3. FirstFull(t) \in {FirstBucket(t), FirstBucket(t) + 1}
        /\ (FirstFull(t) = FirstBucket(t) => MyBegin(t) = save[FirstBucket(t)])
        /\ LastOf(t) <= LastBucket(t) /\ LastOf(t) \in Int
    BY FirstFullFacts
  <1>4. \A c \in 0 .. NumBuckets : save[c] \in Int
    BY DEF GoodSaves, Saves
  <1>5. b \in 0 .. NumBuckets /\ LastBucket(t) - 1 \in 0 .. NumBuckets /\ b <= LastBucket(t) - 1
        /\ FirstFull(t) \in 0 .. NumBuckets
    BY <1>1, <1>2, <1>3 DEF Bucket
  <1>6. save[b] <= save[LastBucket(t) - 1] /\ save[FirstFull(t)] <= save[b]
    BY <1>5 DEF GoodSaves
  <1>7. MyBegin(t) \in Int /\ MyEnd(t) \in Int
    BY StripeBounds
  <1>8. MyBegin(t) <= save[FirstFull(t)]
    BY <1>2, <1>3, <1>4, <1>5, <1>7
  <1>9. MyBegin(t) <= save[b] /\ save[b] < MyEnd(t) /\ save[b] \in Int
    BY <1>2, <1>4, <1>5, <1>6, <1>7, <1>8
  <1>10. QED
    BY <1>7, <1>9 DEF Mine

(* With equality buckets every piece with places is what its thread should *)
(* do.                                                                     *)
LEMMA EqualPieces ==
    ASSUME GoodSaves, PairUnused, job.equal, NEW t \in Thread, Mine(t) # {},
           NEW w, Has(EqualWork(t), w), HasPlaces(w)
    PROVE  RightPiece(t, w)
  <1> DEFINE first == FirstFull(t)
             last == LastOf(t)
  <1>1. NumBuckets \in Nat \ {0} /\ NumBuckets % 2 = 0
    BY PartitionAssumption DEF PartitionAssumption
  <1>2. FirstBucket(t) \in Bucket /\ LastBucket(t) \in 0 .. NumBuckets
        /\ FirstBucket(t) < LastBucket(t)
        /\ save[FirstBucket(t)] <= MyBegin(t) /\ MyEnd(t) <= save[LastBucket(t)]
    BY Limits
  <1>3. /\ first \in Nat /\ first \in {FirstBucket(t), FirstBucket(t) + 1}
        /\ last \in 0 .. NumBuckets /\ last <= LastBucket(t)
        /\ first < last => (last % 2 = 0 => last = NumBuckets)
    BY FirstFullFacts
  <1>4. \A b \in 0 .. NumBuckets : save[b] \in Int
    BY DEF GoodSaves, Saves
  <1>5. MyBegin(t) \in Int /\ MyEnd(t) \in Int
    BY StripeBounds
  <1>6. CASE /\ IsEqualityBucket(FirstBucket(t))
             /\ w = Work("shared", MyBegin(t), Min({MyEnd(t), save[FirstBucket(t) + 1]}))
    <2>1. FirstBucket(t) + 1 \in 0 .. NumBuckets
      BY <1>1, <1>2 DEF Bucket
    <2>2. w.kind = "shared" /\ w.lo = MyBegin(t) /\ w.hi <= save[FirstBucket(t) + 1]
      BY <1>4, <1>5, <1>6, <2>1, MinOfTwo DEF Work
    <2>3. QED
      BY <1>2, <1>6, <2>2 DEF RightPiece, AllEqual
  <1>7. CASE /\ SharesLast(t)
             /\ w = Work("shared", save[LastBucket(t) - 1], MyEnd(t))
    <2> DEFINE b == LastBucket(t) - 1
    <2>1. b \in Bucket /\ b \in 0 .. NumBuckets /\ b + 1 = LastBucket(t) /\ IsEqualityBucket(b)
      BY <1>1, <1>2, <1>7 DEF Bucket, SharesLast
    <2>2. w.kind = "shared" /\ w.lo = save[b] /\ w.hi = MyEnd(t)
      BY <1>7 DEF Work
    <2>3. save[b] <= w.lo /\ w.hi <= save[b + 1]
      BY <1>2, <1>4, <2>1, <2>2
    <2> HIDE DEF b
    <2>4. QED
      BY <2>1, <2>2, <2>3 DEF RightPiece, AllEqual
  <1>8. ASSUME NEW b \in Bucket, IsEqualityBucket(b), w = Move(b)
        PROVE  RightPiece(t, w)
    <2>1. w.kind = "move" /\ w.lo = save[b] /\ w.hi = save[b + 1]
      BY <1>8 DEF Move, Work
    <2>2. b \in 0 .. NumBuckets /\ b + 1 \in 0 .. NumBuckets
      BY <1>1 DEF Bucket
    <2>3. save[b] <= w.lo /\ w.hi <= save[b + 1]
      BY <1>4, <2>1, <2>2
    <2>4. QED
      BY <1>8, <2>1, <2>3 DEF RightPiece, AllEqual
  <1>9. ASSUME NEW b \in Bucket, ~IsEqualityBucket(b), first <= b, b < last, w = SortAndMove(b)
        PROVE  RightPiece(t, w)
    <2>1. w.lo = save[b] /\ w.hi = save[b + 1]
      BY <1>9 DEF SortAndMove, Work
    <2>2. b \in 0 .. NumBuckets /\ b + 1 \in 0 .. NumBuckets
      BY <1>1 DEF Bucket
    <2>3. save[b] <= w.lo /\ w.hi <= save[b + 1]
      BY <1>4, <2>1, <2>2
    <2>4. save[b] \in Mine(t)
      BY <1>9, FullBucketsOwned
    <2>5. QED
      BY <1>9, <2>3, <2>4 DEF RightPiece, AllEqual, Owns
  <1>10. CASE first < last /\ Has(FullBuckets(first, last), w)
    <2> DEFINE f2 == First2(first)
               l2 == Last2(first, last)
               ee == EndEqb(first, last)
    <2>1. first \in Bucket /\ first <= f2 /\ f2 \in Nat
      BY <1>1, <1>3, <1>10 DEF Bucket, First2
    <2>2. l2 <= last /\ l2 \in Int
      BY <1>3 DEF Last2
    <2>3. ee <= l2 /\ ee <= NumBuckets - 2 /\ ee \in Int /\ ee = IF l2 <= NumBuckets - 2 THEN l2 ELSE NumBuckets - 2
      BY <1>1, <2>2, MinOfTwo DEF EndEqb
    <2>4. f2 % 2 = 0 \/ f2 = NumBuckets - 1
      BY <1>1, <2>1 DEF First2, IsEqualityBucket, Bucket
    <2>5. CASE IsEqualityBucket(first) /\ w = Move(first)
      BY <1>8, <2>1, <2>5
    <2>6. CASE SortLast(first, last) /\ w = SortAndMove(last - 1)
      <3>1. last % 2 = 0 /\ f2 < last
        BY <2>6 DEF SortLast
      <3>2. last = NumBuckets
        BY <1>3, <1>10, <3>1
      <3>3. last - 1 \in Bucket /\ first <= last - 1 /\ last - 1 < last
        BY <1>1, <1>3, <1>10, <3>2 DEF Bucket
      <3>4. ~IsEqualityBucket(last - 1)
        BY <1>1, <3>2 DEF IsEqualityBucket
      <3>5. QED
        BY <1>9, <2>6, <3>3, <3>4
    <2>7. CASE \E k \in Nat : /\ f2 + 2 * k < ee
                              /\ w = SortAndMove(f2 + 2 * k) \/ w = Move(f2 + 2 * k + 1)
      <3>1. PICK k \in Nat : /\ f2 + 2 * k < ee
                             /\ w = SortAndMove(f2 + 2 * k) \/ w = Move(f2 + 2 * k + 1)
        BY <2>7
      <3> DEFINE b == f2 + 2 * k
      <3>2. b \in Nat /\ b < NumBuckets - 2 /\ b < last /\ first <= b /\ f2 <= b
        BY <1>1, <1>3, <2>1, <2>2, <2>3, <3>1
      <3>3. f2 % 2 = 0
        BY <1>1, <2>1, <2>4, <3>2
      <3>4. b % 2 = 0 /\ (b + 1) % 2 = 1
        BY <2>1, <3>3
      <3>5. b \in Bucket /\ b + 1 \in Bucket
        BY <1>1, <3>2 DEF Bucket
      <3>6. CASE w = SortAndMove(b)
        <4>1. ~IsEqualityBucket(b)
          BY <3>4 DEF IsEqualityBucket
        <4> HIDE DEF b
        <4>2. QED
          BY <1>9, <3>2, <3>5, <3>6, <4>1
      <3>7. CASE w = Move(b + 1)
        <4>1. b + 1 < NumBuckets - 2
          BY <1>1, <3>2, <3>4
        <4>2. IsEqualityBucket(b + 1)
          BY <3>4, <4>1 DEF IsEqualityBucket
        <4> HIDE DEF b
        <4>3. QED
          BY <1>8, <3>5, <3>7, <4>2
      <3>8. QED
        BY <3>1, <3>6, <3>7
    <2>8. CASE \E b \in ee .. l2 - 1 : w = SortAndMove(b)
      <3>1. PICK b \in ee .. l2 - 1 : w = SortAndMove(b)
        BY <2>8
      <3>2. b \in Int /\ b >= NumBuckets - 2 /\ b < last /\ b < NumBuckets
        BY <1>1, <1>3, <2>2, <2>3, <3>1
      <3>3. b \in Bucket
        BY <1>1, <3>2, <2>2, <2>3 DEF Bucket
      <3>4. ~IsEqualityBucket(b)
        BY <1>1, <3>2 DEF IsEqualityBucket
      <3>5. CASE first <= b
        BY <1>9, <3>1, <3>2, <3>3, <3>4, <3>5
      <3>6. CASE ~(first <= b)
        <4>1. b = NumBuckets - 2
          BY <1>1, <1>3, <1>10, <3>2, <3>6
        <4>2. w.lo = save[b] /\ w.hi = save[b + 1] /\ b + 1 = NumBuckets - 1
          BY <1>1, <3>1, <4>1 DEF SortAndMove, Work
        <4>3. w.lo = w.hi
          BY <4>1, <4>2 DEF PairUnused
        <4>4. b \in 0 .. NumBuckets
          BY <1>1, <3>3 DEF Bucket
        <4>5. w.lo \in Int /\ w.lo < w.hi
          BY <1>4, <4>2, <4>4 DEF HasPlaces
        <4>6. QED
          BY <4>3, <4>5
      <3>7. QED
        BY <3>5, <3>6
    <2> HIDE DEF f2, l2, ee
    <2>9. QED
      <3>1. Saves
        BY DEF GoodSaves
      <3>2. \/ IsEqualityBucket(first) /\ w = Move(first)
            \/ SortLast(first, last) /\ w = SortAndMove(last - 1)
            \/ \E k \in Nat : /\ f2 + 2 * k < ee
                              /\ w = SortAndMove(f2 + 2 * k) \/ w = Move(f2 + 2 * k + 1)
            \/ \E b \in ee .. l2 - 1 : w = SortAndMove(b)
        BY <1>3, <1>10, <3>1, HasFullBuckets DEF f2, l2, ee
      <3>3. QED
        BY <2>5, <2>6, <2>7, <2>8, <3>2
  <1> HIDE DEF first, last
  <1>11. QED
    BY <1>6, <1>7, <1>10, HasEqualWork DEF first, last

(* Every bucket that begins in the stripe of t and is not an equality      *)
(* bucket is sorted by t, unless it is empty.                              *)
LEMMA EqualSorts ==
    ASSUME GoodSaves, PairUnused, job.equal, NEW t \in Thread, Mine(t) # {},
           NEW b \in Bucket, save[b] \in Mine(t), save[b] < save[b + 1], ~IsEqualityBucket(b)
    PROVE  Has(EqualWork(t), SortAndMove(b))
  <1> DEFINE first == FirstFull(t)
             last == LastOf(t)
             f2 == First2(first)
             l2 == Last2(first, last)
             ee == EndEqb(first, last)
  <1>1. NumBuckets \in Nat \ {0} /\ NumBuckets % 2 = 0
    BY PartitionAssumption DEF PartitionAssumption
  <1>2. FirstBucket(t) \in Bucket /\ LastBucket(t) \in 0 .. NumBuckets
        /\ save[FirstBucket(t)] <= MyBegin(t) /\ MyBegin(t) < save[FirstBucket(t) + 1]
        /\ MyEnd(t) <= save[LastBucket(t)]
    BY Limits
  <1>3. /\ first \in Nat /\ first \in {FirstBucket(t), FirstBucket(t) + 1}
        /\ last \in 0 .. NumBuckets /\ last <= LastBucket(t)
        /\ SharesLast(t) => (first < last => last % 2 = 1)
    BY FirstFullFacts
  <1>4. \A c \in 0 .. NumBuckets : save[c] \in Int
    BY DEF GoodSaves, Saves
  <1>5. MyBegin(t) \in Int /\ MyEnd(t) \in Int
    BY StripeBounds
  <1>6. MyBegin(t) <= save[b] /\ save[b] < MyEnd(t)
    BY <1>5 DEF Mine
  <1>7. b \in Int /\ b \in 0 .. NumBuckets /\ b + 1 \in 0 .. NumBuckets
        /\ FirstBucket(t) \in 0 .. NumBuckets /\ FirstBucket(t) + 1 \in 0 .. NumBuckets
        /\ FirstBucket(t) \in Int /\ LastBucket(t) \in Int
    BY <1>1, <1>2 DEF Bucket
  <1>8. b < LastBucket(t)
    <2>1. LastBucket(t) <= b => save[LastBucket(t)] <= save[b]
      BY <1>2, <1>7 DEF GoodSaves
    <2>2. QED
      BY <1>2, <1>4, <1>5, <1>6, <1>7, <2>1
  <1>9. FirstBucket(t) <= b
    <2>1. b + 1 <= FirstBucket(t) => save[b + 1] <= save[FirstBucket(t)]
      BY <1>7 DEF GoodSaves
    <2>2. QED
      BY <1>2, <1>4, <1>5, <1>6, <1>7, <2>1
  <1>10. first <= b
    <2>1. CASE FirstBucket(t) < b
      BY <1>3, <1>7, <2>1
    <2>2. CASE FirstBucket(t) = b
      <3>1. save[b] = MyBegin(t)
        BY <1>2, <1>4, <1>5, <1>6, <1>7, <2>2
      <3>2. QED
        BY <1>5, <1>7, <2>2, <3>1 DEF FirstFull
    <2>3. QED
      BY <1>7, <1>9, <2>1, <2>2
  <1>11. b < last
    BY <1>7, <1>8 DEF LastOf, SharesLast
  <1>12. b # NumBuckets - 2
    <2>1. SUFFICES ASSUME b = NumBuckets - 2  PROVE FALSE
      OBVIOUS
    <2>2. b + 1 = NumBuckets - 1
      BY <1>1, <2>1
    <2>3. save[b] = save[b + 1]
      BY <2>1, <2>2 DEF PairUnused
    <2>4. QED
      BY <1>4, <1>7, <2>3
  <1>13. b % 2 = 0 \/ b = NumBuckets - 1
    BY <1>1, <1>12 DEF IsEqualityBucket, Bucket
  <1>14. first \in Nat /\ last \in 0 .. NumBuckets /\ first < last
    BY <1>3, <1>7, <1>10, <1>11
  <1>15. f2 \in Nat /\ f2 <= b /\ (IsEqualityBucket(first) => f2 = first + 1)
         /\ (~IsEqualityBucket(first) => f2 = first)
    BY <1>7, <1>10, <1>14 DEF First2
  <1>16. l2 \in Int /\ l2 <= last /\ (SortLast(first, last) => l2 = last - 1)
         /\ (~SortLast(first, last) => l2 = last)
    BY <1>14 DEF Last2
  <1>17. ee \in Int /\ ee = IF l2 <= NumBuckets - 2 THEN l2 ELSE NumBuckets - 2
    BY <1>1, <1>16, MinOfTwo DEF EndEqb
  <1>18. Saves
    BY DEF GoodSaves
  <1>19. Has(FullBuckets(first, last), SortAndMove(b))
    <2>1. CASE b = NumBuckets - 1
      <3>1. last = NumBuckets
        BY <1>1, <1>11, <1>14, <2>1
      <3>2. CASE SortLast(first, last)
        BY <1>14, <1>18, <2>1, <3>1, <3>2, HasFullBuckets
      <3>3. CASE ~SortLast(first, last)
        <4>1. l2 = NumBuckets /\ ee = NumBuckets - 2
          BY <1>1, <1>16, <1>17, <3>1, <3>3
        <4>2. b \in ee .. l2 - 1
          BY <1>1, <2>1, <4>1
        <4>3. QED
          BY <1>14, <1>18, <4>2, HasFullBuckets
      <3>4. QED
        BY <3>2, <3>3
    <2>2. CASE b % 2 = 0 /\ b < NumBuckets - 2
      <3>1. f2 % 2 = 0
        BY <1>1, <1>7, <1>14, <1>15, <2>2 DEF IsEqualityBucket
      <3>2. b < l2
        <4>1. SortLast(first, last) => last % 2 = 0
          BY DEF SortLast
        <4>2. QED
          BY <1>7, <1>11, <1>14, <1>16, <2>2, <4>1
      <3>3. b < ee
        BY <1>1, <1>7, <1>16, <1>17, <2>2, <3>2
      <3>4. PICK k \in Nat : b = f2 + 2 * k
        <4>1. (b - f2) % 2 = 0 /\ b - f2 \in Nat
          BY <1>7, <1>15, <2>2, <3>1
        <4>2. b = f2 + 2 * ((b - f2) \div 2) /\ (b - f2) \div 2 \in Nat
          BY <1>7, <1>15, <4>1
        <4>3. QED
          BY <4>2
      <3>5. f2 + 2 * k < ee /\ SortAndMove(b) = SortAndMove(f2 + 2 * k)
        BY <3>3, <3>4
      <3> HIDE DEF first, last
      <3>6. QED
        BY <1>14, <1>18, <3>5, HasFullBuckets
    <2>3. QED
      BY <1>1, <1>7, <1>12, <1>13, <2>1, <2>2 DEF Bucket
  <1> HIDE DEF first, last
  <1>20. QED
    BY <1>14, <1>19, HasEqualWork DEF first, last

(* Every place of the stripe of t that is in an equality bucket is moved   *)
(* by t.                                                                   *)
LEMMA EqualMoves ==
    ASSUME GoodSaves, PairUnused, job.equal, NEW t \in Thread,
           NEW b \in Bucket, IsEqualityBucket(b),
           NEW p \in Mine(t), save[b] <= p, p < save[b + 1]
    PROVE  \E w \in Piece : /\ Has(EqualWork(t), w) /\ w.kind \in {"move", "shared"}
                            /\ p \in PlacesOf(w)
  <1> DEFINE first == FirstFull(t)
             last == LastOf(t)
             f2 == First2(first)
             l2 == Last2(first, last)
             ee == EndEqb(first, last)
  <1>1. NumBuckets \in Nat \ {0} /\ NumBuckets % 2 = 0
    BY PartitionAssumption DEF PartitionAssumption
  <1>2. FirstBucket(t) \in Bucket /\ LastBucket(t) \in 0 .. NumBuckets
        /\ save[FirstBucket(t)] <= MyBegin(t) /\ MyBegin(t) < save[FirstBucket(t) + 1]
        /\ MyEnd(t) <= save[LastBucket(t)]
    BY Limits
  <1>3. /\ first \in Nat /\ first \in {FirstBucket(t), FirstBucket(t) + 1}
        /\ last \in 0 .. NumBuckets /\ last <= LastBucket(t)
    BY FirstFullFacts
  <1>4. \A c \in 0 .. NumBuckets : save[c] \in 0 .. N
    BY DEF GoodSaves, Saves
  <1>5. MyBegin(t) \in 0 .. N /\ MyEnd(t) \in 0 .. N
    BY StripeBounds
  <1>6. p \in Int /\ MyBegin(t) <= p /\ p < MyEnd(t)
    BY <1>5 DEF Mine
  <1>7. b \in Int /\ b \in 0 .. NumBuckets /\ b + 1 \in 0 .. NumBuckets
        /\ FirstBucket(t) \in 0 .. NumBuckets /\ FirstBucket(t) + 1 \in 0 .. NumBuckets
        /\ FirstBucket(t) \in Int /\ LastBucket(t) \in Int
        /\ b % 2 = 1 /\ b < NumBuckets - 2
    BY <1>1, <1>2 DEF Bucket, IsEqualityBucket
  <1>8. b < LastBucket(t)
    <2>1. LastBucket(t) <= b => save[LastBucket(t)] <= save[b]
      BY <1>2, <1>7 DEF GoodSaves
    <2>2. QED
      BY <1>2, <1>4, <1>5, <1>6, <1>7, <2>1
  <1>9. FirstBucket(t) <= b
    <2>1. b + 1 <= FirstBucket(t) => save[b + 1] <= save[FirstBucket(t)]
      BY <1>7 DEF GoodSaves
    <2>2. QED
      BY <1>2, <1>4, <1>5, <1>6, <1>7, <2>1
  <1>10. CASE b = FirstBucket(t)
    <2> DEFINE w == Work("shared", MyBegin(t), Min({MyEnd(t), save[FirstBucket(t) + 1]}))
    <2>1. Has(EqualWork(t), w)
      BY <1>10, HasEqualWork
    <2>2. w.kind = "shared" /\ w.lo = MyBegin(t)
          /\ w.hi = IF MyEnd(t) <= save[b + 1] THEN MyEnd(t) ELSE save[b + 1]
      BY <1>4, <1>5, <1>7, <1>10, MinOfTwo DEF Work
    <2>3. p \in PlacesOf(w)
      BY <1>4, <1>5, <1>6, <1>7, <2>2 DEF PlacesOf
    <2>4. w.hi \in 0 .. N
      BY <1>4, <1>5, <1>7, <2>2
    <2>5. w \in Piece
      BY <1>5, <2>2, <2>4 DEF Piece, Work
    <2>6. QED
      BY <2>1, <2>2, <2>3, <2>5
  <1>11. CASE b # FirstBucket(t) /\ b = LastBucket(t) - 1
    <2> DEFINE w == Work("shared", save[LastBucket(t) - 1], MyEnd(t))
    <2>1. SharesLast(t)
      <3>1. first < LastBucket(t)
        <4> HIDE DEF first, last
        <4>1. FirstBucket(t) + 1 <= b
          <5>1. b \in Int /\ FirstBucket(t) \in Int
            BY <1>7
          <5>2. b # FirstBucket(t)
            BY <1>11
          <5>3. QED
            BY <1>9, <5>1, <5>2
        <4>2. first <= b
          BY <1>3, <1>7, <4>1
        <4>3. QED
          BY <1>3, <1>7, <1>8, <4>2
      <3>2. IsEqualityBucket(LastBucket(t) - 1)
        BY <1>11
      <3>3. QED
        BY <3>1, <3>2 DEF SharesLast
    <2>2. Has(EqualWork(t), w)
      BY <2>1, HasEqualWork
    <2>3. w.kind = "shared" /\ w.lo = save[b] /\ w.hi = MyEnd(t)
      BY <1>11 DEF Work
    <2>4. p \in PlacesOf(w)
      BY <1>4, <1>5, <1>6, <1>7, <2>3 DEF PlacesOf
    <2>5. save[b] \in 0 .. N /\ save[b] = save[LastBucket(t) - 1]
      BY <1>4, <1>7, <1>11
    <2>6. w = [kind |-> "shared", lo |-> save[b], hi |-> MyEnd(t)]
      BY <2>5 DEF Work
    <2>7. w \in Piece
      BY <1>5, <2>5, <2>6 DEF Piece
    <2> HIDE DEF w
    <2>8. QED
      BY <2>2, <2>3, <2>4, <2>7
  <1>12. CASE b # FirstBucket(t) /\ b # LastBucket(t) - 1
    <2> DEFINE w == Move(b)
    <2>1. first <= b /\ b < last
      BY <1>3, <1>7, <1>8, <1>9, <1>12 DEF LastOf
    <2>2. first \in Nat /\ last \in 0 .. NumBuckets /\ first < last
      BY <1>3, <1>7, <2>1
    <2>3. f2 \in Nat /\ (IsEqualityBucket(first) => f2 = first + 1)
          /\ (~IsEqualityBucket(first) => f2 = first)
      BY <2>2 DEF First2
    <2>4. l2 \in Int /\ (l2 = last - 1 \/ l2 = last)
      BY <2>2 DEF Last2
    <2>5. ee \in Int /\ ee = IF l2 <= NumBuckets - 2 THEN l2 ELSE NumBuckets - 2
      BY <1>1, <2>4, MinOfTwo DEF EndEqb
    <2>6. w.kind = "move" /\ w.lo = save[b] /\ w.hi = save[b + 1]
      BY DEF Move, Work
    <2>7. p \in PlacesOf(w)
      BY <1>4, <1>6, <1>7, <2>6 DEF PlacesOf
    <2>8. Saves
      BY DEF GoodSaves
    <2>9. Has(FullBuckets(first, last), w)
      <3>1. CASE b = first
        BY <2>2, <2>8, <3>1, HasFullBuckets
      <3>2. CASE first < b
        <4>1. f2 % 2 = 0 /\ f2 <= b - 1
          BY <1>1, <1>7, <2>2, <2>3, <3>2 DEF IsEqualityBucket
        <4>2. b - 1 < ee
          BY <1>1, <1>7, <2>1, <2>2, <2>4, <2>5
        <4>3. PICK k \in Nat : b = f2 + 2 * k + 1
          <5>1. (b - 1 - f2) % 2 = 0 /\ b - 1 - f2 \in Nat
            BY <1>7, <2>3, <4>1
          <5>2. b = f2 + 2 * ((b - 1 - f2) \div 2) + 1 /\ (b - 1 - f2) \div 2 \in Nat
            BY <1>7, <2>3, <5>1
          <5>3. QED
            BY <5>2
        <4>4. f2 + 2 * k < ee
          BY <1>7, <2>3, <2>5, <4>2, <4>3
        <4> HIDE DEF first, last
        <4>5. QED
          BY <2>2, <2>8, <4>3, <4>4, HasFullBuckets
      <3>3. QED
        BY <1>7, <2>1, <2>2, <3>1, <3>2
    <2> HIDE DEF first, last
    <2>10. Has(EqualWork(t), w)
      BY <2>2, <2>9, HasEqualWork DEF first, last
    <2>11. w \in Piece
      BY <2>8, WorkTypes
    <2>12. QED
      BY <2>6, <2>7, <2>10, <2>11
  <1>13. QED
    BY <1>10, <1>11, <1>12

-----------------------------------------------------------------------------
(* Without equality buckets the threads share the buckets as they share    *)
(* the elements.                                                           *)
LEMMA PerThreadType ==
    /\ PerThread \in Nat \ {0} /\ NumBuckets <= T * PerThread
    /\ NumBuckets \in Nat \ {0} /\ T \in Nat /\ T > 1
  <1>1. T \in Nat \ {0} /\ T > 1 /\ NumBuckets \in Nat \ {0}
    BY PartitionAssumption DEF PartitionAssumption
  <1>2. NumBuckets + T - 1 \in Nat
    BY <1>1
  <1>3. T * PerThread <= NumBuckets + T - 1 /\ NumBuckets + T - 1 < T * PerThread + T
        /\ PerThread \in Nat
    BY <1>1, <1>2, DivNat DEF PerThread
  <1> HIDE DEF PerThread
  <1>4. PerThread # 0
    BY <1>1, <1>3
  <1>5. T * PerThread \in Int
    BY <1>1, <1>3
  <1>6. QED
    BY <1>1, <1>3, <1>4, <1>5

(* The shares of buckets without equality buckets, clamped to their        *)
(* number.                                                                 *)
LEMMA PlainShare ==
    ASSUME NEW t \in Thread
    PROVE  /\ PlainFirst(t) \in 0 .. NumBuckets /\ PlainEnd(t) \in 0 .. NumBuckets
           /\ PlainFirst(t) = IF t * PerThread <= NumBuckets THEN t * PerThread ELSE NumBuckets
           /\ PlainEnd(t) = IF (t + 1) * PerThread <= NumBuckets
                              THEN (t + 1) * PerThread ELSE NumBuckets
           /\ t * PerThread \in Nat /\ (t + 1) * PerThread \in Nat
  <1>1. t \in Nat /\ t + 1 \in Nat
    BY PerThreadType DEF Thread
  <1>2. \A s \in Nat : t * s \in Nat /\ (t + 1) * s \in Nat
    BY <1>1
  <1>3. t * PerThread \in Nat /\ (t + 1) * PerThread \in Nat
    BY <1>2, PerThreadType
  <1>4. QED
    BY <1>3, MinOfTwo, PerThreadType DEF PlainFirst, PlainEnd

(* Every bucket is in a share.                                             *)
LEMMA PlainOwner ==
    ASSUME NEW b \in Bucket
    PROVE  \E t \in Thread : b \in PlainFirst(t) .. PlainEnd(t) - 1
  <1> DEFINE t == b \div PerThread
  <1>1. b \in Nat /\ b < NumBuckets
    BY PerThreadType DEF Bucket
  <1>2. t \in Nat /\ PerThread * t <= b /\ b < PerThread * t + PerThread
    BY <1>1, PerThreadType, DivNat
  <1> HIDE DEF t
  <1>3. t * PerThread = PerThread * t /\ (t + 1) * PerThread = PerThread * t + PerThread
        /\ t * PerThread \in Int
    BY <1>2, PerThreadType
  <1>4. t <= T - 1
    <2> SUFFICES ASSUME T <= t  PROVE FALSE
      BY <1>2, PerThreadType
    <2>1. \A s \in Nat : T * s <= t * s /\ T * s \in Int
      BY <1>2, PerThreadType
    <2>2. T * PerThread <= t * PerThread /\ T * PerThread \in Int
      BY <2>1, PerThreadType
    <2>3. QED
      BY <2>2, <1>1, <1>2, <1>3, PerThreadType
  <1>5. t \in Thread
    BY <1>2, <1>4, PerThreadType DEF Thread
  <1>6. PlainFirst(t) <= b /\ b < PlainEnd(t) /\ PlainFirst(t) \in Int /\ PlainEnd(t) \in Int
    BY <1>1, <1>2, <1>3, <1>5, PlainShare, PerThreadType
  <1>7. QED
    BY <1>1, <1>5, <1>6

(* No bucket is in two shares.                                             *)
LEMMA PlainApart ==
    ASSUME NEW t \in Thread, NEW u \in Thread, NEW b \in Int,
           b \in PlainFirst(t) .. PlainEnd(t) - 1, b \in PlainFirst(u) .. PlainEnd(u) - 1
    PROVE  ~(t < u)
  <1> SUFFICES ASSUME t < u  PROVE FALSE
    OBVIOUS
  <1>1. t \in Int /\ u \in Int /\ t + 1 <= u
    BY DEF Thread
  <1>2. \A s \in Nat : (t + 1) * s <= u * s
    BY <1>1
  <1>3. (t + 1) * PerThread <= u * PerThread
    BY <1>2, PerThreadType
  <1>4. QED
    BY <1>3, PlainShare, PerThreadType

(* The plain work is the loop over the share.                              *)
LEMMA PlainIsSortAll ==
    ASSUME NEW t
    PROVE  PlainWork(t) = SortAll(PlainFirst(t), PlainEnd(t))
  BY DEF PlainWork, PlainFirst, PlainEnd, PerThread

-----------------------------------------------------------------------------
(* What a thread is given to finish, either way.                           *)
PiecesOf(t) == IF job.equal THEN EqualWork(t) ELSE PlainWork(t)

(* With and without equality buckets every piece with places is what its   *)
(* thread should do.                                                       *)
LEMMA PiecesRight ==
    ASSUME GoodSaves, PairUnused, NEW t \in Thread
    PROVE  /\ PiecesOf(t) \in Seq(Piece)
           /\ \A w : Has(PiecesOf(t), w) /\ HasPlaces(w) => RightPiece(t, w)
  <1>1. CASE job.equal /\ Mine(t) = {}
    <2>1. PiecesOf(t) = <<>>
      BY <1>1, NoStripe DEF PiecesOf
    <2>2. QED
      BY <2>1 DEF Has
  <1>2. CASE job.equal /\ Mine(t) # {}
    <2>1. PiecesOf(t) = EqualWork(t)
      BY <1>2 DEF PiecesOf
    <2>2. QED
      BY <1>2, <2>1, HasEqualWork, EqualPieces
  <1>3. CASE ~job.equal
    <2>1. PiecesOf(t) = SortAll(PlainFirst(t), PlainEnd(t))
      BY <1>3, PlainIsSortAll DEF PiecesOf
    <2>2. PlainFirst(t) \in Nat /\ PlainEnd(t) \in 0 .. NumBuckets /\ NumBuckets \in Nat
          /\ PlainFirst(t) \in 0 .. NumBuckets
      BY PlainShare, PerThreadType
    <2>3. Saves
      BY DEF GoodSaves
    <2>4. /\ PiecesOf(t) \in Seq(Piece)
          /\ \A w : Has(PiecesOf(t), w) <=> \E b \in PlainFirst(t) .. PlainEnd(t) - 1 : w = SortAndMove(b)
      <3>1. /\ SortAll(PlainFirst(t), PlainEnd(t)) \in Seq(Piece)
            /\ \A w : Has(SortAll(PlainFirst(t), PlainEnd(t)), w)
                        <=> \E b \in PlainFirst(t) .. PlainEnd(t) - 1 : w = SortAndMove(b)
        BY <2>2, <2>3, HasSortAll
      <3>2. QED
        BY <2>1, <3>1
    <2>5. ASSUME NEW w, NEW b \in PlainFirst(t) .. PlainEnd(t) - 1, w = SortAndMove(b)
          PROVE  RightPiece(t, w)
      <3>1. b \in Bucket
        BY <2>2 DEF Bucket
      <3>2. w.lo = save[b] /\ w.hi = save[b + 1]
        BY <2>5 DEF SortAndMove, Work
      <3>3. b \in 0 .. NumBuckets /\ b + 1 \in 0 .. NumBuckets
        BY <2>2, <3>1 DEF Bucket
      <3>4. save[b] \in Int /\ save[b + 1] \in Int
        BY <2>3, <3>3 DEF Saves
      <3>5. save[b] <= w.lo /\ w.hi <= save[b + 1]
        BY <3>2, <3>4
      <3>6. Owns(t, b) /\ ~AllEqual(b)
        BY <1>3, <2>5 DEF Owns, AllEqual
      <3>7. QED
        BY <2>5, <3>1, <3>5, <3>6 DEF RightPiece
    <2>6. QED
      BY <2>4, <2>5
  <1>4. QED
    BY <1>1, <1>2, <1>3

(* A bucket has at most one owner.                                         *)
LEMMA OneOwner ==
    ASSUME NEW t \in Thread, NEW u \in Thread, NEW b \in Bucket, Owns(t, b), Owns(u, b)
    PROVE  t = u
  <1>1. CASE job.equal
    BY <1>1, StripesApart DEF Owns
  <1>2. CASE ~job.equal
    <2>1. t \in Int /\ u \in Int /\ b \in Int
      BY DEF Thread, Bucket
    <2>2. ~(t < u) /\ ~(u < t)
      BY <1>2, <2>1, PlainApart DEF Owns
    <2>3. QED
      BY <2>1, <2>2
  <1>3. QED
    BY <1>1, <1>2

(* Two pieces with a place in common are of the same bucket.               *)
LEMMA SameBucket ==
    ASSUME GoodSaves, NEW b \in Bucket, NEW c \in Bucket, NEW p \in Int,
           save[b] <= p, p < save[b + 1], save[c] <= p, p < save[c + 1]
    PROVE  b = c
  <1>1. NumBuckets \in Nat
    BY PerThreadType
  <1>2. b \in Int /\ c \in Int /\ b \in 0 .. NumBuckets /\ b + 1 \in 0 .. NumBuckets
        /\ c \in 0 .. NumBuckets /\ c + 1 \in 0 .. NumBuckets
    BY <1>1 DEF Bucket
  <1>3. save[b] \in Int /\ save[c] \in Int /\ save[b + 1] \in Int /\ save[c + 1] \in Int
    BY <1>2 DEF GoodSaves, Saves
  <1>4. ~(b < c)
    <2>1. b < c => save[b + 1] <= save[c]
      BY <1>2 DEF GoodSaves
    <2>2. QED
      BY <1>3, <2>1
  <1>5. ~(c < b)
    <2>1. c < b => save[c + 1] <= save[b]
      BY <1>2 DEF GoodSaves
    <2>2. QED
      BY <1>3, <2>1
  <1>6. QED
    BY <1>2, <1>4, <1>5

(* After the prefix sums the boundaries are exact, and no bucket has a     *)
(* partner that is not there.                                              *)
LEMMA AfterSums ==
    ASSUME CountInv, Summed
    PROVE  GoodSaves /\ PairUnused
  <1>1. JobType /\ Saves /\ \A b \in 0 .. NumBuckets : save[b] = Bound(b)
    BY DEF CountInv, Types1, Positions, Saves
  <1>2. NumBuckets \in Nat \ {0} /\ NumBuckets % 2 = 0
    BY PartitionAssumption DEF PartitionAssumption
  <1>3. GoodSaves
    <2>1. 0 \in 0 .. NumBuckets /\ NumBuckets \in 0 .. NumBuckets
      BY <1>2
    <2>2. QED
      BY <1>1, <2>1, Bounds DEF GoodSaves
  <1>4. ASSUME job.equal  PROVE save[NumBuckets - 2] = save[NumBuckets - 1]
    <2> DEFINE b == NumBuckets - 2
    <2>1. b \in Bucket /\ b \in 0 .. NumBuckets /\ b + 1 = NumBuckets - 1 /\ b + 1 \in 0 .. NumBuckets
      BY <1>2 DEF Bucket
    <2>2. Elements(b) = {}
      BY <1>1, <1>4, LastLeafAssumption DEF LastLeafAssumption, Elements, JobType
    <2> HIDE DEF b
    <2>3. Cardinality(Elements(b)) = 0
      BY <2>2, FS_EmptySet
    <2>4. Bound(b + 1) = Bound(b) + Cardinality(Elements(b)) /\ Bound(b) \in 0 .. N
      BY <1>1, <2>1, Bounds
    <2>5. save[b] = save[b + 1]
      BY <1>1, <2>1, <2>3, <2>4
    <2>6. QED
      BY <2>1, <2>5 DEF b
  <1>5. QED
    BY <1>3, <1>4 DEF PairUnused

-----------------------------------------------------------------------------
(* The invariant of the last phase: what a thread has yet to finish are    *)
(* pieces of its own.                                                      *)
WorkInv ==
    /\ todo \in [Thread -> Seq(Piece)]
    /\ \A t \in Thread :
          /\ pc[t] # "finish" => todo[t] = <<>>
          /\ \A w : Has(todo[t], w) /\ HasPlaces(w) => RightPiece(t, w)

(* What is right depends on the job and the boundaries only.               *)
LEMMA SameWork ==
    ASSUME UNCHANGED <<job, save>>
    PROVE  \A t, w : RightPiece(t, w)' <=> RightPiece(t, w)
  BY DEF RightPiece, AllEqual, Owns, SortAndMove, Work

(* What is left after a piece was there before it.                         *)
LEMMA Keeps ==
    ASSUME NEW s \in Seq(Piece), NEW m \in DOMAIN s
    PROVE  /\ SubSeq(s, m + 1, Len(s)) \in Seq(Piece)
           /\ \A w : Has(SubSeq(s, m + 1, Len(s)), w) <=> \E i \in m + 1 .. Len(s) : s[i] = w
  <1> DEFINE r == SubSeq(s, m + 1, Len(s))
  <1>1. Len(s) \in Nat /\ m \in 1 .. Len(s) /\ DOMAIN s = 1 .. Len(s)
    OBVIOUS
  <1>2. r \in Seq(Piece) /\ Len(r) = Len(s) - m
        /\ \A i \in 1 .. Len(s) - m : r[i] = s[m + i]
    BY <1>1
  <1> HIDE DEF r
  <1>3. DOMAIN r = 1 .. Len(s) - m
    BY <1>2
  <1>4. ASSUME NEW w, Has(r, w)  PROVE \E i \in m + 1 .. Len(s) : s[i] = w
    <2>1. PICK i \in 1 .. Len(s) - m : r[i] = w
      BY <1>3, <1>4 DEF Has
    <2>2. m + i \in m + 1 .. Len(s) /\ s[m + i] = w
      BY <1>1, <1>2, <2>1
    <2>3. QED
      BY <2>2
  <1>5. ASSUME NEW w, NEW i \in m + 1 .. Len(s), s[i] = w  PROVE Has(r, w)
    <2>1. i - m \in 1 .. Len(s) - m /\ m + (i - m) = i
      BY <1>1
    <2>2. r[i - m] = w
      BY <1>2, <1>5, <2>1
    <2>3. QED
      BY <1>3, <2>1, <2>2 DEF Has
  <1>6. QED
    BY <1>2, <1>4, <1>5 DEF r

(* The piece a thread finishes next is the first of its list with places.  *)
LEMMA FirstPending ==
    ASSUME WorkInv, NEW t \in Thread, Pending(t) # {}
    PROVE  /\ Min(Pending(t)) \in DOMAIN todo[t]
           /\ todo[t][Min(Pending(t))] \in Piece
           /\ HasPlaces(todo[t][Min(Pending(t))])
           /\ \A i \in DOMAIN todo[t] : HasPlaces(todo[t][i]) => Min(Pending(t)) <= i
  <1>1. todo[t] \in Seq(Piece)
    BY DEF WorkInv
  <1>2. DOMAIN todo[t] = 1 .. Len(todo[t]) /\ Len(todo[t]) \in Nat
    BY <1>1
  <1>3. IsFiniteSet(1 .. Len(todo[t]))
    BY <1>2, FS_Interval
  <1>4. Pending(t) \in SUBSET (1 .. Len(todo[t]))
    BY <1>2 DEF Pending
  <1>5. IsFiniteSet(Pending(t)) /\ Pending(t) \in SUBSET Int
    BY <1>3, <1>4, FS_Subset
  <1>6. Min(Pending(t)) \in Pending(t) /\ \A i \in Pending(t) : Min(Pending(t)) <= i
    BY <1>5, HasMin
  <1>7. todo[t][Min(Pending(t))] \in Piece
    BY <1>1, <1>2, <1>4, <1>6
  <1>8. QED
    BY <1>6, <1>7 DEF Pending

(* Finishing a piece leaves all other pieces that have places.             *)
LEMMA AfterPiece ==
    ASSUME WorkInv, NEW t \in Thread, Pending(t) # {},
           todo' = [todo EXCEPT ![t] = SubSeq(@, Min(Pending(t)) + 1, Len(@))]
    PROVE  /\ todo' \in [Thread -> Seq(Piece)]
           /\ \A u \in Thread \ {t} : todo'[u] = todo[u]
           /\ \A w : Has(todo'[t], w) => Has(todo[t], w)
           /\ \A w : Has(todo[t], w) /\ HasPlaces(w) =>
                        Has(todo'[t], w) \/ w = todo[t][Min(Pending(t))]
  <1> DEFINE m == Min(Pending(t))
             s == todo[t]
  <1>1. m \in DOMAIN s /\ \A i \in DOMAIN s : HasPlaces(s[i]) => m <= i
    BY FirstPending
  <1>2. s \in Seq(Piece) /\ todo \in [Thread -> Seq(Piece)]
    BY DEF WorkInv
  <1>3. todo' = [todo EXCEPT ![t] = SubSeq(s, m + 1, Len(s))]
    OBVIOUS
  <1> HIDE DEF m
  <1>4. todo'[t] = SubSeq(s, m + 1, Len(s)) /\ \A u \in Thread \ {t} : todo'[u] = todo[u]
    BY <1>2, <1>3
  <1>5. SubSeq(s, m + 1, Len(s)) \in Seq(Piece)
        /\ \A w : Has(SubSeq(s, m + 1, Len(s)), w) <=> \E i \in m + 1 .. Len(s) : s[i] = w
    <2> HIDE DEF s
    <2>1. QED
      BY <1>1, <1>2, Keeps
  <1>6. DOMAIN s = 1 .. Len(s) /\ Len(s) \in Nat /\ m \in Int /\ m >= 1
    BY <1>1, <1>2
  <1>7. ASSUME NEW w, Has(todo'[t], w)  PROVE Has(s, w)
    <2>1. PICK i \in m + 1 .. Len(s) : s[i] = w
      BY <1>4, <1>5, <1>7
    <2>2. QED
      BY <1>6, <2>1 DEF Has
  <1>8. ASSUME NEW w, Has(s, w), HasPlaces(w)  PROVE Has(todo'[t], w) \/ w = s[m]
    <2>1. PICK i \in DOMAIN s : s[i] = w
      BY <1>8 DEF Has
    <2>2. m <= i
      BY <1>1, <1>8, <2>1
    <2>3. i = m \/ i \in m + 1 .. Len(s)
      BY <1>6, <2>1, <2>2
    <2>4. QED
      BY <1>4, <1>5, <2>1, <2>3
  <1>9. todo' \in [Thread -> Seq(Piece)]
    BY <1>2, <1>3, <1>5
  <1>10. QED
    BY <1>4, <1>7, <1>8, <1>9 DEF m

LEMMA InitWork == Init => WorkInv
  <1> SUFFICES ASSUME Init  PROVE WorkInv
    OBVIOUS
  <1>1. todo = [t \in Thread |-> <<>>]
    BY DEF Init
  <1>2. \A w : ~Has(<<>>, w)
    BY DEF Has
  <1>3. QED
    BY <1>1, <1>2 DEF WorkInv

(* Dividing the buckets gives right work; finishing a piece leaves the     *)
(* rest of it right.                                                       *)
LEMMA DivideWork ==
    ASSUME CountInv, WorkInv, NEW t \in Thread, DivideBuckets(t)
    PROVE  WorkInv'
  <1>1. pc[t] = "scattered" /\ pc' = [pc EXCEPT ![t] = "finish"]
        /\ todo' = [todo EXCEPT ![t] = PiecesOf(t)] /\ UNCHANGED <<job, save>>
    BY DEF DivideBuckets, Goto, PiecesOf
  <1>2. pc \in [Thread -> PC] /\ todo \in [Thread -> Seq(Piece)]
    BY DEF CountInv, Types1, WorkInv
  <1>3. GoodSaves /\ PairUnused
    <2>1. Summed
      BY <1>1 DEF CountInv, Phases, Summed
    <2>2. QED
      BY <2>1, AfterSums
  <1>4. PiecesOf(t) \in Seq(Piece)
        /\ \A w : Has(PiecesOf(t), w) /\ HasPlaces(w) => RightPiece(t, w)
    BY <1>3, PiecesRight
  <1>5. \A u, w : RightPiece(u, w)' <=> RightPiece(u, w)
    BY <1>1, SameWork
  <1>6. todo' \in [Thread -> Seq(Piece)]
    BY <1>1, <1>2, <1>4
  <1>7. ASSUME NEW u \in Thread
        PROVE  /\ pc'[u] # "finish" => todo'[u] = <<>>
               /\ \A w : Has(todo'[u], w) /\ HasPlaces(w) => RightPiece(u, w)
    <2>1. CASE u = t
      BY <1>1, <1>2, <1>4, <2>1
    <2>2. CASE u # t
      <3>1. pc'[u] = pc[u] /\ todo'[u] = todo[u]
        BY <1>1, <1>2, <2>2
      <3>2. QED
        BY <3>1 DEF WorkInv
    <2>3. QED
      BY <2>1, <2>2
  <1>8. QED
    BY <1>5, <1>6, <1>7 DEF WorkInv, HasPlaces

LEMMA FinishWork ==
    ASSUME WorkInv, NEW t \in Thread, FinishPiece(t)
    PROVE  WorkInv'
  <1>1. pc[t] = "finish" /\ Pending(t) # {} /\ UNCHANGED <<job, pc, save>>
        /\ todo' = [todo EXCEPT ![t] = SubSeq(@, Min(Pending(t)) + 1, Len(@))]
    BY DEF FinishPiece
  <1>2. /\ todo' \in [Thread -> Seq(Piece)]
        /\ \A u \in Thread \ {t} : todo'[u] = todo[u]
        /\ \A w : Has(todo'[t], w) => Has(todo[t], w)
    BY <1>1, AfterPiece
  <1>3. \A u, w : RightPiece(u, w)' <=> RightPiece(u, w)
    BY <1>1, SameWork
  <1>4. ASSUME NEW u \in Thread
        PROVE  /\ pc'[u] # "finish" => todo'[u] = <<>>
               /\ \A w : Has(todo'[u], w) /\ HasPlaces(w) => RightPiece(u, w)
    <2>1. CASE u = t
      BY <1>1, <1>2, <2>1 DEF WorkInv
    <2>2. CASE u # t
      BY <1>1, <1>2, <2>2 DEF WorkInv
    <2>3. QED
      BY <2>1, <2>2
  <1>5. QED
    BY <1>2, <1>3, <1>4 DEF WorkInv, HasPlaces

LEMMA NextWork == CountInv /\ WorkInv /\ [Next]_vars => WorkInv'
  <1> SUFFICES ASSUME CountInv, WorkInv, [Next]_vars  PROVE WorkInv'
    OBVIOUS
  <1>1. ASSUME UNCHANGED todo, \A u \in Thread : todo[u] = <<>>  PROVE WorkInv'
    <2>1. \A w : ~Has(<<>>, w)
      BY DEF Has
    <2>2. QED
      BY <1>1, <2>1 DEF WorkInv
  <1>2. CASE PrefixSums
    <2>1. UNCHANGED todo /\ \A u \in Thread : pc[u] = "classified"
      BY <1>2 DEF PrefixSums
    <2>2. QED
      BY <1>1, <2>1 DEF WorkInv
  <1>3. ASSUME NEW t \in Thread, Classify(t) \/ Scatter(t)  PROVE WorkInv'
    <2>1. UNCHANGED todo /\ (pc[t] = "classify" \/ pc[t] = "scatter")
      BY <1>3 DEF Classify, Scatter
    <2>2. \A u \in Thread : pc[u] # "finish"
      BY <2>1 DEF CountInv, Phases, AllScattered, Summed
    <2>3. QED
      BY <1>1, <2>1, <2>2 DEF WorkInv
  <1>4. ASSUME NEW t \in Thread, DivideBuckets(t) \/ FinishPiece(t)  PROVE WorkInv'
    BY <1>4, DivideWork, FinishWork
  <1>5. CASE UNCHANGED vars
    <2>1. UNCHANGED <<job, save, pc, todo>>
      BY <1>5 DEF vars
    <2>2. \A u, w : RightPiece(u, w)' <=> RightPiece(u, w)
      BY <2>1, SameWork
    <2>3. QED
      BY <2>1, <2>2 DEF WorkInv, HasPlaces
  <1>6. QED
    BY <1>2, <1>3, <1>4, <1>5 DEF Next, Terminated, Step

(* Counting and work are invariant together.                               *)
LEMMA WorkInvariance == ASSUME NothingStale PROVE Spec => [](CountInv /\ WorkInv)
  <1>1. Init => CountInv /\ WorkInv
    BY InitCount, InitWork
  <1>2. (CountInv /\ WorkInv) /\ [Next]_vars => (CountInv /\ WorkInv)'
    BY NextCount, NextWork
  <1>3. QED
    BY <1>1, <1>2, PTL DEF Spec

(* Pieces of two threads that have a place in common are of one equality   *)
(* bucket.                                                                 *)
LEMMA Disjoint ==
    ASSUME GoodSaves, NEW t \in Thread, NEW u \in Thread, t # u,
           NEW v \in Piece, NEW w \in Piece, RightPiece(t, v), RightPiece(u, w),
           NEW p \in PlacesOf(v), p \in PlacesOf(w)
    PROVE  v.kind # "sort"
  <1> SUFFICES ASSUME v.kind = "sort"  PROVE FALSE
    OBVIOUS
  <1>1. PICK b \in Bucket : /\ save[b] <= v.lo /\ v.hi <= save[b + 1]
                            /\ ~AllEqual(b) /\ Owns(t, b)
    BY DEF RightPiece
  <1>2. PICK c \in Bucket : /\ save[c] <= w.lo /\ w.hi <= save[c + 1]
                            /\ AllEqual(c) \/ Owns(u, c)
    BY DEF RightPiece
  <1>3. b \in 0 .. NumBuckets /\ b + 1 \in 0 .. NumBuckets
        /\ c \in 0 .. NumBuckets /\ c + 1 \in 0 .. NumBuckets
    BY PerThreadType DEF Bucket
  <1>4. save[b] \in Int /\ save[c] \in Int /\ save[b + 1] \in Int /\ save[c + 1] \in Int
    BY <1>3 DEF GoodSaves, Saves
  <1>5. v.lo \in Int /\ v.hi \in Int /\ w.lo \in Int /\ w.hi \in Int
    BY DEF Piece
  <1>6. p \in Int /\ v.lo <= p /\ p < v.hi /\ w.lo <= p /\ p < w.hi
    BY <1>5 DEF PlacesOf
  <1>7. save[b] <= p /\ p < save[b + 1] /\ save[c] <= p /\ p < save[c + 1]
    BY <1>1, <1>2, <1>4, <1>5, <1>6
  <1>8. b = c
    BY <1>6, <1>7, SameBucket
  <1>9. QED
    BY <1>1, <1>2, <1>8, OneOwner

(* Whoever sorts a bucket (sort_and_move) has it for himself: no piece any *)
(* other thread has yet to sort or to move has a place in common with it,  *)
(* although the stripes cut through the buckets.                           *)
THEOREM NobodyInterferes == ASSUME NothingStale PROVE Spec => []SortedAlone
  <1>1. CountInv /\ WorkInv => SortedAlone
    <2> SUFFICES ASSUME CountInv, WorkInv, NEW t \in Thread, NEW u \in Thread, t # u,
                        NEW i \in DOMAIN todo[t], NEW j \in DOMAIN todo[u],
                        todo[t][i].kind = "sort", Overlap(todo[t][i], todo[u][j])
                 PROVE  FALSE
      BY DEF SortedAlone
    <2> DEFINE v == todo[t][i]
               w == todo[u][j]
    <2>1. v \in Piece /\ w \in Piece
      <3>1. todo[t] \in Seq(Piece) /\ todo[u] \in Seq(Piece)
        BY DEF WorkInv
      <3>2. QED
        BY <3>1
    <2>2. PICK p \in PlacesOf(v) : p \in PlacesOf(w)
      BY DEF Overlap, PlacesOf
    <2>3. HasPlaces(v) /\ HasPlaces(w)
      <3>1. v.lo \in Int /\ v.hi \in Int /\ w.lo \in Int /\ w.hi \in Int
        BY <2>1 DEF Piece
      <3>2. QED
        BY <2>2, <3>1 DEF PlacesOf, HasPlaces
    <2>4. Has(todo[t], v) /\ Has(todo[u], w)
      BY DEF Has
    <2>5. RightPiece(t, v) /\ RightPiece(u, w)
      BY <2>3, <2>4 DEF WorkInv
    <2>6. pc[t] = "finish"
      <3>1. todo[t] # <<>>
        OBVIOUS
      <3>2. QED
        BY <3>1 DEF WorkInv
    <2>7. GoodSaves
      <3>1. Summed
        BY <2>6 DEF CountInv, Phases, Summed
      <3>2. QED
        BY <3>1, AfterSums
    <2> HIDE DEF v, w
    <2>8. v.kind # "sort"
      BY <2>1, <2>2, <2>5, <2>7, Disjoint
    <2>9. QED
      BY <2>8 DEF v
  <1>2. QED
    BY <1>1, WorkInvariance, PTL

-----------------------------------------------------------------------------
(* The invariant of the scatter phase.                                     *)
Unread == {"classify", "classified", "scatter"}
NobodyFinishes == \A t \in Thread : pc[t] # "finish"

(* The scatter is a stable counting sort: what a thread has scattered is   *)
(* where it ranks, the elements of a bucket in their old order, whatever   *)
(* the other threads wrote in the meantime.                                *)
StableScatter ==
    NobodyFinishes =>
        \A t \in Thread : pc[t] = "scattered" => \A p \in Mine(t) : tmp[Rank(p)] = p

ScatterInv ==
    /\ src \in [Pos -> Value] /\ tmp \in [Pos -> Value]
    /\ \A t \in Thread : pc[t] \in Unread => \A p \in Mine(t) : src[p] = p
    /\ StableScatter

LEMMA InitScatter == Init => ScatterInv
  <1> SUFFICES ASSUME Init  PROVE ScatterInv
    OBVIOUS
  <1>1. src = [p \in Pos |-> p] /\ tmp = [p \in Pos |-> Gone]
        /\ pc = [t \in Thread |-> "classify"]
    BY DEF Init
  <1>2. src \in [Pos -> Value] /\ tmp \in [Pos -> Value]
    BY <1>1 DEF Value
  <1>3. \A t \in Thread : Mine(t) \subseteq Pos
    BY AllStripes
  <1>4. QED
    BY <1>1, <1>2, <1>3 DEF ScatterInv, StableScatter

(* Ranks depend on the job only.                                           *)
LEMMA SameRank ==
    ASSUME UNCHANGED job
    PROVE  \A p : Rank(p)' = Rank(p)
  BY DEF Rank, Earlier

(* What a move leaves behind in the places it took.                        *)
LEMMA VacatedType ==
    ASSUME NEW a \in [Pos -> Value], NEW ps
    PROVE  /\ Vacated(a, ps) \in [Pos -> Value]
           /\ \A p \in Pos : p \notin ps => Vacated(a, ps)[p] = a[p]
           /\ Trivial => Vacated(a, ps) = a
  <1>1. \A p \in Pos : a[p] \in Value /\ Gone \in Value
    BY DEF Value
  <1>2. Vacated(a, ps) \in [Pos -> Value]
    BY <1>1 DEF Vacated
  <1>3. \A p \in Pos : p \notin ps => Vacated(a, ps)[p] = a[p]
    BY DEF Vacated
  <1>4. Trivial => \A p \in Pos : Vacated(a, ps)[p] = a[p]
    BY DEF Vacated
  <1>5. QED
    BY <1>2, <1>3, <1>4

(* Scattering a stripe puts its elements at their ranks, where nobody else *)
(* writes.                                                                 *)
LEMMA ScatterScatter ==
    ASSUME CountInv, ScatterInv, NEW t \in Thread, Scatter(t)
    PROVE  ScatterInv'
  <1> DEFINE hit(q) == {p \in Mine(t) : Target(t, p) = q}
  <1>1. /\ pc[t] = "scatter" /\ pc' = [pc EXCEPT ![t] = "scattered"] /\ UNCHANGED job
        /\ tmp' = [q \in Pos |-> IF \E p \in Mine(t) : Target(t, p) = q
                                   THEN src[CHOOSE p \in Mine(t) : Target(t, p) = q]
                                   ELSE tmp[q]]
        /\ src' = Vacated(src, Mine(t))
    BY DEF Scatter, Goto
  <1>2. /\ src \in [Pos -> Value] /\ tmp \in [Pos -> Value] /\ JobType
        /\ pc \in [Thread -> PC] /\ Mine(t) \subseteq Pos
    BY AllStripes DEF ScatterInv, CountInv, Types1
  <1>3. \A p \in Mine(t) : Target(t, p) = Rank(p) /\ src[p] = p
    <2>1. Summed
      BY <1>1 DEF CountInv, Phases, Summed
    <2>2. \A b \in Bucket : start[t][b] = Cardinality(Earlier(b, MyBegin(t)))
      BY <2>1 DEF CountInv, Positions
    <2>3. QED
      BY <1>1, <1>2, <2>2, TargetIsRank DEF ScatterInv, Unread
  <1>4. ASSUME NEW q \in Pos
        PROVE  /\ tmp'[q] \in Value
               /\ \A p \in Mine(t) : Rank(p) = q => tmp'[q] = p
               /\ (\A p \in Mine(t) : Rank(p) # q) => tmp'[q] = tmp[q]
    <2>1. CASE \E p \in Mine(t) : Target(t, p) = q
      <3> DEFINE c == CHOOSE p \in Mine(t) : Target(t, p) = q
      <3>1. c \in Mine(t) /\ Target(t, c) = q
        BY <2>1
      <3>2. tmp'[q] = src[c]
        BY <1>1, <2>1
      <3> HIDE DEF c
      <3>3. c \in Pos /\ Rank(c) = q /\ src[c] = c
        BY <1>2, <1>3, <3>1
      <3>4. \A p \in Mine(t) : Rank(p) = q => p = c
        BY <1>2, <3>3, RankInjective
      <3>5. QED
        BY <3>1, <3>2, <3>3, <3>4 DEF Value
    <2>2. CASE ~\E p \in Mine(t) : Target(t, p) = q
      BY <1>1, <1>2, <1>3, <2>2
    <2>3. QED
      BY <2>1, <2>2
  <1>5. tmp' \in [Pos -> Value] /\ src' \in [Pos -> Value]
    BY <1>1, <1>2, <1>4, VacatedType
  <1>6. ASSUME NEW u \in Thread, pc'[u] \in Unread, NEW p \in Mine(u)
        PROVE  src'[p] = p
    <2>1. u # t /\ pc'[u] = pc[u]
      BY <1>1, <1>2, <1>6 DEF Unread
    <2>2. p \in Pos /\ p \notin Mine(t)
      BY <2>1, AllStripes, StripesApart
    <2>3. src'[p] = src[p]
      BY <1>1, <1>2, <2>2, VacatedType
    <2>4. QED
      BY <1>6, <2>1, <2>3 DEF ScatterInv
  <1>7. \A u \in Thread : pc[u] # "finish"
    BY <1>1 DEF CountInv, Phases, AllScattered
  <1>8. ASSUME NEW u \in Thread, pc'[u] = "scattered", NEW p \in Mine(u)
        PROVE  tmp'[Rank(p)] = p
    <2>1. p \in Pos /\ Rank(p) \in Pos
      BY <1>2, AllStripes, RankInBucket
    <2>2. CASE u = t
      BY <1>4, <2>1, <2>2
    <2>3. CASE u # t
      <3>1. pc[u] = "scattered"
        BY <1>1, <1>2, <1>8, <2>3
      <3>2. tmp[Rank(p)] = p
        BY <1>7, <3>1 DEF ScatterInv, StableScatter, NobodyFinishes
      <3>3. \A r \in Mine(t) : Rank(r) # Rank(p)
        BY <1>2, <2>1, <2>3, RankInjective, StripesApart
      <3>4. QED
        BY <1>4, <2>1, <3>2, <3>3
    <2>4. QED
      BY <2>2, <2>3
  <1>9. \A p : Rank(p)' = Rank(p)
    BY <1>1, SameRank
  <1>10. StableScatter'
    BY <1>8, <1>9 DEF StableScatter, Mine, MyBegin, MyEnd
  <1>11. QED
    BY <1>5, <1>6, <1>10 DEF ScatterInv, Mine, MyBegin, MyEnd

(* The array in which a piece is finished, before its elements move on.    *)
PieceDone(w) == IF w.kind = "sort" /\ SortedNow(w) THEN SortedOn(tmp, w) ELSE tmp

(* A piece with places writes to those places only.                        *)
LEMMA PieceFacts ==
    ASSUME tmp \in [Pos -> Value], NEW w \in Piece, HasPlaces(w)
    PROVE  /\ PlacesOf(w) \in SUBSET Pos
           /\ PieceDone(w) \in [Pos -> Value]
           /\ \A p \in Pos \ PlacesOf(w) : PieceDone(w)[p] = tmp[p]
  <1>1. w.lo \in 0 .. N /\ w.hi \in 0 .. N /\ w.lo < w.hi
    BY DEF Piece, HasPlaces
  <1>2. w.lo <= w.hi
    BY <1>1
  <1>3. PlacesOf(w) \in SUBSET Pos
    BY <1>1, <1>2, PiecePlaces DEF PlacesOf
  <1>4. QED
    BY <1>1, <1>2, <1>3, SortedOnType DEF PieceDone

(* Finishing a piece starts after all stripes are scattered.               *)
LEMMA FinishScatter ==
    ASSUME CountInv, WorkInv, ScatterInv, NEW t \in Thread, FinishPiece(t)
    PROVE  ScatterInv'
  <1> DEFINE w == todo[t][Min(Pending(t))]
  <1>1. pc[t] = "finish" /\ Pending(t) # {} /\ UNCHANGED <<job, pc>>
    BY DEF FinishPiece
  <1>2. IF Leaves(w)
          THEN /\ src' = [p \in Pos |-> IF p \in PlacesOf(w) THEN PieceDone(w)[p] ELSE src[p]]
               /\ tmp' = Vacated(PieceDone(w), PlacesOf(w))
          ELSE tmp' = PieceDone(w) /\ UNCHANGED src
    BY DEF FinishPiece, PlacesOf, PieceDone
  <1>3. w \in Piece /\ HasPlaces(w)
    BY <1>1, FirstPending
  <1> HIDE DEF w
  <1>4. PieceDone(w) \in [Pos -> Value] /\ src \in [Pos -> Value]
    BY <1>3, PieceFacts DEF ScatterInv
  <1>5. src' \in [Pos -> Value] /\ tmp' \in [Pos -> Value]
    <2>1. CASE Leaves(w)
      <3>1. src' \in [Pos -> Value]
        BY <1>2, <1>4, <2>1
      <3>2. QED
        BY <1>2, <1>4, <2>1, <3>1, VacatedType
    <2>2. CASE ~Leaves(w)
      BY <1>2, <1>4, <2>2
    <2>3. QED
      BY <2>1, <2>2
  <1>6. \A u \in Thread : pc'[u] \notin Unread
    BY <1>1 DEF CountInv, Phases, Summed, AllScattered, Unread
  <1>7. ~NobodyFinishes'
    BY <1>1 DEF NobodyFinishes
  <1>8. QED
    BY <1>5, <1>6, <1>7 DEF ScatterInv, StableScatter

LEMMA NextScatter == CountInv /\ WorkInv /\ ScatterInv /\ [Next]_vars => ScatterInv'
  <1> SUFFICES ASSUME CountInv, WorkInv, ScatterInv, [Next]_vars  PROVE ScatterInv'
    OBVIOUS
  <1>1. pc \in [Thread -> PC]
    BY DEF CountInv, Types1
  <1>2. ASSUME UNCHANGED <<job, src, tmp>>,
               \A u \in Thread : pc'[u] \in Unread => pc[u] \in Unread,
               \A u \in Thread : pc'[u] = "scattered" => pc[u] = "scattered",
               NobodyFinishes' => NobodyFinishes
        PROVE  ScatterInv'
    <2>1. \A p : Rank(p)' = Rank(p)
      BY <1>2, SameRank
    <2>2. QED
      BY <1>2, <2>1 DEF ScatterInv, StableScatter, Mine, MyBegin, MyEnd
  <1>3. CASE PrefixSums
    BY <1>2, <1>3 DEF PrefixSums, Unread, NobodyFinishes
  <1>4. ASSUME NEW t \in Thread, Classify(t)  PROVE ScatterInv'
    <2>1. pc[t] = "classify" /\ pc' = [pc EXCEPT ![t] = "classified"] /\ UNCHANGED <<job, src, tmp>>
      BY <1>4 DEF Classify, Goto
    <2>2. \A u \in Thread : pc'[u] = IF u = t THEN "classified" ELSE pc[u]
      BY <1>1, <2>1
    <2>3. QED
      BY <1>2, <2>1, <2>2 DEF Unread, NobodyFinishes
  <1>5. ASSUME NEW t \in Thread, DivideBuckets(t)  PROVE ScatterInv'
    <2>1. pc[t] = "scattered" /\ pc' = [pc EXCEPT ![t] = "finish"] /\ UNCHANGED <<job, src, tmp>>
      BY <1>5 DEF DivideBuckets, Goto
    <2>2. \A u \in Thread : pc'[u] = IF u = t THEN "finish" ELSE pc[u]
      BY <1>1, <2>1
    <2>3. QED
      BY <1>2, <2>1, <2>2 DEF Unread, NobodyFinishes
  <1>6. ASSUME NEW t \in Thread, Scatter(t) \/ FinishPiece(t)  PROVE ScatterInv'
    BY <1>6, ScatterScatter, FinishScatter
  <1>7. CASE UNCHANGED vars
    BY <1>2, <1>7 DEF vars, NobodyFinishes
  <1>8. QED
    BY <1>3, <1>4, <1>5, <1>6, <1>7 DEF Next, Terminated, Step

StepInv == CountInv /\ WorkInv /\ ScatterInv

(* Counting, work and scatter are invariant together.                      *)
LEMMA StepInvariance == ASSUME NothingStale PROVE Spec => []StepInv
  <1>1. Init => StepInv
    BY InitCount, InitWork, InitScatter DEF StepInv
  <1>2. StepInv /\ [Next]_vars => StepInv'
    BY NextCount, NextWork, NextScatter DEF StepInv
  <1>3. QED
    BY <1>1, <1>2, PTL DEF Spec

(* Until a thread begins to finish buckets, every element whose thread is  *)
(* through with distributeElements is where it ranks among all elements,   *)
(* first by bucket, then by its old place.  Ranks differ, so no place is   *)
(* written twice, whatever the order of the threads.                       *)
THEOREM ScatterIsStable == ASSUME NothingStale PROVE Spec => []StableScatter
  <1>1. StepInv => StableScatter
    BY DEF StepInv, ScatterInv
  <1>2. QED
    BY <1>1, StepInvariance, PTL

(* The variables of the step keep their types: no write position, boundary *)
(* or piece of work leaves the array.                                      *)
THEOREM TypesHold == ASSUME NothingStale PROVE Spec => []TypeOK
  <1>1. StepInv => TypeOK
    <2> SUFFICES ASSUME StepInv  PROVE TypeOK
      OBVIOUS
    <2>1. job.bucketOf \in [Pos -> Bucket]
      BY Types DEF StepInv, CountInv, Types1
    <2>2. ASSUME NEW t \in Thread, NEW i \in DOMAIN todo[t], HasPlaces(todo[t][i])
          PROVE  todo[t][i].lo \in Pos /\ todo[t][i].hi - 1 \in Pos
      <3>1. todo[t] \in Seq(Piece)
        BY DEF StepInv, WorkInv
      <3>2. todo[t][i] \in Piece
        BY <3>1
      <3>3. N \in Nat
        BY StripeType
      <3>4. QED
        BY <2>2, <3>2, <3>3 DEF Piece, HasPlaces, Pos
    <2>3. QED
      BY <2>1, <2>2 DEF TypeOK, StepInv, CountInv, Types1, ScatterInv, Value
  <1>2. QED
    BY <1>1, StepInvariance, PTL

-----------------------------------------------------------------------------
(* The invariant of the last phase, when moving an element leaves its      *)
(* value behind: tmp keeps every bucket's elements; a bucket to be sorted  *)
(* is pending or finished, and so is every place of an equality bucket.    *)
Holds(b) == {tmp[p] : p \in Places(b)} = Elements(b)
Moved(p) == job.inInput => src[p] = tmp[p]
Finished(b) == InOrder(tmp, b) /\ \A p \in Places(b) : Moved(p)

Sorts(t, b) ==
    /\ Owns(t, b) /\ ~AllEqual(b)
    /\ save[b] < save[b + 1] /\ ~Continues(b)

MovesLater(t, p) ==
    \E w \in Piece : /\ Has(todo[t], w) /\ w.kind \in {"move", "shared"}
                     /\ p \in PlacesOf(w)

PlaceInv ==
    /\ (\E t \in Thread : pc[t] = "finish") => \A b \in Bucket : Holds(b)
    /\ \A t \in Thread : pc[t] = "finish" =>
          /\ \A b \in Bucket : Sorts(t, b) => Has(todo[t], SortAndMove(b)) \/ Finished(b)
          /\ \A b \in Bucket : AllEqual(b) =>
                \A p \in Mine(t) \cap Places(b) : Moved(p) \/ MovesLater(t, p)

(* The places of a bucket: as many as it has elements.                     *)
LEMMA BucketPlaces ==
    ASSUME GoodSaves, NEW b \in Bucket
    PROVE  /\ Places(b) \in SUBSET Pos
           /\ save[b] \in 0 .. N /\ save[b + 1] \in 0 .. N /\ save[b] <= save[b + 1]
           /\ \A p \in Int : p \in Places(b) <=> save[b] <= p /\ p < save[b + 1]
           /\ Cardinality(Places(b)) = save[b + 1] - save[b]
  <1>1. b \in 0 .. NumBuckets /\ b + 1 \in 0 .. NumBuckets /\ b <= b + 1
    BY PerThreadType DEF Bucket
  <1>2. save[b] \in 0 .. N /\ save[b + 1] \in 0 .. N /\ save[b] <= save[b + 1]
    BY <1>1 DEF GoodSaves, Saves
  <1>3. QED
    BY <1>2, PiecePlaces DEF Places

(* After the scatter each bucket's elements are where the bucket is.       *)
LEMMA ScatterHolds ==
    ASSUME CountInv, ScatterInv, Summed, AllScattered, NobodyFinishes, NEW b \in Bucket
    PROVE  Holds(b)
  <1>1. JobType /\ GoodSaves /\ \A c \in 0 .. NumBuckets : save[c] = Bound(c)
    BY AfterSums DEF CountInv, Types1, Positions
  <1>2. ASSUME NEW p \in Pos
        PROVE  /\ tmp[Rank(p)] = p /\ Rank(p) \in Pos
               /\ p \in Elements(b) => Rank(p) \in Places(b)
               /\ Rank(p) \in Places(b) => p \in Elements(b)
    <2>1. PICK t \in Thread : p \in Mine(t)
      BY OwnStripe
    <2>2. pc[t] = "scattered"
      BY DEF CountInv, Types1, PC, Summed, AllScattered, NobodyFinishes
    <2>3. tmp[Rank(p)] = p
      BY <2>1, <2>2 DEF ScatterInv, StableScatter
    <2> DEFINE c == job.bucketOf[p]
    <2>4. c \in Bucket /\ c \in 0 .. NumBuckets /\ c + 1 \in 0 .. NumBuckets
          /\ b \in 0 .. NumBuckets /\ b + 1 \in 0 .. NumBuckets
      BY <1>1, Types DEF Bucket
    <2>5. Rank(p) \in Pos /\ save[c] <= Rank(p) /\ Rank(p) < save[c + 1]
      BY <1>1, <2>4, RankInBucket
    <2>6. Rank(p) \in Int
      BY <2>5 DEF Pos
    <2>7. Rank(p) \in Places(c)
      BY <1>1, <2>4, <2>5, <2>6, BucketPlaces
    <2>8. Rank(p) \in Places(b) => b = c
      BY <1>1, <2>4, <2>5, <2>6, BucketPlaces, SameBucket
    <2>9. QED
      BY <2>3, <2>5, <2>7, <2>8 DEF Elements
  <1>3. ASSUME NEW q \in Places(b)  PROVE tmp[q] \in Elements(b)
    <2>1. q \in Pos
      BY <1>1, BucketPlaces
    <2>2. PICK p \in Pos : Rank(p) = q
      BY <1>1, <2>1, RankSurjective
    <2>3. QED
      BY <1>2, <2>2
  <1>4. ASSUME NEW p \in Elements(b)  PROVE \E q \in Places(b) : tmp[q] = p
    BY <1>2 DEF Elements
  <1>5. QED
    BY <1>3, <1>4 DEF Holds

(* The places of a bucket hold different elements.                         *)
LEMMA HoldsInjective ==
    ASSUME CountInv, Summed, NEW b \in Bucket, Holds(b),
           NEW p \in Places(b), NEW q \in Places(b), tmp[p] = tmp[q]
    PROVE  p = q
  <1> DEFINE f == [r \in Places(b) |-> tmp[r]]
  <1>1. JobType /\ GoodSaves /\ \A c \in 0 .. NumBuckets : save[c] = Bound(c)
    BY AfterSums DEF CountInv, Types1, Positions
  <1>2. Places(b) \in SUBSET Pos /\ Cardinality(Places(b)) = save[b + 1] - save[b]
    BY <1>1, BucketPlaces
  <1>3. IsFiniteSet(Places(b))
    BY <1>2, Counts
  <1>4. Cardinality(Places(b)) = Cardinality(Elements(b))
    <2>1. b \in 0 .. NumBuckets /\ b + 1 \in 0 .. NumBuckets
      BY PerThreadType DEF Bucket
    <2>2. Bound(b + 1) = Bound(b) + Cardinality(Elements(b))
          /\ Bound(b) \in 0 .. N /\ Cardinality(Elements(b)) \in 0 .. N
      BY <1>1, <2>1, Bounds
    <2>3. QED
      BY <1>1, <1>2, <2>1, <2>2
  <1>5. f \in Surjection(Places(b), Elements(b))
    BY DEF Holds, Surjection
  <1>6. f \in Injection(Places(b), Elements(b))
    <2> HIDE DEF f
    <2> QED BY <1>3, <1>4, <1>5, FS_SurjSameCardinalityImpliesInj
  <1>7. f[p] = f[q]
    OBVIOUS
  <1> HIDE DEF f
  <1>8. QED
    BY <1>6, <1>7 DEF Injection, IsInjective

(* Every bucket has somebody to sort it, and he is given it.               *)
LEMMA GivenToSort ==
    ASSUME GoodSaves, PairUnused, NEW t \in Thread, NEW b \in Bucket, Sorts(t, b)
    PROVE  Has(PiecesOf(t), SortAndMove(b))
  <1>1. CASE job.equal
    <2>1. save[b] \in Mine(t) /\ ~IsEqualityBucket(b) /\ save[b] < save[b + 1]
      BY <1>1 DEF Sorts, Owns, AllEqual
    <2>2. QED
      BY <1>1, <2>1, EqualSorts DEF PiecesOf
  <1>2. CASE ~job.equal
    <2>1. b \in PlainFirst(t) .. PlainEnd(t) - 1
      BY <1>2 DEF Sorts, Owns
    <2>2. PiecesOf(t) = SortAll(PlainFirst(t), PlainEnd(t))
      BY <1>2, PlainIsSortAll DEF PiecesOf
    <2>3. PlainFirst(t) \in Nat /\ PlainEnd(t) \in 0 .. NumBuckets
      BY PlainShare, PerThreadType
    <2>4. \A w : Has(SortAll(PlainFirst(t), PlainEnd(t)), w)
                   <=> \E c \in PlainFirst(t) .. PlainEnd(t) - 1 : w = SortAndMove(c)
      BY <2>3, HasSortAll DEF GoodSaves
    <2>5. QED
      BY <2>1, <2>2, <2>4
  <1>3. QED
    BY <1>1, <1>2

(* Every bucket with elements has a thread that finishes it.               *)
LEMMA HasOwner ==
    ASSUME GoodSaves, NEW b \in Bucket, save[b] < save[b + 1]
    PROVE  \E t \in Thread : Owns(t, b)
  <1>1. CASE job.equal
    <2>1. save[b] \in Pos
      BY BucketPlaces, StripeType DEF Pos
    <2>2. QED
      BY <1>1, <2>1, OwnStripe DEF Owns
  <1>2. CASE ~job.equal
    BY <1>2, PlainOwner DEF Owns
  <1>3. QED
    BY <1>1, <1>2

(* Buckets, their places and owners depend on the job and the boundaries   *)
(* only.                                                                   *)
LEMMA SameFrame ==
    ASSUME UNCHANGED <<job, save>>
    PROVE  /\ \A b : /\ Places(b)' = Places(b) /\ Elements(b)' = Elements(b)
                     /\ AllEqual(b)' <=> AllEqual(b)
                     /\ SortAndMove(b)' = SortAndMove(b)
           /\ \A t, b : Sorts(t, b)' <=> Sorts(t, b)
  <1>1. \A b : /\ Places(b)' = Places(b) /\ Elements(b)' = Elements(b)
               /\ AllEqual(b)' <=> AllEqual(b)
               /\ SortAndMove(b)' = SortAndMove(b)
    BY DEF Places, Elements, AllEqual, SortAndMove, Work
  <1>2. \A t, b : Sorts(t, b)' <=> Sorts(t, b)
    BY DEF Sorts, Owns, AllEqual, Continues
  <1>3. QED
    BY <1>1, <1>2

LEMMA InitPlace == Init => PlaceInv
  BY DEF Init, PlaceInv

(* When the buckets are divided every bucket is whole in begin_tmp.        *)
LEMMA DividePlace ==
    ASSUME StepInv, PlaceInv, NEW t \in Thread, DivideBuckets(t)
    PROVE  PlaceInv'
  <1>1. /\ pc[t] = "scattered" /\ pc' = [pc EXCEPT ![t] = "finish"] /\ AllScattered
        /\ todo' = [todo EXCEPT ![t] = PiecesOf(t)]
        /\ UNCHANGED <<job, save, src, tmp>>
    BY DEF DivideBuckets, Goto, PiecesOf
  <1>2. CountInv /\ ScatterInv /\ pc \in [Thread -> PC] /\ todo \in [Thread -> Seq(Piece)]
    BY DEF StepInv, CountInv, Types1, WorkInv
  <1>3. Summed
    BY <1>1, <1>2 DEF CountInv, Phases, Summed
  <1>4. GoodSaves /\ PairUnused
    BY <1>2, <1>3, AfterSums
  <1>5. \A b \in Bucket : Holds(b)
    <2>1. CASE NobodyFinishes
      BY <1>1, <1>2, <1>3, <2>1, ScatterHolds
    <2>2. CASE ~NobodyFinishes
      BY <2>2 DEF NobodyFinishes, PlaceInv
    <2>3. QED
      BY <2>1, <2>2
  <1>6. /\ \A b : Places(b)' = Places(b) /\ Elements(b)' = Elements(b)
                  /\ (AllEqual(b)' <=> AllEqual(b)) /\ SortAndMove(b)' = SortAndMove(b)
        /\ \A u, b : Sorts(u, b)' <=> Sorts(u, b)
    BY <1>1, SameFrame
  <1>7. \A b \in Bucket : Holds(b)'
    BY <1>1, <1>5, <1>6 DEF Holds
  <1>8. /\ \A p : Moved(p)' <=> Moved(p)
        /\ \A b : Finished(b)' <=> Finished(b)
    BY <1>1, <1>6 DEF Moved, Finished, InOrder
  <1>9. pc'[t] = "finish" /\ todo'[t] = PiecesOf(t)
        /\ \A u \in Thread : u # t => pc'[u] = pc[u] /\ todo'[u] = todo[u]
    BY <1>1, <1>2
  <1>10. ASSUME NEW u \in Thread, pc'[u] = "finish", NEW b \in Bucket, Sorts(u, b)
         PROVE  Has(todo'[u], SortAndMove(b)) \/ Finished(b)
    <2>1. CASE u = t
      BY <1>4, <1>9, <1>10, <2>1, GivenToSort
    <2>2. CASE u # t
      BY <1>9, <1>10, <2>2 DEF PlaceInv
    <2>3. QED
      BY <2>1, <2>2
  <1>11. ASSUME NEW u \in Thread, pc'[u] = "finish", NEW b \in Bucket, AllEqual(b),
                NEW p \in Mine(u) \cap Places(b)
         PROVE  \/ Moved(p)
                \/ \E w \in Piece : /\ Has(todo'[u], w) /\ w.kind \in {"move", "shared"}
                                    /\ p \in PlacesOf(w)
    <2>1. CASE u = t
      <3>1. p \in Int
        BY AllStripes DEF Pos
      <3>2. save[b] <= p /\ p < save[b + 1]
        BY <1>4, <3>1, BucketPlaces
      <3>3. job.equal /\ IsEqualityBucket(b)
        BY <1>11 DEF AllEqual
      <3>4. \E w \in Piece : /\ Has(EqualWork(u), w) /\ w.kind \in {"move", "shared"}
                             /\ p \in PlacesOf(w)
        BY <1>4, <3>2, <3>3, EqualMoves
      <3>5. QED
        BY <1>9, <2>1, <3>3, <3>4 DEF PiecesOf
    <2>2. CASE u # t
      BY <1>9, <1>11, <2>2 DEF PlaceInv, MovesLater
    <2>3. QED
      BY <2>1, <2>2
  <1>12. \A u : Mine(u)' = Mine(u)
    BY DEF Mine, MyBegin, MyEnd
  <1>13. QED
    BY <1>6, <1>7, <1>8, <1>10, <1>11, <1>12 DEF PlaceInv, MovesLater, Has, PlacesOf

(* Finishing a piece completes its bucket, or moves a part of it, and      *)
(* leaves all others as they are.                                          *)
LEMMA FinishPlace ==
    ASSUME StepInv, PlaceInv, Trivial, NEW t \in Thread, FinishPiece(t)
    PROVE  PlaceInv'
  <1> DEFINE w == todo[t][Min(Pending(t))]
             a == PieceDone(w)
  <1>1. /\ pc[t] = "finish" /\ Pending(t) # {} /\ UNCHANGED <<job, pc, save>>
        /\ todo' = [todo EXCEPT ![t] = SubSeq(@, Min(Pending(t)) + 1, Len(@))]
    BY DEF FinishPiece
  <1>2. IF Leaves(w)
          THEN /\ src' = [p \in Pos |-> IF p \in PlacesOf(w) THEN a[p] ELSE src[p]]
               /\ tmp' = Vacated(a, PlacesOf(w))
          ELSE tmp' = a /\ UNCHANGED src
    BY DEF FinishPiece, PlacesOf, PieceDone
  <1>3. w \in Piece /\ HasPlaces(w) /\ Has(todo[t], w)
    BY <1>1, FirstPending DEF Has, StepInv
  <1>4. /\ \A u \in Thread \ {t} : todo'[u] = todo[u]
        /\ \A v : Has(todo[t], v) /\ HasPlaces(v) => Has(todo'[t], v) \/ v = w
    BY <1>1, AfterPiece DEF StepInv
  <1> HIDE DEF w
  <1>5. RightPiece(t, w)
    BY <1>3 DEF StepInv, WorkInv
  <1>6. CountInv /\ Summed /\ GoodSaves /\ src \in [Pos -> Value] /\ tmp \in [Pos -> Value]
    <2>1. CountInv /\ Summed
      BY <1>1 DEF StepInv, CountInv, Phases, Summed, AllScattered
    <2>2. QED
      BY <2>1, AfterSums DEF StepInv, ScatterInv
  <1>7. /\ a \in [Pos -> Value] /\ PlacesOf(w) \in SUBSET Pos
        /\ \A p \in Pos \ PlacesOf(w) : a[p] = tmp[p]
    BY <1>3, <1>6, PieceFacts
  <1>8. tmp' = a
    BY <1>2, <1>7, VacatedType
  <1> HIDE DEF a
  <1>9. \A p \in Pos \ PlacesOf(w) : src'[p] = src[p] /\ tmp'[p] = tmp[p]
    BY <1>2, <1>7, <1>8
  <1>10. Leaves(w) => \A p \in PlacesOf(w) : src'[p] = tmp'[p]
    BY <1>2, <1>7, <1>8
  <1>11. PICK c \in Bucket : /\ save[c] <= w.lo /\ w.hi <= save[c + 1]
                             /\ \/ w = SortAndMove(c) /\ ~AllEqual(c) /\ Owns(t, c)
                                \/ w.kind \in {"move", "shared"} /\ AllEqual(c)
    BY <1>5 DEF RightPiece
  <1>12. PlacesOf(w) \subseteq Places(c)
    <2>1. w.lo \in Int /\ w.hi \in Int /\ save[c] \in Int /\ save[c + 1] \in Int
      BY <1>3, <1>6, BucketPlaces DEF Piece
    <2>2. QED
      BY <1>11, <2>1 DEF Places, PlacesOf
  <1>13. ASSUME NEW b \in Bucket, b # c
         PROVE  Places(b) \in SUBSET (Pos \ PlacesOf(w))
    <2>1. ASSUME NEW p \in Places(b), p \in PlacesOf(w)  PROVE FALSE
      <3>1. p \in Places(c) /\ p \in Int
        BY <1>7, <1>12, <2>1 DEF Pos
      <3>2. save[b] <= p /\ p < save[b + 1] /\ save[c] <= p /\ p < save[c + 1]
        BY <1>6, <3>1, BucketPlaces
      <3>3. QED
        BY <1>6, <1>13, <3>1, <3>2, SameBucket
    <2>2. QED
      BY <1>6, <2>1, BucketPlaces
  <1>14. \A b \in Bucket : Holds(b)
    BY <1>1 DEF PlaceInv
  <1>15. w.kind = "sort" =>
           /\ w = SortAndMove(c) /\ ~AllEqual(c) /\ Owns(t, c)
           /\ PlacesOf(w) = Places(c) /\ w.lo = save[c] /\ w.hi = save[c + 1]
    <2>1. w = SortAndMove(c) => w.lo = save[c] /\ w.hi = save[c + 1]
      BY DEF SortAndMove, Work
    <2>2. QED
      BY <1>11, <2>1 DEF Places, PlacesOf
  <1>16. w.kind = "sort" /\ SortedNow(w) =>
           /\ {tmp'[p] : p \in Places(c)} = {tmp[p] : p \in Places(c)}
           /\ \A p \in Places(c) : p - 1 \in Places(c) => Before(tmp'[p - 1], tmp'[p])
    <2> SUFFICES ASSUME w.kind = "sort", SortedNow(w)
                 PROVE  /\ {tmp'[p] : p \in PlacesOf(w)} = {tmp[p] : p \in PlacesOf(w)}
                        /\ \A p \in PlacesOf(w) : p - 1 \in PlacesOf(w) => Before(tmp'[p - 1], tmp'[p])
      BY <1>15
    <2>1. tmp' = SortedOn(tmp, w)
      BY <1>8 DEF a, PieceDone
    <2>2. w.lo \in 0 .. N /\ w.hi \in 0 .. N /\ w.lo <= w.hi
      BY <1>3 DEF Piece, HasPlaces
    <2>3. \A q, r \in PlacesOf(w) : tmp[q] = tmp[r] => q = r
      BY <1>6, <1>14, <1>15, HoldsInjective
    <2>4. QED
      BY <1>6, <2>1, <2>2, <2>3, SortedOnSorts
  <1>17. \A b \in Bucket : {tmp'[p] : p \in Places(b)} = Elements(b)
    <2> TAKE b \in Bucket
    <2>1. CASE b # c
      <3>1. \A p \in Places(b) : tmp'[p] = tmp[p]
        BY <1>9, <1>13, <2>1
      <3>2. QED
        BY <1>14, <3>1 DEF Holds
    <2>2. CASE b = c /\ w.kind = "sort" /\ SortedNow(w)
      BY <1>14, <1>16, <2>2 DEF Holds
    <2>3. CASE b = c /\ ~(w.kind = "sort" /\ SortedNow(w))
      <3>1. tmp' = tmp
        BY <1>8, <2>3 DEF a, PieceDone
      <3>2. QED
        BY <1>14, <3>1 DEF Holds
    <2>4. QED
      BY <2>1, <2>2, <2>3
  <1>18. ASSUME NEW b \in Bucket, b # c, Finished(b)
         PROVE  /\ InOrder(tmp', b)
                /\ job.inInput => \A p \in Places(b) : src'[p] = tmp'[p]
    <2>1. \A p \in Places(b) : tmp'[p] = tmp[p] /\ src'[p] = src[p]
      BY <1>9, <1>13, <1>18
    <2>2. QED
      BY <1>18, <2>1 DEF Finished, Moved, InOrder
  <1>19. ASSUME NEW u \in Thread, pc[u] = "finish", NEW b \in Bucket, Sorts(u, b)
         PROVE  \/ Has(todo'[u], SortAndMove(b))
                \/ /\ InOrder(tmp', b)
                   /\ job.inInput => \A p \in Places(b) : src'[p] = tmp'[p]
    <2>1. CASE b # c
      <3>1. CASE Finished(b)
        BY <1>18, <2>1, <3>1
      <3>2. CASE Has(todo[u], SortAndMove(b))
        <4>1. HasPlaces(SortAndMove(b))
          BY <1>19 DEF Sorts, HasPlaces, SortAndMove, Work
        <4>2. SortAndMove(b) # w
          <5> SUFFICES ASSUME SortAndMove(b) = w  PROVE FALSE
            OBVIOUS
          <5>1. PlacesOf(w) = Places(b)
            BY DEF PlacesOf, Places, SortAndMove, Work
          <5>2. save[b] \in PlacesOf(w)
            <6>1. save[b] \in Int /\ save[b + 1] \in Int /\ save[b] < save[b + 1]
              BY <1>6, <1>19, BucketPlaces DEF Sorts
            <6>2. QED
              BY <5>1, <6>1 DEF Places
          <5>3. QED
            BY <1>13, <2>1, <5>1, <5>2
        <4>3. QED
          BY <1>4, <3>2, <4>1, <4>2
      <3>3. QED
        BY <1>19, <3>1, <3>2 DEF PlaceInv
    <2>2. CASE b = c
      <3>1. ~AllEqual(c) /\ ~Continues(c)
        BY <1>19, <2>2 DEF Sorts
      <3>2. w = SortAndMove(c)
        BY <1>11, <3>1
      <3>3. w.kind = "sort"
        BY <3>2 DEF SortAndMove, Work
      <3>4. SortedNow(w)
        <4>1. w.hi - w.lo = save[c + 1] - save[c]
          BY <1>15, <3>3
        <4>2. save[c + 1] - save[c] \in Int /\ BaseCase \in Int
          BY <1>6, BucketPlaces, PartitionAssumption DEF PartitionAssumption
        <4>3. job.lastLevel \/ ~(save[c + 1] - save[c] > BaseCase)
          BY <3>1 DEF Continues, AllEqual
        <4>4. QED
          BY <4>1, <4>2, <4>3 DEF SortedNow
      <3>5. InOrder(tmp', b)
        BY <1>16, <2>2, <3>3, <3>4 DEF InOrder
      <3>6. job.inInput => \A p \in Places(b) : src'[p] = tmp'[p]
        BY <1>10, <1>15, <2>2, <3>3, <3>4 DEF Leaves
      <3>7. QED
        BY <3>5, <3>6
    <2>3. QED
      BY <2>1, <2>2
  <1>20. ASSUME NEW u \in Thread, pc[u] = "finish", NEW b \in Bucket, AllEqual(b),
                NEW p \in Mine(u) \cap Places(b)
         PROVE  \/ job.inInput => src'[p] = tmp'[p]
                \/ \E v \in Piece : /\ Has(todo'[u], v) /\ v.kind \in {"move", "shared"}
                                    /\ p \in PlacesOf(v)
    <2>1. CASE p \in PlacesOf(w)
      <3>1. b = c
        BY <1>13, <2>1
      <3>2. w.kind \in {"move", "shared"}
        BY <1>11, <1>20, <3>1
      <3>3. job.inInput => Leaves(w)
        BY <3>2 DEF Leaves
      <3>4. QED
        BY <1>10, <2>1, <3>3
    <2>2. CASE p \notin PlacesOf(w)
      <3>1. p \in Pos
        BY AllStripes
      <3>2. src'[p] = src[p] /\ tmp'[p] = tmp[p]
        BY <1>9, <2>2, <3>1
      <3>3. CASE Moved(p)
        BY <3>2, <3>3 DEF Moved
      <3>4. CASE MovesLater(u, p)
        <4>1. PICK v \in Piece : /\ Has(todo[u], v) /\ v.kind \in {"move", "shared"}
                                 /\ p \in PlacesOf(v)
          BY <3>4 DEF MovesLater
        <4>2. HasPlaces(v) /\ v # w
          BY <2>2, <3>1, <4>1 DEF HasPlaces, PlacesOf, Piece, Pos
        <4>3. Has(todo'[u], v)
          BY <1>4, <4>1, <4>2
        <4>4. QED
          BY <4>1, <4>3
      <3>5. QED
        BY <1>20, <3>3, <3>4 DEF PlaceInv
    <2>3. QED
      BY <2>1, <2>2
  <1>21. /\ \A b : Places(b)' = Places(b) /\ Elements(b)' = Elements(b)
                   /\ (AllEqual(b)' <=> AllEqual(b)) /\ SortAndMove(b)' = SortAndMove(b)
         /\ \A u, b : Sorts(u, b)' <=> Sorts(u, b)
    BY <1>1, SameFrame
  <1>22. \A b \in Bucket : Holds(b)'
    BY <1>17, <1>21 DEF Holds
  <1>23. /\ \A p : Moved(p)' <=> (job.inInput => src'[p] = tmp'[p])
         /\ \A b : Finished(b)' <=> /\ InOrder(tmp', b)
                                    /\ \A p \in Places(b) : job.inInput => src'[p] = tmp'[p]
    BY <1>1, <1>21 DEF Moved, Finished, InOrder
  <1>24. \A u : Mine(u)' = Mine(u)
    BY DEF Mine, MyBegin, MyEnd
  <1>25. ASSUME NEW u \in Thread, pc'[u] = "finish", NEW b \in Bucket, Sorts(u, b)'
         PROVE  Has(todo'[u], SortAndMove(b)') \/ Finished(b)'
    <2>1. pc[u] = "finish" /\ Sorts(u, b)
      BY <1>1, <1>21, <1>25
    <2>2. SortAndMove(b)' = SortAndMove(b)
      BY <1>21
    <2>3. CASE Has(todo'[u], SortAndMove(b))
      BY <2>2, <2>3
    <2>4. CASE /\ InOrder(tmp', b)
               /\ job.inInput => \A p \in Places(b) : src'[p] = tmp'[p]
      BY <1>23, <2>4
    <2>5. QED
      BY <1>19, <2>1, <2>3, <2>4
  <1>26. ASSUME NEW u \in Thread, pc'[u] = "finish", NEW b \in Bucket, AllEqual(b)',
                NEW p \in Mine(u)' \cap Places(b)'
         PROVE  Moved(p)' \/ MovesLater(u, p)'
    <2>1. pc[u] = "finish" /\ AllEqual(b) /\ p \in Mine(u) \cap Places(b)
      BY <1>1, <1>21, <1>24, <1>26
    <2>2. CASE job.inInput => src'[p] = tmp'[p]
      BY <1>23, <2>2
    <2>3. CASE \E v \in Piece : /\ Has(todo'[u], v) /\ v.kind \in {"move", "shared"}
                                /\ p \in PlacesOf(v)
      BY <2>3 DEF MovesLater, Has, PlacesOf
    <2>4. QED
      BY <1>20, <2>1, <2>2, <2>3
  <1>27. QED
    <2>1. \A u \in Thread : pc'[u] = "finish" =>
             /\ \A b \in Bucket : Sorts(u, b)' => Has(todo'[u], SortAndMove(b)') \/ Finished(b)'
             /\ \A b \in Bucket : AllEqual(b)' =>
                   \A p \in Mine(u)' \cap Places(b)' : Moved(p)' \/ MovesLater(u, p)'
      BY <1>25, <1>26
    <2>2. QED
      BY <1>22, <2>1 DEF PlaceInv, Has

LEMMA NextPlace == Trivial => (StepInv /\ PlaceInv /\ [Next]_vars => PlaceInv')
  <1> SUFFICES ASSUME Trivial, StepInv, PlaceInv, [Next]_vars  PROVE PlaceInv'
    OBVIOUS
  <1>1. pc \in [Thread -> PC]
    BY DEF StepInv, CountInv, Types1
  <1>2. ASSUME \A u \in Thread : pc'[u] # "finish"  PROVE PlaceInv'
    BY <1>2 DEF PlaceInv
  <1>3. CASE PrefixSums
    BY <1>2, <1>3 DEF PrefixSums
  <1>4. ASSUME NEW t \in Thread, Classify(t) \/ Scatter(t)  PROVE PlaceInv'
    <2>1. pc[t] = "classify" \/ pc[t] = "scatter"
      BY <1>4 DEF Classify, Scatter
    <2>2. \A u \in Thread : pc[u] # "finish"
      BY <2>1 DEF StepInv, CountInv, Phases, AllScattered, Summed
    <2>3. pc' = [pc EXCEPT ![t] = "classified"] \/ pc' = [pc EXCEPT ![t] = "scattered"]
      BY <1>4 DEF Classify, Scatter, Goto
    <2>4. \A u \in Thread : pc'[u] # "finish"
      BY <1>1, <2>2, <2>3
    <2>5. QED
      BY <1>2, <2>4
  <1>5. ASSUME NEW t \in Thread, DivideBuckets(t) \/ FinishPiece(t)  PROVE PlaceInv'
    BY <1>5, DividePlace, FinishPlace
  <1>6. CASE UNCHANGED vars
    <2>1. UNCHANGED <<job, pc, save, src, tmp, todo>>
      BY <1>6 DEF vars
    <2>2. /\ \A b : Places(b)' = Places(b) /\ Elements(b)' = Elements(b)
                    /\ (AllEqual(b)' <=> AllEqual(b)) /\ SortAndMove(b)' = SortAndMove(b)
          /\ \A u, b : Sorts(u, b)' <=> Sorts(u, b)
      BY <2>1, SameFrame
    <2>3. \A p : Moved(p)' <=> Moved(p)
      BY <2>1 DEF Moved
    <2>4. \A b : /\ Finished(b)' <=> Finished(b)
                 /\ Holds(b)' <=> Holds(b)
      BY <2>1, <2>2, <2>3 DEF Finished, Holds, InOrder
    <2>5. \A u : Mine(u)' = Mine(u)
      BY DEF Mine, MyBegin, MyEnd
    <2>6. \A u, p : MovesLater(u, p)' <=> MovesLater(u, p)
      BY <2>1 DEF MovesLater, Has, PlacesOf
    <2>7. QED
      BY <2>1, <2>2, <2>3, <2>4, <2>5, <2>6 DEF PlaceInv, Has
  <1>7. QED
    BY <1>3, <1>4, <1>5, <1>6 DEF Next, Terminated, Step

(* At the last barrier of partition<true> every bucket is where its user   *)
(* expects it: whole in begin_tmp if it will be partitioned again,         *)
(* otherwise finished, in order unless its elements are equal, in the      *)
(* array the caller sorts. The elements' type must leave its value behind  *)
(* when moved (Trivial): without that it is false, see run                 *)
(* partition_second_level.                                                 *)
THEOREM PlacementHolds == ASSUME NothingStale, Trivial PROVE Spec => []Placement
  <1>1. StepInv /\ PlaceInv => Placement
    <2> SUFFICES ASSUME StepInv, PlaceInv, AllDone, NEW b \in Bucket
                 PROVE  LET a == IF job.inInput /\ ~Continues(b) THEN src ELSE tmp
                        IN  /\ {a[p] : p \in Places(b)} = Elements(b)
                            /\ Continues(b) \/ (job.equal /\ IsEqualityBucket(b)) \/ InOrder(a, b)
      BY DEF Placement
    <2>1. /\ \A t \in Thread : pc[t] = "finish"
          /\ \A t \in Thread : \A w : Has(todo[t], w) => ~HasPlaces(w)
      BY DEF AllDone, Pending, Has
    <2>2. 0 \in Thread
      BY StripeType DEF Thread
    <2>3. GoodSaves /\ Holds(b)
      <3>1. CountInv /\ Summed
        BY <2>1 DEF StepInv, Summed
      <3>2. QED
        BY <2>1, <2>2, <3>1, AfterSums DEF PlaceInv
    <2>4. CASE Continues(b)
      BY <2>3, <2>4 DEF Holds
    <2>5. CASE AllEqual(b)
      <3>1. \A p \in Places(b) : Moved(p)
        <4> TAKE p \in Places(b)
        <4>1. p \in Pos
          BY <2>3, BucketPlaces
        <4>2. PICK t \in Thread : p \in Mine(t)
          BY <4>1, OwnStripe
        <4>3. ~MovesLater(t, p)
          <5> SUFFICES ASSUME NEW w \in Piece, Has(todo[t], w), p \in PlacesOf(w)
                       PROVE  FALSE
            BY DEF MovesLater
          <5>1. HasPlaces(w)
            BY <4>1 DEF HasPlaces, PlacesOf, Piece, Pos
          <5>2. QED
            BY <2>1, <5>1
        <4>4. QED
          BY <2>1, <2>5, <4>2, <4>3 DEF PlaceInv
      <3>2. job.inInput => {src[p] : p \in Places(b)} = {tmp[p] : p \in Places(b)}
        BY <3>1 DEF Moved
      <3>3. QED
        BY <2>3, <2>5, <3>2 DEF Holds, AllEqual
    <2>6. CASE ~Continues(b) /\ ~AllEqual(b)
      <3>1. Finished(b)
        <4>1. CASE save[b] < save[b + 1]
          <5>1. PICK t \in Thread : Owns(t, b)
            BY <2>3, <4>1, HasOwner
          <5>2. Sorts(t, b)
            BY <2>6, <4>1, <5>1 DEF Sorts
          <5>3. HasPlaces(SortAndMove(b))
            BY <4>1 DEF HasPlaces, SortAndMove, Work
          <5>4. QED
            BY <2>1, <5>2, <5>3 DEF PlaceInv
        <4>2. CASE ~(save[b] < save[b + 1])
          <5>1. Places(b) = {}
            <6>1. save[b] \in Int /\ save[b + 1] \in Int
              BY <2>3, BucketPlaces
            <6>2. QED
              BY <4>2, <6>1 DEF Places
          <5>2. QED
            BY <5>1 DEF Finished, InOrder
        <4>3. QED
          BY <4>1, <4>2
      <3>2. job.inInput => \A p \in Places(b) : src[p] = tmp[p]
        BY <3>1 DEF Finished, Moved
      <3>3. job.inInput => {src[p] : p \in Places(b)} = {tmp[p] : p \in Places(b)}
        BY <3>2
      <3>4. InOrder(tmp, b) /\ (job.inInput => InOrder(src, b))
        BY <3>1, <3>2 DEF Finished, InOrder
      <3>5. QED
        BY <2>3, <2>6, <3>3, <3>4 DEF Holds
    <2>7. QED
      BY <2>4, <2>5, <2>6
  <1>2. Init => StepInv /\ PlaceInv
    BY InitCount, InitWork, InitScatter, InitPlace DEF StepInv
  <1>3. (StepInv /\ PlaceInv) /\ [Next]_vars => (StepInv /\ PlaceInv)'
    BY NextCount, NextWork, NextScatter, NextPlace DEF StepInv
  <1>4. QED
    BY <1>1, <1>2, <1>3, PTL DEF Spec
====
