----------------------- MODULE InPlacePartitionProofs -----------------------
(***************************************************************************)
(* A partitioning step of IPS4o ends with every element in its bucket,     *)
(* none lost and no place left out, whatever the step's threads, buckets   *)
(* and elements are and however the threads take turns, as long as no two  *)
(* threads move the same margin out (MovesOnce).  No buffer or block takes *)
(* more than it has room for.                                              *)
(*                                                                         *)
(* The proof keeps accounts: of every bucket, where its elements are.      *)
(* Until the movement of empty blocks is over they are in the full blocks  *)
(* of the array and in the buffers (EarlyAccount); in the permutation also *)
(* in the hands of the threads and in the overflow block (PermAccount).    *)
(* When it ends, a bucket has its blocks behind its own beginning, perhaps *)
(* some elements of them beyond its own end, and the rest in the buffers   *)
(* and the overflow block: exactly what fills the places its blocks leave  *)
(* out (MarginSlots).  The margins of the buckets are moved by different   *)
(* threads, in any order.  A bucket whose margin is still to be written is *)
(* Pending: all that belongs to it is somewhere, in the places beyond its  *)
(* end or in the swap block of the thread that saved them.  One whose      *)
(* margin is written is FilledBy its elements, and nobody disturbs it.     *)
(***************************************************************************)
EXTENDS BlockPermutationProofs

-----------------------------------------------------------------------------
(* Sums of functions on finite sets                                        *)

(* Finite sets are well-founded: a family of subsets of S that is not all  *)
(* of them leaves out one whose strict subsets it all contains.            *)
LEMMA SmallestLeftOut ==
    ASSUME NEW S, IsFiniteSet(S), NEW G, NEW B \in SUBSET S, B \notin G
    PROVE  \E R \in SUBSET S : R \notin G /\ \A U \in SUBSET R : U # R => U \in G
  <1> DEFINE Q == {U \in SUBSET S : U \notin G}
  <1>1. IsWellFoundedOn(StrictSubsetOrdering(S), SUBSET S)
    BY FS_StrictSubsetOrderingWellFounded, FS_FiniteSubsetsOfFinite
  <1>2. Q \subseteq SUBSET S /\ Q # {}
    OBVIOUS
  <1> HIDE DEF Q
  <1>3. PICK R \in Q : \A U \in Q : <<U, R>> \notin StrictSubsetOrdering(S)
    BY <1>1, <1>2, WFMin
  <1>4. R \in SUBSET S /\ R \notin G
    BY DEF Q
  <1>5. ASSUME NEW U \in SUBSET R, U # R  PROVE U \in G
    <2>1. U \in SUBSET S
      BY <1>4
    <2>2. <<U, R>> \in StrictSubsetOrdering(S)
      BY <1>4, <2>1, <1>5 DEF StrictSubsetOrdering
    <2>3. U \notin Q
      BY <1>3, <2>2
    <2>4. QED
      BY <2>1, <2>3 DEF Q
  <1>6. QED
    BY <1>4, <1>5

(* SumFunctionOnSet is defined by recursion on the set of indices.         *)
First(s) == CHOOSE x \in s : TRUE
Recursion(g, f, S) ==
    g = [s \in SUBSET S |-> IF s = {} THEN 0 ELSE f[First(s)] + g[s \ {First(s)}]]

(* The definition of the community modules, with its recursion named.      *)
LEMMA SumIsChoice ==
    ASSUME NEW f, NEW S
    PROVE  SumFunctionOnSet(f, S) = (CHOOSE g : Recursion(g, f, S))[S]
  BY DEF SumFunctionOnSet, FoldFunctionOnSet, MapThenFoldSet, First, Recursion

Solution(f, S) == [s \in SUBSET S |-> SumFunctionOnSet(f, s)]
OneSolution(f, S) == \A g : Recursion(g, f, S) <=> g = Solution(f, S)

(* A chosen element is one of the set.                                     *)
LEMMA FirstIn == \A s : s # {} => First(s) \in s
  BY DEF First

(* The step of the induction: if the recursion has one solution on all     *)
(* smaller sets, it has one on this set.                                   *)
LEMMA OneSolutionStep ==
    ASSUME NEW f, NEW S, \A U \in SUBSET S : U # S => OneSolution(f, U)
    PROVE  OneSolution(f, S)
  <1> DEFINE body(g, s) == IF s = {} THEN 0 ELSE f[First(s)] + g[s \ {First(s)}]
             h == [s \in SUBSET S |-> IF s = S THEN body(Solution(f, S), s)
                                      ELSE SumFunctionOnSet(f, s)]
  <1>0. \A g, U : Recursion(g, f, U) <=> g = [s \in SUBSET U |-> body(g, s)]
    BY DEF Recursion
  <1>1. ASSUME NEW U \in SUBSET S, U # S
        PROVE  SumFunctionOnSet(f, U) = body(Solution(f, S), U)
    <2>1. Recursion(Solution(f, U), f, U)
      BY <1>1 DEF OneSolution
    <2>2. Solution(f, U)[U] = body(Solution(f, U), U)
      <3>1. Solution(f, U) = [s \in SUBSET U |-> body(Solution(f, U), s)]
        BY <2>1, <1>0
      <3>2. U \in SUBSET U
        OBVIOUS
      <3> HIDE DEF body
      <3>3. QED
        BY <3>1, <3>2
    <2>3. Solution(f, U)[U] = SumFunctionOnSet(f, U)
      BY DEF Solution
    <2>4. U # {} => U \ {First(U)} \in SUBSET U /\ U \ {First(U)} \in SUBSET S
      OBVIOUS
    <2>5. U # {} => Solution(f, U)[U \ {First(U)}] = Solution(f, S)[U \ {First(U)}]
      BY <2>4 DEF Solution
    <2>6. QED
      BY <2>2, <2>3, <2>5
  <1>2. S # {} => S \ {First(S)} \in SUBSET S /\ S \ {First(S)} # S
    BY FirstIn
  <1>3. ASSUME NEW s \in SUBSET S  PROVE h[s] = body(Solution(f, S), s)
    BY <1>1, <1>3
  <1>4. \A s \in SUBSET S : s # {} => s \ {First(s)} \in SUBSET S /\ s \ {First(s)} # S
    BY FirstIn
  <1>5. ASSUME NEW s \in SUBSET S  PROVE h[s] = body(h, s)
    <2>1. s # {} => h[s \ {First(s)}] = Solution(f, S)[s \ {First(s)}]
      BY <1>4 DEF Solution
    <2>2. QED
      BY <2>1, <1>3
  <1>6. Recursion(h, f, S)
    <2>1. h = [s \in SUBSET S |-> body(h, s)]
      BY <1>5
    <2>2. QED
      BY <2>1, <1>0
  <1>7. ASSUME NEW g, Recursion(g, f, S)  PROVE g = h
    <2>0. g = [s \in SUBSET S |-> body(g, s)]
      BY <1>7, <1>0
    <2>1. ASSUME NEW U \in SUBSET S, U # S  PROVE g[U] = SumFunctionOnSet(f, U)
      <3> DEFINE r == [s \in SUBSET U |-> g[s]]
      <3>1. ASSUME NEW s \in SUBSET U  PROVE r[s] = body(r, s)
        <4>1. s \in SUBSET S /\ (s # {} => s \ {First(s)} \in SUBSET U)
          OBVIOUS
        <4>2. g[s] = body(g, s)
          BY <2>0, <4>1
        <4>3. QED
          BY <4>1, <4>2
      <3>2. r = [s \in SUBSET U |-> body(r, s)]
        BY <3>1
      <3>3. Recursion(r, f, U)
        BY <3>2, <1>0
      <3>4. r = Solution(f, U)
        BY <3>3, <2>1 DEF OneSolution
      <3>5. QED
        BY <3>4 DEF Solution
    <2>2. S # {} => g[S \ {First(S)}] = Solution(f, S)[S \ {First(S)}]
      BY <2>1, <1>2 DEF Solution
    <2>3. g[S] = h[S]
      BY <2>0, <2>2
    <2>4. \A s \in SUBSET S : g[s] = h[s]
      BY <2>1, <2>3
    <2>5. QED
      BY <2>0, <2>4
  <1> HIDE DEF h
  <1>8. (CHOOSE g : Recursion(g, f, S)) = h
    BY <1>6, <1>7
  <1>9. SumFunctionOnSet(f, S) = h[S]
    BY <1>8, SumIsChoice
  <1>10. h = Solution(f, S)
    BY <1>9 DEF h, Solution
  <1>11. QED
    BY <1>6, <1>7, <1>10 DEF OneSolution

(* The sum unfolds by one element on every finite set.                     *)
LEMMA SumUnfolds ==
    ASSUME NEW f, NEW S, IsFiniteSet(S)
    PROVE  SumFunctionOnSet(f, S) =
             IF S = {} THEN 0 ELSE f[First(S)] + SumFunctionOnSet(f, S \ {First(S)})
  <1> DEFINE G == {U \in SUBSET S : OneSolution(f, U)}
  <1>1. OneSolution(f, S)
    <2> SUFFICES ASSUME S \notin G  PROVE FALSE
      OBVIOUS
    <2>1. PICK R \in SUBSET S : R \notin G /\ \A U \in SUBSET R : U # R => U \in G
      <3> HIDE DEF G
      <3> QED BY SmallestLeftOut
    <2>2. OneSolution(f, R)
      BY <2>1, OneSolutionStep
    <2>3. QED
      BY <2>1, <2>2
  <1>2. Solution(f, S) = [s \in SUBSET S |->
            IF s = {} THEN 0 ELSE f[First(s)] + Solution(f, S)[s \ {First(s)}]]
    BY <1>1 DEF OneSolution, Recursion
  <1>3. Solution(f, S)[S] = IF S = {} THEN 0
                            ELSE f[First(S)] + Solution(f, S)[S \ {First(S)}]
    BY <1>2
  <1>4. S \in SUBSET S /\ S \ {First(S)} \in SUBSET S
    OBVIOUS
  <1>5. QED
    BY <1>3, <1>4 DEF Solution

(* The sum of natural numbers is one, whatever is left out of it.          *)
LEMMA SumNat ==
    ASSUME NEW S, IsFiniteSet(S), NEW f \in [S -> Nat], NEW R \in SUBSET S
    PROVE  SumFunctionOnSet(f, R) \in Nat
  <1> DEFINE G == {U \in SUBSET S : SumFunctionOnSet(f, U) \in Nat}
  <1> SUFFICES ASSUME R \notin G  PROVE FALSE
    OBVIOUS
  <1>1. PICK B \in SUBSET S : B \notin G /\ \A U \in SUBSET B : U # B => U \in G
    <2> HIDE DEF G
    <2> QED BY SmallestLeftOut
  <1>2. IsFiniteSet(B)
    BY FS_Subset
  <1>3. CASE B = {}
    <2>1. SumFunctionOnSet(f, B) = 0
      BY <1>2, <1>3, SumUnfolds
    <2>2. QED
      BY <1>1, <2>1
  <1>4. CASE B # {}
    <2>1. First(B) \in B
      BY <1>4, FirstIn
    <2>2. B \ {First(B)} \in SUBSET B /\ B \ {First(B)} # B
      BY <2>1
    <2>3. SumFunctionOnSet(f, B \ {First(B)}) \in Nat
      BY <1>1, <2>2
    <2>4. f[First(B)] \in Nat
      BY <2>1
    <2>5. SumFunctionOnSet(f, B) = f[First(B)] + SumFunctionOnSet(f, B \ {First(B)})
      BY <1>2, <1>4, SumUnfolds
    <2>6. QED
      BY <1>1, <2>3, <2>4, <2>5
  <1>5. QED
    BY <1>3, <1>4

(* The order in which the values are added does not matter.                *)
LEMMA SumTakes ==
    ASSUME NEW S, IsFiniteSet(S), NEW f \in [S -> Nat],
           NEW R \in SUBSET S, NEW x \in R
    PROVE  SumFunctionOnSet(f, R) = f[x] + SumFunctionOnSet(f, R \ {x})
  <1> DEFINE G == {U \in SUBSET S : \A y \in U :
                      SumFunctionOnSet(f, U) = f[y] + SumFunctionOnSet(f, U \ {y})}
  <1> SUFFICES ASSUME R \notin G  PROVE FALSE
    OBVIOUS
  <1>1. PICK B \in SUBSET S : B \notin G /\ \A U \in SUBSET B : U # B => U \in G
    <2> HIDE DEF G
    <2> QED BY SmallestLeftOut
  <1>2. PICK y \in B : SumFunctionOnSet(f, B) # f[y] + SumFunctionOnSet(f, B \ {y})
    BY <1>1
  <1> DEFINE z == First(B)
             C == B \ {y, z}
  <1>3. IsFiniteSet(B) /\ z \in B
    BY FS_Subset, FirstIn
  <1>4. SumFunctionOnSet(f, B) = f[z] + SumFunctionOnSet(f, B \ {z})
    BY <1>3, SumUnfolds
  <1>5. y # z
    BY <1>2, <1>4
  <1>6. SumFunctionOnSet(f, B \ {z}) = f[y] + SumFunctionOnSet(f, C)
    <2>1. B \ {z} \in G /\ y \in B \ {z} /\ (B \ {z}) \ {y} = C
      BY <1>1, <1>3, <1>5
    <2>2. QED
      BY <2>1
  <1>7. SumFunctionOnSet(f, B \ {y}) = f[z] + SumFunctionOnSet(f, C)
    <2>1. B \ {y} \in G /\ z \in B \ {y} /\ (B \ {y}) \ {z} = C
      BY <1>1, <1>3, <1>5
    <2>2. QED
      BY <2>1
  <1>8. f[y] \in Nat /\ f[z] \in Nat /\ SumFunctionOnSet(f, C) \in Nat
    <2>1. C \in SUBSET S
      OBVIOUS
    <2>2. SumFunctionOnSet(f, C) \in Nat
      BY <2>1, SumNat
    <2>3. QED
      BY <2>2, <1>3
  <1> HIDE DEF z, C, G
  <1>9. QED
    BY <1>2, <1>4, <1>6, <1>7, <1>8

(* Functions that agree on a set have the same sum over it.                *)
LEMMA SumSame ==
    ASSUME NEW S, IsFiniteSet(S), NEW f, NEW g, \A x \in S : f[x] = g[x]
    PROVE  SumFunctionOnSet(f, S) = SumFunctionOnSet(g, S)
  <1> DEFINE G == {U \in SUBSET S : SumFunctionOnSet(f, U) = SumFunctionOnSet(g, U)}
  <1> SUFFICES ASSUME S \notin G  PROVE FALSE
    OBVIOUS
  <1>1. PICK B \in SUBSET S : B \notin G /\ \A U \in SUBSET B : U # B => U \in G
    <2> HIDE DEF G
    <2> QED BY SmallestLeftOut
  <1>2. IsFiniteSet(B)
    BY FS_Subset
  <1>3. CASE B = {}
    BY <1>1, <1>2, <1>3, SumUnfolds
  <1>4. CASE B # {}
    <2>1. First(B) \in B /\ First(B) \in S
      BY <1>4, FirstIn
    <2>2. B \ {First(B)} \in SUBSET B /\ B \ {First(B)} # B
      BY <2>1
    <2>3. SumFunctionOnSet(f, B \ {First(B)}) = SumFunctionOnSet(g, B \ {First(B)})
      BY <1>1, <2>2
    <2>4. /\ SumFunctionOnSet(f, B) = f[First(B)] + SumFunctionOnSet(f, B \ {First(B)})
          /\ SumFunctionOnSet(g, B) = g[First(B)] + SumFunctionOnSet(g, B \ {First(B)})
      BY <1>2, <1>4, SumUnfolds
    <2>5. SumFunctionOnSet(f, B) = SumFunctionOnSet(g, B)
      BY <2>1, <2>3, <2>4
    <2>6. QED
      BY <1>1, <2>5
  <1>5. QED
    BY <1>3, <1>4

(* The sum of zeros is zero.                                               *)
LEMMA SumZero ==
    ASSUME NEW S, IsFiniteSet(S), NEW f, \A x \in S : f[x] = 0
    PROVE  SumFunctionOnSet(f, S) = 0
  <1> DEFINE G == {U \in SUBSET S : SumFunctionOnSet(f, U) = 0}
  <1> SUFFICES ASSUME S \notin G  PROVE FALSE
    OBVIOUS
  <1>1. PICK B \in SUBSET S : B \notin G /\ \A U \in SUBSET B : U # B => U \in G
    <2> HIDE DEF G
    <2> QED BY SmallestLeftOut
  <1>2. IsFiniteSet(B)
    BY FS_Subset
  <1>3. CASE B = {}
    BY <1>1, <1>2, <1>3, SumUnfolds
  <1>4. CASE B # {}
    <2>1. First(B) \in B /\ First(B) \in S
      BY <1>4, FirstIn
    <2>2. B \ {First(B)} \in SUBSET B /\ B \ {First(B)} # B
      BY <2>1
    <2>3. SumFunctionOnSet(f, B \ {First(B)}) = 0
      BY <1>1, <2>2
    <2>4. SumFunctionOnSet(f, B) = f[First(B)] + SumFunctionOnSet(f, B \ {First(B)})
      BY <1>2, <1>4, SumUnfolds
    <2>5. SumFunctionOnSet(f, B) = 0
      BY <2>1, <2>3, <2>4
    <2>6. QED
      BY <1>1, <2>5
  <1>5. QED
    BY <1>3, <1>4

(* When one value changes the sum changes with it.                         *)
LEMMA SumChange ==
    ASSUME NEW S, IsFiniteSet(S), NEW f \in [S -> Nat], NEW g \in [S -> Nat]
    PROVE  /\ SumFunctionOnSet(f, S) \in Nat /\ SumFunctionOnSet(g, S) \in Nat
           /\ \A x \in S : (\A y \in S : y # x => g[y] = f[y]) =>
                SumFunctionOnSet(g, S) = (SumFunctionOnSet(f, S) - f[x]) + g[x]
  <1>0. SumFunctionOnSet(f, S) \in Nat /\ SumFunctionOnSet(g, S) \in Nat
    <2>1. S \in SUBSET S
      OBVIOUS
    <2>2. QED
      BY <2>1, SumNat
  <1> SUFFICES ASSUME NEW x \in S, \A y \in S : y # x => g[y] = f[y]
               PROVE  SumFunctionOnSet(g, S) = (SumFunctionOnSet(f, S) - f[x]) + g[x]
    BY <1>0
  <1>1. S \in SUBSET S /\ S \ {x} \in SUBSET S /\ IsFiniteSet(S \ {x})
    BY FS_Subset
  <1>2. SumFunctionOnSet(f, S) = f[x] + SumFunctionOnSet(f, S \ {x})
    BY <1>1, SumTakes
  <1>3. SumFunctionOnSet(g, S) = g[x] + SumFunctionOnSet(g, S \ {x})
    BY <1>1, SumTakes
  <1>4. SumFunctionOnSet(f, S \ {x}) = SumFunctionOnSet(g, S \ {x})
    <2>1. \A y \in S \ {x} : f[y] = g[y]
      OBVIOUS
    <2>2. QED
      BY <1>1, <2>1, SumSame
  <1>5. /\ SumFunctionOnSet(f, S) \in Nat /\ SumFunctionOnSet(g, S) \in Nat
        /\ SumFunctionOnSet(f, S \ {x}) \in Nat /\ f[x] \in Nat /\ g[x] \in Nat
    BY <1>1, SumNat
  <1>6. QED
    BY <1>2, <1>3, <1>4, <1>5

-----------------------------------------------------------------------------
(* The accounts of the buckets before the permutation                      *)

(* A buffer that changes changes the sum of its bucket.                    *)
LEMMA BufferChanges ==
    ASSUME T \in Nat, Thread' = Thread, NEW c \in Bucket, NEW t \in Thread,
           buffers \in [Thread -> [Bucket -> Nat]], buffers' \in [Thread -> [Bucket -> Nat]],
           \A u \in Thread : u # t => buffers'[u][c] = buffers[u][c]
    PROVE  /\ InBuffers(c) \in Nat /\ InBuffers(c)' \in Nat
           /\ InBuffers(c)' = (InBuffers(c) - buffers[t][c]) + buffers'[t][c]
  <1> DEFINE f == [u \in Thread |-> buffers[u][c]]
             g == [u \in Thread |-> buffers'[u][c]]
  <1>1. IsFiniteSet(Thread)
    BY Interval DEF Thread
  <1>2. f \in [Thread -> Nat] /\ g \in [Thread -> Nat] /\ f[t] = buffers[t][c] /\ g[t] = buffers'[t][c]
        /\ \A u \in Thread : u # t => g[u] = f[u]
    OBVIOUS
  <1>3. InBuffers(c) = SumFunctionOnSet(f, Thread) /\ InBuffers(c)' = SumFunctionOnSet(g, Thread)
    BY DEF InBuffers
  <1> HIDE DEF f, g
  <1>4. /\ SumFunctionOnSet(f, Thread) \in Nat /\ SumFunctionOnSet(g, Thread) \in Nat
        /\ SumFunctionOnSet(g, Thread) = (SumFunctionOnSet(f, Thread) - f[t]) + g[t]
    <2>1. /\ SumFunctionOnSet(f, Thread) \in Nat /\ SumFunctionOnSet(g, Thread) \in Nat
          /\ \A x \in Thread : (\A y \in Thread : y # x => g[y] = f[y]) =>
               SumFunctionOnSet(g, Thread) = (SumFunctionOnSet(f, Thread) - f[x]) + g[x]
      <3>1. f \in [Thread -> Nat] /\ g \in [Thread -> Nat] /\ IsFiniteSet(Thread)
        BY <1>1, <1>2
      <3>2. QED
        BY ONLY <3>1, SumChange
    <2>2. QED
      BY <1>2, <2>1
  <1>5. QED
    BY <1>2, <1>3, <1>4

(* Buffers that are empty hold nothing together.                           *)
LEMMA BuffersEmpty ==
    ASSUME T \in Nat, NEW c, \A u \in Thread : buffers[u][c] = 0
    PROVE  InBuffers(c) = 0
  <1> DEFINE f == [u \in Thread |-> buffers[u][c]]
  <1>1. IsFiniteSet(Thread)
    BY Interval DEF Thread
  <1>2. \A u \in Thread : f[u] = 0
    OBVIOUS
  <1> HIDE DEF f
  <1>3. SumFunctionOnSet(f, Thread) = 0
    BY <1>1, <1>2, SumZero
  <1>4. QED
    BY <1>3 DEF InBuffers, f

(* What the buffers hold is a number of elements.                          *)
LEMMA BuffersNat ==
    ASSUME T \in Nat, NEW c \in Bucket, buffers \in [Thread -> [Bucket -> Nat]]
    PROVE  InBuffers(c) \in Nat
  <1> DEFINE f == [u \in Thread |-> buffers[u][c]]
  <1>1. IsFiniteSet(Thread)
    BY Interval DEF Thread
  <1>2. f \in [Thread -> Nat] /\ Thread \in SUBSET Thread
    OBVIOUS
  <1> HIDE DEF f
  <1>3. SumFunctionOnSet(f, Thread) \in Nat
    BY <1>1, <1>2, SumNat
  <1>4. QED
    BY <1>3 DEF InBuffers, f

(* Every element of a stripe is in a block that was flushed or in a buffer.*)
LEMMA StripeAccount ==
    ASSUME GoodInput, NEW t \in Thread, DOMAIN a = Pos, t \in DOMAIN firstBlock, t \in DOMAIN firstEmpty,
           \A p \in Mine(t) : a[p] = Label(p), Classify(t), NEW c \in Bucket
    PROVE  /\ Buffered(t, c) \in Nat
           /\ Cardinality(Blocks(Mine(t), c)') \in Nat
           /\ Buffered(t, c) + BlockSize * Cardinality(Blocks(Mine(t), c)')
                = Cardinality(Labelled(Mine(t), c))
  <1> DEFINE E == Blocks(Mine(t), c)'
             L == Labelled(Mine(t), c)
             Fc == {p \in Flushed(t) : a[p] = c}
  <1>1. /\ Spare(Mine(t), c)' /\ Cardinality(E) = Cardinality(Fc)
    BY ClassifyStripe
  <1>2. Mine(t) \subseteq Pos /\ IsFiniteSet(Pos)
    BY Stripes, PosFinite
  <1>3. input' = input
    BY DEF Classify
  <1>4. Labelled(Mine(t), c)' = L /\ Mine(t)' = Mine(t)
    BY <1>3 DEF Labelled, Label, Mine, MyBegin, MyEnd, StripeAt, T, N
  <1>5. L \in SUBSET Pos /\ E \in SUBSET Pos
    BY <1>2, <1>4 DEF Labelled, Blocks
  <1>6. Cardinality(L) \in Nat /\ Cardinality(E) \in Nat /\ (E = {} => Cardinality(E) = 0)
    BY <1>2, <1>5, Cards
  <1>7. Rank(t, c, MyEnd(t) - 1) = Cardinality(L)
    <2>1. {q \in MyBegin(t) .. MyEnd(t) - 1 : a[q] = c} = L
      BY DEF Labelled, Mine
    <2>2. QED
      BY <2>1 DEF Rank
  <1>8. Buffered(t, c) = Cardinality(L) - BlockSize * Cardinality(E)
    BY <1>1, <1>7 DEF Buffered, BucketSize
  <1>9. E = {} \/ BlockSize * Cardinality(E) < Cardinality(L)
    BY <1>1, <1>4 DEF Spare
  <1> HIDE DEF E, L
  <1>10. BlockSize * Cardinality(E) \in Nat
    BY <1>6, Sizes
  <1>11. BlockSize * Cardinality(E) <= Cardinality(L)
    <2>1. CASE E = {}
      <3>1. Cardinality(E) = 0
        BY <1>6, <2>1
      <3>2. BlockSize * Cardinality(E) = 0
        BY <3>1, Sizes
      <3>3. QED
        BY <1>6, <3>2
    <2>2. CASE E # {}
      BY <1>6, <1>9, <1>10, <2>2
    <2>3. QED
      BY <2>1, <2>2
  <1>12. QED
    BY <1>6, <1>8, <1>10, <1>11 DEF E, L

(* Every element seen so far is in a block or in a buffer.                 *)
ClassAccount ==
    /\ buffers \in [Thread -> [Bucket -> Nat]]
    /\ \A u \in Thread : pc[u] = "classify" => \A c \in Bucket : buffers[u][c] = 0
    /\ \A c \in Bucket :
         InBuffers(c) + BlockSize * Cardinality(Blocks(SeenBy(Classified), c))
           = Cardinality(Labelled(SeenBy(Classified), c))

(* A thread that classifies its stripe accounts for all its elements.      *)
LEMMA ClassifyAccount ==
    ASSUME ClassInv, ClassAccount, NEW t \in Thread, Classify(t)
    PROVE  ClassAccount'
  <1> DEFINE C == Classified
             S == SeenBy(C)
             M == Mine(t)
  <1>1. /\ GoodInput /\ DOMAIN a = Pos /\ DOMAIN firstBlock = Thread /\ DOMAIN firstEmpty = Thread
        /\ pc \in [Thread -> {"classify", "classified"}] /\ pc[t] = "classify"
        /\ T \in Nat /\ \A p \in Mine(t) : a[p] = Label(p)
    BY DEF ClassInv, Classify, GoodInput
  <1>2. /\ input' = input /\ pc' = [pc EXCEPT ![t] = "classified"]
        /\ buffers' = [buffers EXCEPT ![t] = [b \in Bucket |-> Buffered(t, b)]]
    BY DEF Classify, Goto
  <1>3. /\ Thread' = Thread /\ Bucket' = Bucket
        /\ \A u : Mine(u)' = Mine(u) /\ Label(u)' = Label(u)
        /\ \A X : SeenBy(X)' = SeenBy(X)
    BY <1>2 DEF Thread, Bucket, NumBuckets, T, N, MyBegin, MyEnd, Mine, StripeAt, Label, SeenBy
  <1>4. \A p \in Pos : p \notin M => a'[p] = a[p]
    BY <1>1, ClassifyStripe
  <1>5. C \in SUBSET Thread /\ t \notin C /\ Classified' = C \cup {t}
    BY <1>1, <1>2, <1>3 DEF Classified
  <1>6. /\ SeenBy(C \cup {t}) = S \cup M /\ S \cap M = {} /\ S \subseteq Pos /\ M \subseteq Pos
    BY <1>1, <1>5, OneMore
  <1>7. IsFiniteSet(Pos)
    BY <1>1, PosFinite
  <1>8. \A c \in Bucket : Buffered(t, c) \in Nat
    BY <1>1, StripeAccount
  <1>9. buffers' \in [Thread -> [Bucket -> Nat]]
    BY <1>2, <1>8 DEF ClassAccount
  <1>10. \A u \in Thread : pc'[u] = "classify" => \A c \in Bucket : buffers'[u][c] = 0
    BY <1>1, <1>2 DEF ClassAccount
  <1>11. ASSUME NEW c \in Bucket
         PROVE  (InBuffers(c) + BlockSize * Cardinality(Blocks(SeenBy(Classified), c))
                   = Cardinality(Labelled(SeenBy(Classified), c)))'
    <2> DEFINE E1 == Blocks(S, c)
               E2 == Blocks(M, c)'
               L1 == Labelled(S, c)
               L2 == Labelled(M, c)
    <2>1. SeenBy(Classified)' = S \cup M
      BY <1>3, <1>5, <1>6
    <2>2. E2 = {p \in M : p % BlockSize = 0 /\ a'[p] = c}
      BY <1>3 DEF Blocks
    <2>3. E1 \in SUBSET Pos /\ E2 \in SUBSET Pos /\ L1 \in SUBSET Pos /\ L2 \in SUBSET Pos
          /\ E1 \cap E2 = {} /\ L1 \cap L2 = {}
      BY <1>6, <2>2 DEF Blocks, Labelled
    <2>4. Blocks(SeenBy(Classified), c)' = E1 \cup E2
      <3>1. \A p \in S : a'[p] = a[p]
        BY <1>4, <1>6
      <3>2. QED
        BY <2>1, <2>2, <3>1 DEF Blocks
    <2>5. Labelled(SeenBy(Classified), c)' = L1 \cup L2
      BY <1>3, <2>1 DEF Labelled
    <2>6. InBuffers(c) + BlockSize * Cardinality(E1) = Cardinality(L1)
      BY DEF ClassAccount
    <2>7. Buffered(t, c) \in Nat /\ Buffered(t, c) + BlockSize * Cardinality(E2) = Cardinality(L2)
      BY <1>1, StripeAccount
    <2>8. /\ InBuffers(c) \in Nat /\ InBuffers(c)' \in Nat
          /\ InBuffers(c)' = (InBuffers(c) - buffers[t][c]) + buffers'[t][c]
      <3>1. \A u \in Thread : u # t => buffers'[u][c] = buffers[u][c]
        BY <1>2 DEF ClassAccount
      <3>2. QED
        <4>1. buffers \in [Thread -> [Bucket -> Nat]]
          BY DEF ClassAccount
        <4>3. T \in Nat /\ Thread' = Thread
          BY <1>1, <1>3
        <4>2. QED
          BY <1>9, <3>1, <4>1, <4>3, BufferChanges
    <2>9. buffers[t][c] = 0 /\ buffers'[t][c] = Buffered(t, c)
      BY <1>1, <1>2 DEF ClassAccount
    <2> HIDE DEF E1, E2, L1, L2
    <2> DEFINE e1 == Cardinality(E1)
               e2 == Cardinality(E2)
               l1 == Cardinality(L1)
               l2 == Cardinality(L2)
               n == InBuffers(c)
               k == Buffered(t, c)
    <2>10. /\ e1 \in Nat /\ e2 \in Nat /\ l1 \in Nat /\ l2 \in Nat
           /\ Cardinality(E1 \cup E2) = e1 + e2 /\ Cardinality(L1 \cup L2) = l1 + l2
      BY <1>7, <2>3, Cards
    <2>11. InBuffers(c)' = n + k /\ n \in Nat /\ k \in Nat
      BY <2>7, <2>8, <2>9
    <2>12. n + BlockSize * e1 = l1 /\ k + BlockSize * e2 = l2
      BY <2>6, <2>7
    <2>13. (n + k) + BlockSize * (e1 + e2) = l1 + l2
      <3> HIDE DEF e1, e2, l1, l2, n, k
      <3>1. BlockSize * (e1 + e2) = BlockSize * e1 + BlockSize * e2
            /\ BlockSize * e1 \in Nat /\ BlockSize * e2 \in Nat
        BY <2>10, Sizes
      <3>2. QED
        BY <2>10, <2>11, <2>12, <3>1
    <2>14. QED
      BY <2>4, <2>5, <2>10, <2>11, <2>13
  <1>12. QED
    BY <1>3, <1>9, <1>10, <1>11 DEF ClassAccount

(* Once all stripes are classified the full blocks of a bucket and the     *)
(* buffers hold all its elements.                                          *)
MoveAccount ==
    /\ buffers \in [Thread -> [Bucket -> Nat]]
    /\ \A c \in Bucket : InBuffers(c) + BlockSize * Cardinality(FullBlocksOf(c)) = Size(c)

(* Nothing is saved or published before the permutation is over.           *)
Untouched ==
    /\ sharedOverflow = -1
    /\ saved = [t \in Thread |-> [bucket |-> -1, count |-> 0]]

EarlyAccount ==
    /\ Untouched
    /\ \/ pc \in [Thread -> {"classify", "classified"}] /\ ClassAccount
       \/ pc \in [Thread -> Moving] /\ MoveAccount

(* Buffers nobody touches hold what they held.                             *)
LEMMA SameBuffers ==
    ASSUME Thread' = Thread, buffers' = buffers
    PROVE  \A c : InBuffers(c)' = InBuffers(c)
  BY DEF InBuffers

LEMMA AccountToMove ==
    ASSUME ClassInv, ClassAccount, \A t \in Thread : pc[t] = "classified",
           UNCHANGED <<input, a, bucketStart, buffers>>
    PROVE  MoveAccount'
  <1>1. /\ Thread' = Thread /\ Bucket' = Bucket /\ N' = N
        /\ \A c : Size(c)' = Size(c) /\ FullBlocksOf(c)' = FullBlocksOf(c)
    BY DEF Thread, Bucket, T, N, NumBuckets, Size, FullBlocksOf
  <1>2. Classified = Thread /\ SeenBy(Thread) = Pos
    BY AllSeen DEF Classified, ClassInv
  <1>3. SeenBy(Classified) = Pos
    BY <1>2
  <1>4. \A c \in Bucket : FullBlocksOf(c) = Blocks(Pos, c) /\ Size(c) = Cardinality(Labelled(Pos, c))
    BY ClassDone
  <1>5. \A c \in Bucket : InBuffers(c) + BlockSize * Cardinality(FullBlocksOf(c)) = Size(c)
    BY <1>3, <1>4 DEF ClassAccount
  <1>6. \A c : InBuffers(c)' = InBuffers(c)
    BY <1>1, SameBuffers
  <1>7. buffers' \in [Thread -> [Bucket -> Nat]]
    BY DEF ClassAccount
  <1>8. QED
    BY <1>1, <1>5, <1>6, <1>7 DEF MoveAccount

LEMMA MoveAccountKept ==
    ASSUME MoveAccount, SameFulls, UNCHANGED <<input, bucketStart, buffers>>
    PROVE  MoveAccount'
  <1>1. /\ Thread' = Thread /\ Bucket' = Bucket /\ \A c : Size(c)' = Size(c)
    BY DEF Thread, Bucket, T, NumBuckets, Size
  <1>2. \A c : InBuffers(c)' = InBuffers(c)
    BY <1>1, SameBuffers
  <1>3. \A c \in Bucket : Cardinality(FullBlocksOf(c)') = Cardinality(FullBlocksOf(c))
    BY DEF SameFulls
  <1>4. QED
    BY <1>1, <1>2, <1>3 DEF MoveAccount

(* Steps up to the barrier before the permutation keep the accounts.       *)
LEMMA EarlyAccountStep ==
    ASSUME EarlyInv, EarlyAccount, [Next]_vars, ~(Barriers /\ Barrier("moved", "pick"))
    PROVE  EarlyAccount'
  <1> DEFINE Same == UNCHANGED <<input, sharedOverflow, saved>>
  <1>0. ASSUME Same PROVE Thread' = Thread /\ Bucket' = Bucket /\ Untouched'
    <2>1. Thread' = Thread /\ Bucket' = Bucket
      BY <1>0 DEF Thread, Bucket, T, NumBuckets
    <2>2. QED
      BY <1>0, <2>1 DEF Untouched, EarlyAccount
  <1> HIDE DEF Same
  <1>1. CASE ClassInv
    <2>1. 0 \in Thread /\ pc \in [Thread -> {"classify", "classified"}]
      BY <1>1 DEF ClassInv, GoodInput, Thread
    <2>2. ClassAccount
      <3>1. ~(pc \in [Thread -> Moving])
        BY <2>1 DEF Moving
      <3>2. QED
        BY <3>1 DEF EarlyAccount
    <2>3. CASE UNCHANGED vars
      <3>1. Same /\ UNCHANGED <<input, a, bucketStart, pc, buffers>>
        BY <2>3 DEF vars, Same
      <3>2. Thread' = Thread /\ Bucket' = Bucket /\ Untouched'
        BY <1>0, <3>1
      <3>3. \A u : Mine(u)' = Mine(u)
        BY <3>1 DEF Mine, MyBegin, MyEnd, StripeAt, T, N
      <3>4. Classified' = Classified
        BY <3>1, <3>2 DEF Classified
      <3>5. SeenBy(Classified)' = SeenBy(Classified)
        BY <3>3, <3>4 DEF SeenBy
      <3>6. \A c : /\ Blocks(SeenBy(Classified), c)' = Blocks(SeenBy(Classified), c)
                   /\ Labelled(SeenBy(Classified), c)' = Labelled(SeenBy(Classified), c)
        BY <3>1, <3>5 DEF Blocks, Labelled, Label
      <3>7. \A c : InBuffers(c)' = InBuffers(c)
        BY <3>1, <3>2, SameBuffers
      <3>8. ClassAccount'
        BY <2>2, <3>1, <3>2, <3>6, <3>7 DEF ClassAccount
      <3>9. QED
        BY <2>1, <3>1, <3>2, <3>8 DEF EarlyAccount
    <2>4. CASE Barriers
      <3>1. Barrier("classified", "move")
        BY <2>1, <2>4 DEF Barriers, Barrier
      <3>2. Same /\ UNCHANGED <<input, a, bucketStart, buffers>>
        BY <2>4 DEF Barriers, mvars, Same
      <3>3. MoveAccount'
        BY <1>1, <2>2, <3>1, <3>2, AccountToMove DEF Barrier
      <3>4. Thread' = Thread /\ Untouched'
        BY <1>0, <3>2
      <3>5. pc' \in [Thread -> Moving]
        BY <3>1 DEF Barrier, Moving
      <3>6. QED
        BY <3>3, <3>4, <3>5 DEF EarlyAccount, Moving
    <2>5. ASSUME NEW t \in Thread, Step(t) PROVE EarlyAccount'
      <3>1. pc[t] \in {"classify", "classified"}
        BY <2>1
      <3>2. CASE Classify(t)
        <4>1. Same /\ pc' = [pc EXCEPT ![t] = "classified"]
          BY <3>2 DEF Classify, Same, Goto
        <4>2. ClassAccount'
          BY <1>1, <2>2, <3>2, ClassifyAccount
        <4>3. Thread' = Thread /\ Untouched'
          BY <1>0, <4>1
        <4>4. pc' \in [Thread -> {"classify", "classified"}]
          BY <2>1, <4>1
        <4>5. QED
          BY <4>2, <4>3, <4>4 DEF EarlyAccount
      <3>3. CASE SetPointers(t)
        <4>1. /\ T = 1 /\ pc[t] = "classified" /\ pc' = [pc EXCEPT ![t] = "moved"]
              /\ Same /\ UNCHANGED <<input, a, bucketStart, buffers>>
          BY <3>3 DEF SetPointers, Goto, mvars, Same
        <4>2. Thread = {t}
          BY <4>1 DEF Thread
        <4>3. MoveAccount'
          BY <1>1, <2>2, <4>1, <4>2, AccountToMove
        <4>4. Thread' = Thread /\ Untouched'
          BY <1>0, <4>1
        <4>5. pc' \in [Thread -> Moving]
          BY <2>1, <4>1, <4>2 DEF Moving
        <4>6. QED
          BY <4>3, <4>4, <4>5 DEF EarlyAccount, Moving
      <3>4. ~StartMove(t) /\ ~MoveBlocks(t) /\ ~EndMove(t)
        BY <3>1 DEF StartMove, MoveBlocks, EndMove
      <3>5. ~PermuteBlocks(t)
        BY <3>1 DEF PermuteBlocks, PermuteStep, StartRead, DecRead, ReadBlock, StopRead,
                    NextBucket, IncWrite, WaitForReaders, WriteBlock, LookAtBlock
      <3>6. ~Publish(t) /\ ~SaveMargins(t) /\ ~WriteMargin(t) /\ ~EndMargins(t)
        BY <3>1 DEF Publish, SaveMargins, WriteMargin, EndMargins
      <3>7. QED
        BY <2>5, <3>2, <3>3, <3>4, <3>5, <3>6 DEF Step
    <2>6. CASE Stop
      BY <2>3, <2>6 DEF Stop
    <2>7. QED
      BY <2>3, <2>4, <2>5, <2>6 DEF Next
  <1>2. CASE MoveInv
    <2>1. 0 \in Thread /\ pc \in [Thread -> Moving]
      BY <1>2 DEF MoveInv, Layout, GoodInput, Thread
    <2>2. MoveAccount
      <3>1. ~(pc \in [Thread -> {"classify", "classified"}])
        BY <2>1 DEF Moving
      <3>2. QED
        BY <3>1 DEF EarlyAccount
    <2>3. ASSUME Same, SameFulls, UNCHANGED <<input, bucketStart, buffers>>, pc' \in [Thread -> Moving]
          PROVE  EarlyAccount'
      <3>1. MoveAccount'
        BY <2>2, <2>3, MoveAccountKept
      <3>2. Thread' = Thread /\ Untouched'
        BY <1>0, <2>3
      <3>3. QED
        BY <2>3, <3>1, <3>2 DEF EarlyAccount, Moving
    <2>4. ASSUME UNCHANGED <<input, a>> PROVE SameFulls
      BY <2>4 DEF SameFulls, FullBlocksOf, N
    <2>5. CASE UNCHANGED vars
      <3>1. Same /\ UNCHANGED <<input, a, bucketStart, buffers, pc>>
        BY <2>5 DEF vars, Same
      <3>2. QED
        BY <2>1, <2>3, <2>4, <3>1
    <2>6. ~Barriers
      <3>1. Barriers => Barrier("moved", "pick")
        BY <2>1 DEF Barriers, Barrier, Moving
      <3>2. QED
        BY <3>1
    <2>7. ASSUME NEW t \in Thread, Step(t) PROVE EarlyAccount'
      <3>1. pc[t] \in Moving
        BY <2>1
      <3>2. CASE StartMove(t)
        <4>1. Same /\ UNCHANGED <<input, a, bucketStart, buffers>> /\ pc' \in [Thread -> Moving]
          BY <2>1, <3>2 DEF StartMove, Goto, Moving, Same
        <4>2. QED
          BY <2>3, <2>4, <4>1
      <3>3. CASE MoveBlocks(t)
        <4>1. Same /\ UNCHANGED <<input, bucketStart, buffers, pc>>
          BY <3>3 DEF MoveBlocks, Same
        <4>2. SameFulls
          BY <1>2, <3>3, MoveBlocksStep
        <4>3. QED
          BY <2>1, <2>3, <4>1, <4>2
      <3>4. CASE EndMove(t)
        <4>1. Same /\ UNCHANGED <<input, a, bucketStart, buffers>> /\ pc' \in [Thread -> Moving]
          BY <2>1, <3>4 DEF EndMove, Goto, Moving, Same
        <4>2. QED
          BY <2>3, <2>4, <4>1
      <3>5. ~Classify(t) /\ ~SetPointers(t)
        BY <3>1 DEF Moving, Classify, SetPointers
      <3>6. ~PermuteBlocks(t)
        BY <3>1 DEF Moving, PermuteBlocks, PermuteStep, StartRead, DecRead, ReadBlock, StopRead,
                    NextBucket, IncWrite, WaitForReaders, WriteBlock, LookAtBlock
      <3>7. ~Publish(t) /\ ~SaveMargins(t) /\ ~WriteMargin(t) /\ ~EndMargins(t)
        BY <3>1 DEF Moving, Publish, SaveMargins, WriteMargin, EndMargins
      <3>8. QED
        BY <2>7, <3>2, <3>3, <3>4, <3>5, <3>6, <3>7 DEF Step
    <2>8. CASE Stop
      BY <2>5, <2>8 DEF Stop
    <2>9. QED
      BY <2>5, <2>6, <2>7, <2>8 DEF Next
  <1>3. QED
    BY <1>1, <1>2 DEF EarlyInv

(* A step begins with nothing buffered.                                    *)
LEMMA AccountInit == Init => EarlyAccount
  <1> SUFFICES ASSUME Init PROVE EarlyAccount
    OBVIOUS
  <1>1. GoodInput
    BY InputIsGood DEF Init
  <1>2. pc = [t \in Thread |-> "classify"] /\ buffers = [t \in Thread |-> [b \in Bucket |-> 0]]
        /\ Untouched
    BY DEF Init, Untouched
  <1>3. Classified = {}
    BY <1>2 DEF Classified
  <1>4. SeenBy(Classified) = {}
    BY <1>3 DEF SeenBy
  <1>5. ASSUME NEW c \in Bucket
        PROVE  InBuffers(c) + BlockSize * Cardinality(Blocks(SeenBy(Classified), c))
                 = Cardinality(Labelled(SeenBy(Classified), c))
    <2>1. Blocks(SeenBy(Classified), c) = {} /\ Labelled(SeenBy(Classified), c) = {}
      BY <1>4 DEF Blocks, Labelled
    <2>2. InBuffers(c) = 0
      BY <1>1, <1>2, BuffersEmpty DEF GoodInput
    <2>3. BlockSize * 0 = 0
      BY Sizes
    <2>4. QED
      BY <2>1, <2>2, <2>3, FS_EmptySet
  <1>6. ClassAccount
    BY <1>2, <1>5 DEF ClassAccount
  <1>7. QED
    BY <1>2, <1>6 DEF EarlyAccount

(* Among places in order one comes last before any place between the first *)
(* and the last of them.                                                   *)
LEMMA Cover ==
    ASSUME NEW n \in Nat, NEW f, \A b \in 0 .. n : f[b] \in Int, NEW p \in Int, f[0] <= p, p < f[n]
    PROVE  \E b \in 0 .. n - 1 : f[b] <= p /\ p < f[b + 1]
  <1> DEFINE S == {b \in 0 .. n : f[b] <= p}
  <1>1. S \in SUBSET Int /\ 0 \in S /\ S \subseteq 0 .. n
    OBVIOUS
  <1>2. IsFiniteSet(S)
    <2>1. 0 \in Int /\ n \in Int
      OBVIOUS
    <2>2. IsFiniteSet(0 .. n)
      BY <2>1, FS_Interval
    <2> HIDE DEF S
    <2>3. QED
      BY <1>1, <2>2, FS_Subset
  <1>3. PICK m \in S : \A q \in S : q <= m
    BY <1>1, <1>2, LastPlace
  <1>4. m \in 0 .. n /\ f[m] <= p /\ m # n
    <2>1. m \in 0 .. n /\ f[m] <= p
      OBVIOUS
    <2>2. m # n
      BY <2>1
    <2>3. QED
      BY <2>1, <2>2
  <1>5. m \in 0 .. n - 1 /\ m + 1 \in 0 .. n /\ ~(m + 1 <= m)
    BY <1>4
  <1>6. m + 1 \notin S
    BY <1>3, <1>5
  <1>7. p < f[m + 1]
    BY <1>5, <1>6
  <1>8. QED
    BY <1>4, <1>5, <1>7

(* The accounts of the permutation: the blocks of a bucket, wherever they  *)
(* are, and the buffers hold all its elements; and who has an overflow     *)
(* block has published it.                                                 *)
PermAccount ==
    /\ bucketStart[0] = 0 /\ bucketStart[NumBuckets] = N
    /\ buffers \in [Thread -> [Bucket -> Nat]]
    /\ saved = [t \in Thread |-> [bucket |-> -1, count |-> 0]]
    /\ \A c \in Bucket : Taken(c) + InBuffers(c) = Size(c)
    /\ sharedOverflow = -1 \/ (sharedOverflow \in Thread /\ overflow[sharedOverflow] # <<>>)
    /\ \A t \in Thread : pc[t] = "published" /\ overflow[t] # <<>> => sharedOverflow = t

(* When the permutation begins every full block is between the pointers of *)
(* its area.                                                               *)
LEMMA AllUnread ==
    ASSUME Layout, FullBlocksFirst, \A t \in Thread : pc[t] = "moved", NEW c \in Bucket
    PROVE  FullBlocksOf(c) \subseteq Unread(c)
  <1> SUFFICES ASSUME NEW p \in FullBlocksOf(c) PROVE p \in Unread(c)
    OBVIOUS
  <1>1. /\ N \in Nat /\ NumBuckets \in Nat \ {0} /\ bucketStart[0] = 0 /\ bucketStart[NumBuckets] = N
        /\ \A b \in 0 .. NumBuckets : bucketStart[b] \in Nat
    <2>1. \A b \in 0 .. NumBuckets : b <= b
      BY DEF Layout, GoodInput
    <2>2. QED
      BY <2>1 DEF Layout, GoodInput
  <1>2. p \in 0 .. N - 1 /\ IsBlock(p) /\ a[p] = c /\ p \in Int
    BY <1>1 DEF FullBlocksOf, IsBlock
  <1>3. PICK b \in 0 .. NumBuckets - 1 : BlockStart(b) <= p /\ p < BlockStart(b + 1)
    <2> DEFINE f == [b \in 0 .. NumBuckets |-> BlockStart(b)]
    <2>1. \A b \in 0 .. NumBuckets : f[b] \in Int
      BY <1>1, AlignRight DEF BlockStart
    <2>2. 0 \in 0 .. NumBuckets /\ NumBuckets \in 0 .. NumBuckets
      BY <1>1
    <2>3. f[0] <= p
      <3>1. f[0] = Align(0) /\ 0 \in Nat
        BY <1>1, <2>2 DEF BlockStart
      <3>2. 0 <= Align(0) /\ Align(0) < 0 + BlockSize /\ IsBlock(Align(0)) /\ Align(0) \in Int
        BY AlignRight DEF IsBlock
      <3>3. Align(0) <= 0
        <4>1. IsBlock(0)
          BY Sizes DEF IsBlock
        <4>2. SUFFICES ASSUME 0 < Align(0) PROVE FALSE
          BY <3>2
        <4>3. 0 + BlockSize <= Align(0)
          BY <3>2, <4>1, <4>2, BlocksApart
        <4>4. QED
          BY <3>2, <4>3, Sizes
      <3>4. QED
        BY <1>2, <3>1, <3>2, <3>3
    <2>4. p < f[NumBuckets]
      <3>1. f[NumBuckets] = Align(N)
        BY <1>1, <2>2 DEF BlockStart
      <3>2. N <= Align(N) /\ Align(N) \in Int
        BY <1>1, AlignRight
      <3>3. QED
        BY <1>1, <1>2, <3>1, <3>2
    <2>5. NumBuckets \in Nat /\ \A b \in 0 .. NumBuckets - 1 : b \in 0 .. NumBuckets /\ b + 1 \in 0 .. NumBuckets
      BY <1>1
    <2>6. \E b \in 0 .. NumBuckets - 1 : f[b] <= p /\ p < f[b + 1]
      <3> HIDE DEF f
      <3>1. QED
        BY <1>2, <2>1, <2>3, <2>4, <2>5, Cover
    <2>7. QED
      BY <2>5, <2>6
  <1>4. b \in Bucket /\ b \in 0 .. NumBuckets /\ b + 1 \in 0 .. NumBuckets
    BY <1>1 DEF Bucket
  <1>5. PICK stop \in BlockStart(b) .. BlockStart(b + 1) :
           stop % BlockSize = 0 /\ ptr[b] = PtrAt(b, stop) /\ BlocksThenEmpty(b, stop)
    BY <1>4 DEF FullBlocksFirst
  <1>6. BlockStart(b) \in Int /\ BlockStart(b + 1) \in Int /\ stop \in Int /\ IsBlock(stop)
    <2>1. BlockStart(b) \in Int /\ BlockStart(b + 1) \in Int
      BY <1>1, <1>4, AlignRight DEF BlockStart
    <2>2. QED
      BY <1>5, <2>1 DEF IsBlock
  <1>7. p < stop
    <2>1. p \in Area(b)
      BY <1>2, <1>3, <1>6 DEF Area
    <2>2. c # Gone
      BY <1>1 DEF Bucket, Gone
    <2>3. QED
      BY <1>1, <1>2, <1>5, <2>1, <2>2 DEF BlocksThenEmpty
  <1>8. p + BlockSize <= stop
    BY <1>2, <1>6, <1>7, BlocksApart
  <1>9. ptr[b].w = BlockStart(b) /\ ptr[b].r = stop - BlockSize
    BY <1>5 DEF PtrAt
  <1>10. Between(b, p)
    BY <1>2, <1>3, <1>6, <1>8, <1>9, Sizes DEF Between
  <1>11. QED
    BY <1>2, <1>4, <1>10 DEF Unread

(* So all elements are accounted for at the start of the permutation.      *)
LEMMA AccountBegins ==
    ASSUME BeforePermutation, EarlyInv, EarlyAccount, FullBlocksFirst, Barrier("moved", "pick"),
           UNCHANGED <<input, a, bucketStart, ptr, reading, swap, overflow, me, mvars>>
    PROVE  PermAccount' /\ Progress'
  <1>1. /\ Team /\ 0 \in Thread /\ \A t \in Thread : pc[t] = "moved"
        /\ pc' = [t \in Thread |-> "pick"]
    BY SomeThread DEF BeforePermutation, Barrier
  <1>2. MoveInv /\ MoveAccount /\ Untouched /\ Layout
    BY <1>1 DEF EarlyInv, EarlyAccount, ClassInv, MoveInv
  <1>3. /\ Thread' = Thread /\ Bucket' = Bucket /\ N' = N /\ NumBuckets' = NumBuckets
        /\ \A b : Size(b)' = Size(b) /\ AreaStart(b)' = AreaStart(b) /\ AreaEnd(b)' = AreaEnd(b)
    BY SameShape
  <1>4. /\ ptr' = ptr /\ a' = a /\ overflow' = overflow /\ me' = me /\ bucketStart' = bucketStart
        /\ buffers' = buffers /\ saved' = saved /\ sharedOverflow' = sharedOverflow
    BY DEF mvars
  <1>5. \A b \in Bucket : ptr[b].w = AreaStart(b) /\ AreaStart(b) \in Nat
    <2> SUFFICES ASSUME NEW b \in Bucket PROVE ptr[b].w = AreaStart(b) /\ AreaStart(b) \in Nat
      OBVIOUS
    <2>1. PICK stop \in BlockStart(b) .. BlockStart(b + 1) : ptr[b] = PtrAt(b, stop)
      BY <1>1 DEF FullBlocksFirst
    <2>2. b \in 0 .. NumBuckets /\ b <= b /\ N \in Nat
      BY <1>1 DEF Bucket, Team
    <2>3. bucketStart[b] \in Nat
      BY <1>2, <2>2 DEF Layout
    <2>4. QED
      BY <2>1, <2>3, AlignRight DEF PtrAt, BlockStart, AreaStart
  <1>6. ASSUME NEW c \in Bucket
        PROVE  (Taken(c) + InBuffers(c) = Size(c))'
    <2>1. Carriers(c)' = {}
      BY <1>1, <1>3 DEF Carriers, Carries
    <2>2. Unread(c)' = Unread(c)
      BY <1>3, <1>4 DEF Unread, Between, IsBlock
    <2>3. Unread(c) = FullBlocksOf(c)
      <3>1. Unread(c) \subseteq FullBlocksOf(c)
        BY DEF Unread, FullBlocksOf, Between, IsBlock
      <3>2. QED
        BY <1>1, <1>2, <3>1, AllUnread
    <2>4. Cardinality(FullBlocksOf(c)) \in Nat
      <3>1. FullBlocksOf(c) \in SUBSET Pos /\ IsFiniteSet(Pos)
        BY <1>2, PosFinite DEF FullBlocksOf, Pos, Layout
      <3>2. QED
        BY <3>1, FS_Subset, FS_CardinalityType
    <2>5. Left(c)' = Cardinality(FullBlocksOf(c))
      BY <2>1, <2>2, <2>3, <2>4, FS_EmptySet DEF Left
    <2>6. Taken(c)' = BlockSize * Cardinality(FullBlocksOf(c))
      <3>1. ptr'[c].w = AreaStart(c)' /\ AreaStart(c)' \in Nat
        BY <1>3, <1>4, <1>5
      <3>2. BlockSize * Cardinality(FullBlocksOf(c)) \in Int
        BY <2>4, Sizes
      <3>3. QED
        BY <2>5, <3>1, <3>2 DEF Taken
    <2>7. InBuffers(c)' = InBuffers(c)
      BY <1>3, <1>4, SameBuffers
    <2>8. InBuffers(c) \in Nat
      BY <1>1, <1>2, BuffersNat DEF Team, MoveAccount
    <2>9. InBuffers(c) + BlockSize * Cardinality(FullBlocksOf(c)) = Size(c)
      BY <1>2 DEF MoveAccount
    <2>10. BlockSize * Cardinality(FullBlocksOf(c)) \in Nat
      BY <2>4, Sizes
    <2>11. QED
      BY <1>3, <2>6, <2>7, <2>8, <2>9, <2>10
  <1>7. PermAccount'
    <2>1. bucketStart'[0] = 0 /\ bucketStart'[NumBuckets'] = N'
      BY <1>2, <1>3, <1>4 DEF Layout
    <2>2. buffers' \in [Thread' -> [Bucket' -> Nat]]
      BY <1>2, <1>3, <1>4 DEF MoveAccount
    <2>3. saved' = [t \in Thread' |-> [bucket |-> -1, count |-> 0]] /\ sharedOverflow' = -1
      BY <1>2, <1>3, <1>4 DEF Untouched
    <2>4. \A t \in Thread : pc'[t] # "published"
      BY <1>1
    <2>5. QED
      BY <1>3, <1>6, <2>1, <2>2, <2>3, <2>4 DEF PermAccount
  <1>8. PassedOK'
    <2>1. ASSUME NEW c \in Bucket, NEW p, Passed(p, c)' PROVE FALSE
      <3>1. p \in Int /\ AreaStart(c) <= p /\ p + BlockSize <= ptr[c].w
        BY <1>3, <1>4, <2>1 DEF Passed, Within, IsBlock
      <3>2. QED
        BY <1>5, <3>1, Sizes
    <2>2. QED
      BY <1>3, <2>1 DEF PassedOK
  <1>9. RoundsOK'
    <2> SUFFICES ASSUME NEW t \in Thread PROVE RoundOK(t)'
      BY <1>3 DEF RoundsOK
    <2>1. me'[t] = AtStart(t)
      BY <1>4 DEF BeforePermutation
    <2>2. me'[t].left = NumBuckets /\ me'[t].bucket = StartBucket(t) /\ NumBuckets \in Nat /\ NumBuckets > 0
      BY <1>1, <2>1 DEF AtStart, Team
    <2>3. StartBucket(t) \in Bucket
      <3>1. /\ t \in Nat /\ T \in Nat /\ T > 0
        BY <1>1 DEF Team, Thread
      <3>2. t * NumBuckets \in Nat
        BY <2>2, <3>1
      <3>3. (t * NumBuckets) \div T \in Int
        BY <3>1, <3>2
      <3>4. ((t * NumBuckets) \div T) % NumBuckets \in 0 .. NumBuckets - 1
        BY <2>2, <3>3
      <3>5. QED
        BY <3>4 DEF StartBucket, Bucket
    <2>4. pc'[t] = "pick"
      BY <1>1
    <2>5. \A c \in Bucket : Ahead(StartBucket(t), c) < NumBuckets
      BY <2>2, <2>3 DEF Ahead, Bucket
    <2>6. \A b, c : Ahead(b, c)' = Ahead(b, c)
      BY <1>3 DEF Ahead
    <2> HIDE DEF Ahead
    <2>7. \A c \in Bucket : Ahead(me[t].bucket, c)' < me'[t].left
      BY <1>3, <2>2, <2>5 DEF Ahead
    <2>8. QED
      BY <1>3, <2>2, <2>4, <2>7 DEF RoundOK
  <1>10. QED
    BY <1>7, <1>8, <1>9 DEF Progress

(* Steps of the permutation that give up no overflow block keep its        *)
(* accounts.                                                               *)
LEMMA PermAccountKept ==
    ASSUME PermAccount, SameTaken, UNCHANGED <<input, bucketStart, buffers, saved>>,
           sharedOverflow' = -1 \/ (sharedOverflow' \in Thread /\ overflow'[sharedOverflow'] # <<>>),
           \A t \in Thread : pc'[t] = "published" /\ overflow'[t] # <<>> => sharedOverflow' = t
    PROVE  PermAccount'
  <1>1. /\ Thread' = Thread /\ Bucket' = Bucket /\ N' = N /\ NumBuckets' = NumBuckets
        /\ \A c : Size(c)' = Size(c)
    BY SameShape
  <1>2. \A c : InBuffers(c)' = InBuffers(c)
    BY <1>1, SameBuffers
  <1>3. \A c \in Bucket : (Taken(c) + InBuffers(c) = Size(c))'
    BY <1>1, <1>2 DEF PermAccount, SameTaken
  <1>4. QED
    BY <1>1, <1>3 DEF PermAccount

LEMMA PermuteAccount ==
    ASSUME PermInv, PermAccount, NEW t \in Thread, PermuteStep(t), UNCHANGED mvars
    PROVE  PermAccount'
  <1>1. Types /\ ThreadOK(t) /\ SameTaken
    BY PermuteStepKeeps DEF PermInv, Threads
  <1>2. UNCHANGED <<input, bucketStart, buffers, saved, sharedOverflow>>
    BY DEF mvars, PermuteStep, StartRead, DecRead, ReadBlock, StopRead, NextBucket, IncWrite,
           WaitForReaders, WriteBlock, LookAtBlock
  <1>3. /\ pc[t] # "published" /\ pc'[t] # "published"
        /\ \A u \in Thread \ {t} : pc'[u] = pc[u] /\ overflow'[u] = overflow[u]
    <2>1. CASE StartRead(t) \/ DecRead(t) \/ ReadBlock(t) \/ StopRead(t) \/ NextBucket(t)
      BY <1>1, <2>1 DEF StartRead, DecRead, ReadBlock, StopRead, NextBucket, Types, Goto
    <2>2. CASE IncWrite(t)
      BY <1>1, <2>2 DEF IncWrite, Types, Goto
    <2>3. CASE WaitForReaders(t) \/ WriteBlock(t) \/ LookAtBlock(t)
      BY <1>1, <2>3 DEF WaitForReaders, WriteBlock, LookAtBlock, Types, Goto
    <2>4. QED
      BY <2>1, <2>2, <2>3 DEF PermuteStep
  <1>4. overflow[t] # <<>> => overflow'[t] # <<>>
    <2>1. CASE IncWrite(t)
      <3>1. Held(t) = BlockOf(me[t].dest)
        BY <1>1, <2>1 DEF IncWrite, ThreadOK
      <3>2. overflow' = [overflow EXCEPT ![t] = Held(t)] \/ overflow' = overflow
        BY <2>1 DEF IncWrite
      <3>3. QED
        BY <1>1, <3>1, <3>2, BlockNotEmpty DEF Types
    <2>2. CASE ~IncWrite(t)
      BY <2>2 DEF PermuteStep, StartRead, DecRead, ReadBlock, StopRead, NextBucket,
                  WaitForReaders, WriteBlock, LookAtBlock
    <2>3. QED
      BY <2>1, <2>2
  <1>5. sharedOverflow' = -1 \/ (sharedOverflow' \in Thread /\ overflow'[sharedOverflow'] # <<>>)
    BY <1>2, <1>3, <1>4 DEF PermAccount
  <1>6. \A u \in Thread : pc'[u] = "published" /\ overflow'[u] # <<>> => sharedOverflow' = u
    BY <1>2, <1>3 DEF PermAccount
  <1>7. QED
    BY <1>1, <1>2, <1>5, <1>6, PermAccountKept

(* Publishing the overflow block moves no block.                           *)
LEMMA PublishAccount ==
    ASSUME PermInv, Progress, PermAccount, NEW t \in Thread, Publish(t), T # 1
    PROVE  PermAccount' /\ Progress'
  <1>1. Types /\ Shape /\ Overflows /\ RoundOK(t)
    BY DEF PermInv, Progress, RoundsOK
  <1>2. /\ pc[t] = "permuted" /\ pc' = [pc EXCEPT ![t] = "published"]
        /\ sharedOverflow' = IF overflow[t] # <<>> THEN t ELSE sharedOverflow
        /\ UNCHANGED <<input, a, bucketStart, ptr, reading, swap, overflow>>
        /\ UNCHANGED <<buffers, saved>>
    BY DEF Publish, Goto
  <1>3. me' = me
    <2>1. me' = [me EXCEPT ![t].bucket = @]
      BY DEF Publish
    <2>2. QED
      BY <1>1, <2>1 DEF Types, Locals
  <1>4. pc'[t] = "published" /\ \A u \in Thread \ {t} : pc'[u] = pc[u] /\ me'[u] = me[u]
    BY <1>1, <1>2, <1>3 DEF Types
  <1>5. SameTaken
    <2> SUFFICES ASSUME NEW c \in Bucket PROVE Taken(c)' = Taken(c)
      BY DEF SameTaken
    <2>1. Unread(c)' = Unread(c)
      BY <1>2, SameShape DEF Unread, Between
    <2>2. \A u \in Thread \ {t} : Carries(u, c)' <=> Carries(u, c)
      BY <1>2, <1>4 DEF Carries
    <2>3. Carries(t, c)' <=> Carries(t, c)
      BY <1>2, <1>4 DEF Carries
    <2>4. QED
      BY <1>1, <1>2, <2>1, <2>2, <2>3, TakenKept
  <1>6. \A u \in Thread : pc'[u] = "published" /\ overflow[u] # <<>> => sharedOverflow' = u
    BY <1>1, <1>2, <1>4 DEF PermAccount, Overflows
  <1>7. sharedOverflow' = -1 \/ (sharedOverflow' \in Thread /\ overflow'[sharedOverflow'] # <<>>)
    BY <1>2 DEF PermAccount
  <1>8. PermAccount'
    BY <1>2, <1>5, <1>6, <1>7, PermAccountKept
  <1>9. PassedOK'
    BY <1>2, <1>4, PassedQuiet DEF Progress, Writing
  <1>10. RoundOK(t)'
    <2>1. Bucket' = Bucket /\ NumBuckets' = NumBuckets
      BY <1>2, SameShape
    <2>2. QED
      BY <1>1, <1>2, <1>3, <1>4, <2>1 DEF RoundOK, Empty, Ahead
  <1>11. RoundsOK'
    <2>1. \A b \in Bucket : /\ ptr'[b].w \in Int /\ ptr'[b].r \in Int
                            /\ ptr[b].w <= ptr'[b].w /\ ptr'[b].r <= ptr[b].r
      BY <1>1, <1>2 DEF Types
    <2>2. QED
      BY <1>2, <1>4, <1>10, <2>1, RoundsStep DEF Progress
  <1>12. QED
    BY <1>8, <1>9, <1>11 DEF Progress

-----------------------------------------------------------------------------
(* The margins                                                             *)

Owns(t, i) == FirstBucket(t) <= i /\ i < LastBucket(t)
MarginDone(t, i) == pc[t] \in {"margins", "done"} /\ i < me[t].bucket

MarginLocals == [bucket : Int, left : Int, at : Int, dest : Int, current : 1 .. 2]
MarginTypes ==
    /\ Shape /\ bucketStart[0] = 0 /\ bucketStart[NumBuckets] = N
    /\ DOMAIN a = 0 .. N - 1
    /\ DOMAIN swap = Thread /\ \A t \in Thread : DOMAIN swap[t] = 1 .. 2
    /\ DOMAIN overflow = Thread
    /\ me \in [Thread -> MarginLocals]
    /\ buffers \in [Thread -> [Bucket -> Nat]]
    /\ saved \in [Thread -> [bucket : Int, count : Nat]]

(* Threads save margins, then all write them, each its own buckets.        *)
MarginPhase ==
    /\ pc \in [Thread -> {"save", "saved"}] \/ pc \in [Thread -> {"margins", "done"}]
    /\ \A t \in Thread : pc[t] # "save" => FirstBucket(t) <= me[t].bucket
    /\ \A t \in Thread : pc[t] = "saved" => me[t].bucket = FirstBucket(t)
    /\ \A t \in Thread : pc[t] = "done" => LastBucket(t) <= me[t].bucket

(* The blocks of bucket i as the permutation left them: inside the array,  *)
(* but for the one it put into the overflow block.                         *)
BlocksLeft(i) ==
    /\ IsBlock(ptr[i].w) /\ AreaStart(i) <= ptr[i].w /\ ptr[i].w <= AreaEnd(i)
    /\ ptr[i].w = AreaStart(i) \/ ptr[i].w - AreaStart(i) < Size(i)
    /\ TakesOverflow(i) =>
          AreaStart(i) <= MaxOffset /\ ptr[i].w = MaxOffset + BlockSize /\ BlockSize < Size(i)
    /\ ~TakesOverflow(i) /\ AreaStart(i) < ptr[i].w => ptr[i].w <= N

(* The last block of bucket i goes beyond the buckets of its thread.       *)
Crosses(t, i) == Excess(i) # {} /\ bucketStart[LastBucket(t)] < ptr[i].w
Kept(i) == \A p \in Excess(i) : a[p] = i
SwapHolds(t, i) ==
    TakesSwap(t, i) /\ swap[t][1] = [k \in 1 .. ptr[i].w - bucketStart[i + 1] |-> i]
(* Where the elements behind the end of bucket i are.                      *)
ExcessKept(t, i) ==
    IF Crosses(t, i)
    THEN IF pc[t] = "save"
         THEN Kept(i) \/ (~input.trivial /\ \E u \in Thread : TakesSwap(u, i))
         ELSE SwapHolds(t, i)
    ELSE Kept(i) /\ \A u \in Thread : ~TakesSwap(u, i)

Whole(i) == \A p \in AreaStart(i) .. TailAt(i) - 1 : p < bucketStart[i + 1] => a[p] = i
(* All there is of bucket i: its blocks, its excess elements, its overflow *)
(* block, and its buffers.                                                 *)
Pending(t, i) ==
    /\ ptr[i].w - AreaStart(i) + InBuffers(i) = Size(i)
    /\ Whole(i)
    /\ TakesOverflow(i) => overflow[sharedOverflow] = BlockOf(i)
    /\ ~TakesOverflow(i) => ExcessKept(t, i)
FilledBy(i) == \A p \in bucketStart[i] .. bucketStart[i + 1] - 1 : a[p] = i

(* What a thread has saved is a margin of one of the buckets before the    *)
(* end of its own.                                                         *)
SavedMargin(u, b) ==
    /\ pc[u] # "save" /\ b < LastBucket(u) /\ bucketStart[LastBucket(u)] < ptr[b].w
    /\ Excess(b) # {} /\ ~TakesOverflow(b)

MarginBase ==
    /\ MarginTypes /\ MarginPhase
    /\ \A i \in Bucket : BlocksLeft(i)
    /\ \A u \in Thread, b \in Bucket : TakesSwap(u, b) => SavedMargin(u, b)

MarginInv ==
    /\ MarginBase
    /\ \A t \in Thread, i \in Bucket : Owns(t, i) =>
          IF MarginDone(t, i) THEN FilledBy(i) ELSE Pending(t, i)

(* No two threads move the same margin out.                                *)
MovesOnce ==
    input.trivial \/ \A b \in Bucket, t, u \in Thread : TakesSwap(t, b) /\ TakesSwap(u, b) => t = u

(* The buckets of the threads: in order, and all of them.                  *)
LEMMA OwnBuckets ==
    ASSUME Shape
    PROVE  /\ \A t \in Thread : /\ FirstBucket(t) \in 0 .. NumBuckets /\ LastBucket(t) \in 0 .. NumBuckets
                                /\ FirstBucket(t) <= LastBucket(t)
           /\ \A t, u \in Thread : t < u => LastBucket(t) <= FirstBucket(u)
           /\ \A i \in Bucket : \E t \in Thread : Owns(t, i)
  <1> DEFINE n == bucketsPerThread
  <1>1. T \in Nat /\ T > 0 /\ NumBuckets \in Nat /\ NumBuckets > 0
    BY DEF Shape
  <1>2. n \in Nat /\ NumBuckets <= T * n /\ n > 0
    <2>1. NumBuckets + T - 1 \in Nat /\ n \in Int
      BY <1>1 DEF bucketsPerThread
    <2>2. n * T <= NumBuckets + T - 1 /\ NumBuckets + T - 1 < n * T + T
      BY <1>1, <2>1 DEF bucketsPerThread
    <2>3. NumBuckets <= T * n /\ T * n = n * T
      BY <1>1, <2>1, <2>2
    <2>4. n > 0
      <3>1. SUFFICES ASSUME n <= 0 PROVE FALSE
        BY <2>1
      <3>2. T * n <= 0
        BY <1>1, <2>1, <3>1
      <3>3. T * n \in Int
        BY <1>1, <2>1
      <3>4. QED
        BY <1>1, <2>3, <3>2, <3>3
    <2>5. QED
      BY <2>1, <2>3, <2>4
  <1> HIDE DEF n
  <1>3. ASSUME NEW x \in Nat
        PROVE  /\ Min({NumBuckets, x}) \in 0 .. NumBuckets
               /\ Min({NumBuckets, x}) = IF x < NumBuckets THEN x ELSE NumBuckets
    <2>1. Min({NumBuckets, x}) = IF NumBuckets <= x THEN NumBuckets ELSE x
      BY <1>1, MaxMinOfTwo
    <2>2. QED
      BY <1>1, <2>1
  <1>4. \A t \in Thread : t \in Nat /\ t < T /\ t * n \in Nat /\ (t + 1) * n \in Nat
    BY <1>1, <1>2 DEF Thread
  <1>5. \A t \in Thread :
           /\ FirstBucket(t) = IF t * n < NumBuckets THEN t * n ELSE NumBuckets
           /\ LastBucket(t) = IF (t + 1) * n < NumBuckets THEN (t + 1) * n ELSE NumBuckets
    BY <1>3, <1>4 DEF FirstBucket, LastBucket, n
  <1>6. \A t \in Thread : /\ FirstBucket(t) \in 0 .. NumBuckets /\ LastBucket(t) \in 0 .. NumBuckets
                         /\ FirstBucket(t) <= LastBucket(t)
    <2>1. \A t \in Thread : t * n <= (t + 1) * n
      BY <1>2, <1>4
    <2>2. QED
      BY <1>1, <1>4, <1>5, <2>1
  <1>7. ASSUME NEW t \in Thread, NEW u \in Thread, t < u
        PROVE  LastBucket(t) <= FirstBucket(u)
    <2>1. t + 1 <= u /\ t \in Nat /\ u \in Nat
      BY <1>4, <1>7
    <2>2. (t + 1) * n <= u * n
      <3>1. \A x \in Nat : x * n \in Nat
        BY <1>2
      <3>2. u - (t + 1) \in Nat /\ u = (t + 1) + (u - (t + 1))
        BY <2>1
      <3>3. u * n = (t + 1) * n + (u - (t + 1)) * n
        BY <1>2, <2>1, <3>2
      <3>4. QED
        BY <1>4, <3>1, <3>2, <3>3
    <2>3. QED
      BY <1>1, <1>4, <1>5, <2>2
  <1>8. ASSUME NEW i \in Bucket
        PROVE  \E t \in Thread : Owns(t, i)
    <2> DEFINE t == i \div n
    <2>1. i \in Nat /\ i < NumBuckets
      BY <1>1, <1>8 DEF Bucket
    <2>2. t \in Nat /\ t * n <= i /\ i < t * n + n
      BY <1>2, <2>1
    <2> HIDE DEF t
    <2>3. (t + 1) * n = t * n + n /\ t * n \in Nat
      BY <1>2, <2>2
    <2>4. t < T
      <3>1. SUFFICES ASSUME T <= t PROVE FALSE
        BY <1>1, <2>2
      <3>2. t - T \in Nat /\ (t - T) * n \in Nat
        BY <1>1, <1>2, <2>2, <3>1
      <3>3. t * n = T * n + (t - T) * n /\ T * n \in Nat
        BY <1>1, <1>2, <2>2
      <3>4. QED
        BY <1>1, <1>2, <2>1, <2>2, <2>3, <3>2, <3>3
    <2>5. t \in Thread
      BY <1>1, <2>2, <2>4 DEF Thread
    <2>6. FirstBucket(t) <= i /\ i < LastBucket(t)
      BY <1>1, <1>4, <1>5, <2>1, <2>2, <2>3, <2>5
    <2>7. QED
      BY <2>5, <2>6 DEF Owns
  <1>9. QED
    BY <1>6, <1>7, <1>8

(* Two threads own no bucket in common.                                    *)
LEMMA OneOwner ==
    ASSUME Shape, NEW t \in Thread, NEW u \in Thread, NEW i \in Bucket, Owns(t, i), Owns(u, i)
    PROVE  t = u
  <1>1. \A x, y \in Thread : x < y => LastBucket(x) <= FirstBucket(y)
    BY OwnBuckets
  <1>2. /\ FirstBucket(t) \in Int /\ LastBucket(t) \in Int
        /\ FirstBucket(u) \in Int /\ LastBucket(u) \in Int
    BY OwnBuckets DEF Shape
  <1>3. t \in Int /\ u \in Int /\ i \in Int
    BY DEF Thread, Bucket, Shape
  <1>4. QED
    BY <1>1, <1>2, <1>3 DEF Owns

(* The last block of the array.                                            *)
LEMMA LastOffset ==
    ASSUME Shape
    PROVE  /\ MaxOffset \in Int /\ IsBlock(MaxOffset) /\ MaxOffset <= N /\ N < MaxOffset + BlockSize
           /\ \A b \in Bucket : AreaEnd(b) <= MaxOffset + BlockSize
  <1>1. N \in Nat /\ N + 1 \in Nat
    BY DEF Shape
  <1>2. Align(N + 1) \in Nat /\ IsBlock(Align(N + 1)) /\ N + 1 <= Align(N + 1) /\ Align(N + 1) < N + 1 + BlockSize
    BY <1>1, AlignRight DEF IsBlock
  <1>3. MaxOffset = Align(N + 1) - BlockSize
    BY DEF MaxOffset
  <1>4. MaxOffset \in Int /\ MaxOffset <= N /\ N < MaxOffset + BlockSize
    BY <1>1, <1>2, <1>3, Sizes
  <1>5. IsBlock(MaxOffset)
    BY <1>2, <1>3, <1>4, Sizes, NextBlock DEF IsBlock
  <1>6. Align(N) <= Align(N + 1) /\ Align(N) \in Nat
    BY <1>1, AlignMonotone, AlignRight
  <1>7. ASSUME NEW b \in Bucket
        PROVE  AreaEnd(b) <= MaxOffset + BlockSize
    <2>1. AreaEnd(b) \in Nat /\ AreaEnd(b) <= Align(N)
      BY Areas
    <2>2. QED
      BY <1>2, <1>3, <1>6, <2>1, Sizes
  <1>8. QED
    BY <1>4, <1>5, <1>7

(* Where the blocks of a bucket end: only a bucket of more than one block  *)
(* has been written to beyond its end.                                     *)
LEMMA ExcessIs ==
    ASSUME Shape, NEW i \in Bucket, IsBlock(ptr[i].w), AreaStart(i) <= ptr[i].w,
           ptr[i].w = AreaStart(i) \/ ptr[i].w - AreaStart(i) < Size(i)
    PROVE  /\ bucketStart[i] \in Nat /\ bucketStart[i + 1] \in Nat /\ AreaStart(i) \in Nat /\ ptr[i].w \in Int
           /\ bucketStart[i] <= AreaStart(i) /\ bucketStart[i] <= bucketStart[i + 1]
           /\ bucketStart[i + 1] <= N
           /\ AreaStart(i) < ptr[i].w => ptr[i].w < bucketStart[i + 1] + BlockSize
           /\ Excess(i) = IF AreaStart(i) < ptr[i].w /\ bucketStart[i + 1] < ptr[i].w
                          THEN bucketStart[i + 1] .. ptr[i].w - 1 ELSE {}
           /\ Excess(i) # {} => AreaStart(i) < bucketStart[i + 1] /\ bucketStart[i + 1] < ptr[i].w
           /\ Excess(i) = {} => ptr[i].w <= bucketStart[i + 1] \/ ptr[i].w = AreaStart(i)
  <1>1. BlockSize \in Int /\ BlockSize > 0 /\ N \in Nat
    BY Sizes DEF Shape
  <1> DEFINE s == bucketStart[i]
             e == bucketStart[i + 1]
             A == AreaStart(i)
             W == ptr[i].w
  <1>2. /\ s \in Nat /\ e \in Nat /\ A \in Nat /\ s <= e /\ e <= N /\ A < s + BlockSize
        /\ W \in Int /\ IsBlock(W) /\ IsBlock(A) /\ A <= W
    BY <1>1, Areas DEF IsBlock
  <1>3. s <= A
    BY <1>2, AlignRight DEF AreaStart
  <1>4. W = A \/ W - A < e - s
    BY DEF Size
  <1>5. A < W => A + BlockSize <= W
    BY <1>2, BlocksApart
  <1>6. A < W => e - s > BlockSize /\ W < e + BlockSize
    BY <1>1, <1>2, <1>3, <1>4, <1>5
  <1>7. e - s > BlockSize /\ W > e => A < W
    BY <1>1, <1>2
  <1>8. Excess(i) = IF W > e /\ e - s > BlockSize THEN e .. W - 1 ELSE {}
    BY DEF Excess
  <1>9. Excess(i) = IF A < W /\ e < W THEN e .. W - 1 ELSE {}
    BY <1>1, <1>2, <1>6, <1>7, <1>8
  <1>10. Excess(i) # {} => A < e /\ e < W
    <2>1. ASSUME Excess(i) # {} PROVE A < W /\ e < W
      BY <1>9, <2>1
    <2>2. QED
      BY <1>1, <1>2, <1>6, <2>1
  <1>11. Excess(i) = {} => W <= e \/ W = A
    <2>1. SUFFICES ASSUME A < W, e < W PROVE e \in Excess(i)
      BY <1>2
    <2>2. QED
      BY <1>2, <1>9, <2>1
  <1> HIDE DEF s, e, A, W
  <1>12. QED
    BY <1>2, <1>3, <1>6, <1>9, <1>10, <1>11 DEF s, e, A, W

LEMMA BlocksEnd ==
    ASSUME Shape, NEW i \in Bucket, BlocksLeft(i)
    PROVE  /\ bucketStart[i] \in Nat /\ bucketStart[i + 1] \in Nat /\ AreaStart(i) \in Nat /\ ptr[i].w \in Int
           /\ bucketStart[i] <= AreaStart(i) /\ bucketStart[i] <= bucketStart[i + 1]
           /\ bucketStart[i + 1] <= N
           /\ AreaStart(i) < ptr[i].w => ptr[i].w < bucketStart[i + 1] + BlockSize
           /\ Excess(i) = IF AreaStart(i) < ptr[i].w /\ bucketStart[i + 1] < ptr[i].w
                          THEN bucketStart[i + 1] .. ptr[i].w - 1 ELSE {}
           /\ Excess(i) # {} => AreaStart(i) < bucketStart[i + 1] /\ bucketStart[i + 1] < ptr[i].w
           /\ Excess(i) = {} => ptr[i].w <= bucketStart[i + 1] \/ ptr[i].w = AreaStart(i)
           /\ TakesOverflow(i) => /\ N < ptr[i].w /\ AreaStart(i) <= TailAt(i)
                                  /\ TailAt(i) < bucketStart[i + 1] /\ TailAt(i) = ptr[i].w - BlockSize
           /\ ~TakesOverflow(i) => TailAt(i) = ptr[i].w
  <1>1. /\ IsBlock(ptr[i].w) /\ AreaStart(i) <= ptr[i].w
        /\ ptr[i].w = AreaStart(i) \/ ptr[i].w - AreaStart(i) < Size(i)
    BY DEF BlocksLeft
  <1>2. /\ bucketStart[i] \in Nat /\ bucketStart[i + 1] \in Nat /\ AreaStart(i) \in Nat /\ ptr[i].w \in Int
        /\ bucketStart[i] <= AreaStart(i) /\ bucketStart[i] <= bucketStart[i + 1]
        /\ bucketStart[i + 1] <= N
        /\ AreaStart(i) < ptr[i].w => ptr[i].w < bucketStart[i + 1] + BlockSize
        /\ Excess(i) = IF AreaStart(i) < ptr[i].w /\ bucketStart[i + 1] < ptr[i].w
                       THEN bucketStart[i + 1] .. ptr[i].w - 1 ELSE {}
        /\ Excess(i) # {} => AreaStart(i) < bucketStart[i + 1] /\ bucketStart[i + 1] < ptr[i].w
        /\ Excess(i) = {} => ptr[i].w <= bucketStart[i + 1] \/ ptr[i].w = AreaStart(i)
    BY <1>1, ExcessIs
  <1>3. ~TakesOverflow(i) => TailAt(i) = ptr[i].w
    BY DEF TailAt
  <1>4. ASSUME TakesOverflow(i)
        PROVE  /\ N < ptr[i].w /\ AreaStart(i) <= TailAt(i)
               /\ TailAt(i) < bucketStart[i + 1] /\ TailAt(i) = ptr[i].w - BlockSize
    <2>1. TailAt(i) = ptr[i].w - BlockSize
      BY <1>4 DEF TailAt
    <2>2. /\ AreaStart(i) <= MaxOffset /\ ptr[i].w = MaxOffset + BlockSize /\ MaxOffset \in Int
          /\ N < MaxOffset + BlockSize /\ N \in Int /\ BlockSize \in Int /\ BlockSize > 0
      BY <1>4, LastOffset, Sizes DEF BlocksLeft, Shape
    <2>3. AreaStart(i) < ptr[i].w
      BY <1>2, <2>2
    <2>4. QED
      BY <1>2, <2>1, <2>2, <2>3
  <1>5. QED
    BY <1>2, <1>3, <1>4

(* The bucket computeOverflowBucket finds has more than a block.           *)
LEMMA ForeseenLarge ==
    ASSUME Shape, OverflowBucket \in Bucket
    PROVE  BlockSize < Size(OverflowBucket)
  <1> DEFINE Large == {b \in Bucket : bucketStart[b + 1] - bucketStart[b] > BlockSize}
  <1>1. OverflowBucket = IF Large = {} THEN -1 ELSE CHOOSE b \in Large : \A c \in Large : c <= b
    BY DEF OverflowBucket
  <1>2. -1 \notin Bucket /\ Bucket \in SUBSET Int
    BY DEF Bucket, Shape
  <1>3. Large # {} /\ Large \in SUBSET Int
    BY <1>1, <1>2
  <1>4. IsFiniteSet(Large)
    <2>1. 0 \in Int /\ NumBuckets - 1 \in Int
      BY DEF Shape
    <2>2. IsFiniteSet(Bucket)
      BY <2>1, FS_Interval DEF Bucket
    <2>3. Large \subseteq Bucket
      OBVIOUS
    <2>4. QED
      BY <2>2, <2>3, FS_Subset
  <1>5. \E b \in Large : \A c \in Large : c <= b
    <2> HIDE DEF Large
    <2>1. QED
      BY <1>3, <1>4, LastPlace
  <1>6. OverflowBucket \in Large
    <2> HIDE DEF Large
    <2>1. QED
      BY <1>1, <1>3, <1>5
  <1>7. bucketStart[OverflowBucket + 1] - bucketStart[OverflowBucket] > BlockSize
    BY <1>6
  <1>8. bucketStart[OverflowBucket + 1] - bucketStart[OverflowBucket] \in Int
    BY Areas DEF Shape
  <1>9. QED
    BY <1>7, <1>8, Sizes DEF Size

(* A block goes to an overflow block only from the last block of the       *)
(* array.                                                                  *)
LEMMA OverflowLast ==
    ASSUME PermInv, NEW u \in Thread, overflow[u] # <<>>
    PROVE  /\ OverflowBucket \in Bucket /\ overflow[u] = BlockOf(OverflowBucket)
           /\ ptr[OverflowBucket].w = MaxOffset + BlockSize
           /\ AreaStart(OverflowBucket) <= MaxOffset /\ BlockSize < Size(OverflowBucket)
           /\ Within(MaxOffset, OverflowBucket)
  <1> SUFFICES ASSUME NEW b, b = OverflowBucket
               PROVE  /\ b \in Bucket /\ overflow[u] = BlockOf(b)
                      /\ ptr[b].w = MaxOffset + BlockSize
                      /\ AreaStart(b) <= MaxOffset /\ BlockSize < Size(b)
                      /\ Within(MaxOffset, b)
    OBVIOUS
  <1>1. Shape /\ Types /\ Pointers /\ Overflows
    BY DEF PermInv
  <1>2. b \in Bucket /\ overflow[u] = BlockOf(b) /\ ptr[b].w > MaxOffset
    BY <1>1 DEF Overflows
  <1>3. BlockSize < Size(b)
    BY <1>1, <1>2, ForeseenLarge
  <1>4. /\ MaxOffset \in Int /\ IsBlock(MaxOffset) /\ MaxOffset <= N /\ N \in Int
        /\ AreaEnd(b) <= MaxOffset + BlockSize /\ BlockSize \in Int /\ BlockSize > 0
    BY <1>1, <1>2, LastOffset, Sizes DEF Shape
  <1>5. /\ AreaStart(b) \in Nat /\ AreaEnd(b) \in Nat /\ IsBlock(AreaStart(b)) /\ IsBlock(AreaEnd(b))
        /\ bucketStart[b] \in Int /\ bucketStart[b + 1] \in Int
        /\ AreaStart(b) < bucketStart[b] + BlockSize /\ bucketStart[b + 1] <= N
        /\ bucketStart[b + 1] <= AreaEnd(b)
    BY <1>1, <1>2, Areas DEF Shape
  <1>6. /\ ptr[b].w \in Int /\ IsBlock(ptr[b].w) /\ IsBlock(ptr[b].r) /\ ptr[b].r \in Int
        /\ AreaStart(b) <= ptr[b].w
    BY <1>1, <1>2 DEF Pointers, IsBlock
  <1>7. Taken(b) = 0 \/ Taken(b) < Size(b)
    BY <1>2 DEF PermInv, Room
  <1>8. MaxOffset + BlockSize <= ptr[b].w
    BY <1>2, <1>4, <1>6, BlocksApart
  <1>9. AreaStart(b) <= MaxOffset
    <2>1. N < MaxOffset + BlockSize
      BY <1>1, LastOffset
    <2>2. AreaStart(b) < MaxOffset + BlockSize
      BY <1>3, <1>4, <1>5, <2>1 DEF Size
    <2>3. ~(MaxOffset < AreaStart(b))
      <3>1. MaxOffset < AreaStart(b) => MaxOffset + BlockSize <= AreaStart(b)
        BY <1>4, <1>5, BlocksApart
      <3>2. QED
        BY <1>4, <1>5, <2>2, <3>1
    <2>4. QED
      BY <1>4, <1>5, <2>3
  <1>10. ptr[b].w - AreaStart(b) < Size(b)
    <2> DEFINE k == BlockSize * Left(b)
    <2>1. Left(b) \in Nat
      <3>1. Cardinality(Unread(b)) \in Nat /\ Cardinality(Carriers(b)) \in Nat
        BY <1>1, Finite
      <3>2. QED
        BY <3>1 DEF Left
    <2>2. k >= 0 /\ k \in Int
      BY <1>4, <2>1
    <2>3. Taken(b) = ptr[b].w - AreaStart(b) + k
      BY DEF Taken
    <2>4. Size(b) \in Int
      BY <1>5 DEF Size
    <2> HIDE DEF k
    <2>5. QED
      BY <1>3, <1>4, <1>5, <1>6, <1>7, <2>2, <2>3, <2>4
  <1>11. ptr[b].w <= MaxOffset + BlockSize
    <2>1. ptr[b].w < AreaEnd(b) + BlockSize
      BY <1>4, <1>5, <1>6, <1>10 DEF Size
    <2>2. ptr[b].w <= AreaEnd(b)
      <3>1. SUFFICES ASSUME AreaEnd(b) < ptr[b].w PROVE FALSE
        BY <1>5, <1>6
      <3>2. AreaEnd(b) + BlockSize <= ptr[b].w
        BY <1>5, <1>6, <3>1, BlocksApart
      <3>3. QED
        BY <1>4, <1>5, <1>6, <2>1, <3>2
    <2>3. QED
      BY <1>4, <1>5, <1>6, <2>2
  <1>12. MaxOffset + BlockSize <= AreaEnd(b)
    <2>1. MaxOffset < AreaEnd(b)
      BY <1>4, <1>5, <1>6, <1>8, <1>10 DEF Size
    <2>2. QED
      BY <1>4, <1>5, <2>1, BlocksApart
  <1>13. QED
    BY <1>2, <1>3, <1>4, <1>6, <1>8, <1>9, <1>11, <1>12 DEF Within

(* So only the last block of that bucket is missing.                       *)
LEMMA OnlyLastMissing ==
    ASSUME PermInv, NEW i \in Bucket, NEW p, Within(p, i), CutOff(p)
    PROVE  i = OverflowBucket /\ p = MaxOffset
  <1>1. Shape
    BY DEF PermInv
  <1>2. PICK u \in Thread : overflow[u] # <<>>
    BY DEF CutOff
  <1>3. OverflowBucket \in Bucket /\ Within(MaxOffset, OverflowBucket)
    BY <1>2, OverflowLast
  <1>4. /\ MaxOffset \in Int /\ IsBlock(MaxOffset) /\ AreaEnd(i) <= MaxOffset + BlockSize
        /\ p \in Int /\ IsBlock(p) /\ p + BlockSize <= AreaEnd(i) /\ MaxOffset <= p
        /\ AreaEnd(i) \in Nat
    BY <1>1, LastOffset, Areas DEF Within, IsBlock, CutOff
  <1>5. p = MaxOffset
    BY <1>4, Sizes
  <1>6. QED
    BY <1>1, <1>3, <1>5, OneArea

(* What the permutation leaves: the elements of a bucket in full blocks,   *)
(* from the start of its area on, one of them perhaps in an overflow       *)
(* block, and the rest of them in the buffers.                             *)
LEMMA LeftBehind ==
    ASSUME PermInv, Progress, PermAccount, \A t \in Thread : pc[t] \in {"permuted", "published"},
           NEW i \in Bucket,
           NEW over, over <=> i = OverflowBucket /\ \E u \in Thread : overflow[u] # <<>>
    PROVE  /\ ptr[i].w - AreaStart(i) + InBuffers(i) = Size(i)
           /\ IsBlock(ptr[i].w) /\ AreaStart(i) <= ptr[i].w /\ ptr[i].w <= AreaEnd(i)
           /\ ptr[i].w = AreaStart(i) \/ ptr[i].w - AreaStart(i) < Size(i)
           /\ over => AreaStart(i) <= MaxOffset /\ ptr[i].w = MaxOffset + BlockSize /\ BlockSize < Size(i)
           /\ ~over /\ AreaStart(i) < ptr[i].w => ptr[i].w <= N
           /\ \A p \in AreaStart(i) .. (IF over THEN ptr[i].w - BlockSize ELSE ptr[i].w) - 1 : a[p] = i
  <1> DEFINE A == AreaStart(i)
             W == ptr[i].w
             E == AreaEnd(i)
  <1>1. Shape /\ Types /\ Pointers
    BY DEF PermInv
  <1>2. /\ A \in Nat /\ IsBlock(A) /\ E \in Nat /\ IsBlock(E) /\ W \in Int /\ IsBlock(W) /\ A <= W
        /\ bucketStart[i] \in Int /\ bucketStart[i + 1] \in Int /\ bucketStart[i + 1] <= E
        /\ A < bucketStart[i] + BlockSize
        /\ BlockSize \in Int /\ BlockSize > 0 /\ N \in Int
    BY <1>1, Areas, Sizes DEF Pointers, IsBlock, Shape
  <1>3. /\ Taken(i) = W - A
        /\ \A p : Passed(p, i) => (FullBlock(p) /\ a[p] = i) \/ CutOff(p)
    BY AllWritten
  <1>4. W - A + InBuffers(i) = Size(i)
    BY <1>3 DEF PermAccount
  <1>5. W = A \/ W - A < Size(i)
    BY <1>2, <1>3 DEF PermInv, Room
  <1>6. W <= E
    <2>1. CASE W = A
      <3>1. A <= E
        BY <1>1, Areas, AlignMonotone DEF AreaStart, AreaEnd
      <3>2. QED
        BY <2>1, <3>1
    <2>2. CASE W - A < Size(i)
      <3>1. W < E + BlockSize
        BY <1>2, <2>2 DEF Size
      <3>2. E < W => E + BlockSize <= W
        BY <1>2, BlocksApart
      <3>3. QED
        BY <1>2, <3>1, <3>2
    <2>3. QED
      BY <1>5, <2>1, <2>2
  <1>7. over => A <= MaxOffset /\ W = MaxOffset + BlockSize /\ BlockSize < Size(i)
    BY OverflowLast
  <1>8. ASSUME NEW p, Within(p, i), p + BlockSize <= W, ~over \/ p < MaxOffset
        PROVE  FullBlock(p) /\ a[p] = i
    <2>1. ~CutOff(p)
      <3>1. SUFFICES ASSUME CutOff(p) PROVE FALSE
        OBVIOUS
      <3>2. i = OverflowBucket /\ p = MaxOffset
        BY <1>8, <3>1, OnlyLastMissing
      <3>3. over
        BY <3>1, <3>2 DEF CutOff
      <3>4. MaxOffset \in Int
        BY <1>1, LastOffset
      <3>5. QED
        BY <1>8, <3>2, <3>3, <3>4
    <2>2. QED
      BY <1>3, <1>8, <2>1 DEF Passed
  <1>9. ASSUME ~over, A < W
        PROVE  W <= N
    <2>1. A + BlockSize <= W /\ IsBlock(W - BlockSize)
      BY <1>2, <1>9, BlocksApart, NextBlock
    <2>2. Within(W - BlockSize, i)
      BY <1>2, <1>6, <2>1 DEF Within
    <2>3. FullBlock(W - BlockSize)
      BY <1>2, <1>8, <1>9, <2>2
    <2>4. QED
      BY <1>2, <2>3 DEF FullBlock
  <1>10. ASSUME NEW p \in A .. (IF over THEN W - BlockSize ELSE W) - 1
         PROVE  a[p] = i
    <2> DEFINE q == BlockOfPos(p)
               z == IF over THEN W - BlockSize ELSE W
    <2>1. p \in Int /\ A <= p /\ p < z /\ z \in Int /\ z <= W
      BY <1>2
    <2>2. IsBlock(z)
      BY <1>2, NextBlock
    <2>3. IsBlock(q) /\ q \in Int /\ A <= q /\ q + BlockSize <= z /\ q <= p /\ p < q + BlockSize
      <3> HIDE DEF z, q
      <3>1. /\ IsBlock(BlockOfPos(p)) /\ BlockOfPos(p) \in Int /\ BlockOfPos(p) <= p /\ p < BlockOfPos(p) + BlockSize
            /\ \A x \in Int : IsBlock(x) /\ x <= p => x <= BlockOfPos(p)
            /\ \A x \in Int : IsBlock(x) /\ p < x => BlockOfPos(p) + BlockSize <= x
        BY <2>1, InBlock
      <3>2. QED
        BY <1>2, <2>1, <2>2, <3>1 DEF q
    <2> HIDE DEF q
    <2>4. Within(q, i) /\ q + BlockSize <= W
      BY <1>2, <1>6, <2>1, <2>3 DEF Within
    <2>5. ~over \/ q < MaxOffset
      <3>1. MaxOffset \in Int
        BY <1>1, LastOffset
      <3>2. QED
        BY <1>2, <1>7, <2>3, <3>1
    <2>6. FullBlock(q) /\ a[q] = i
      BY <1>8, <2>4, <2>5
    <2>7. p \in Places(q)
      BY <1>2, <2>1, <2>3 DEF Places
    <2>8. QED
      BY <2>6, <2>7 DEF FullBlock
  <1>11. QED
    BY <1>2, <1>4, <1>5, <1>6, <1>7, <1>9, <1>10

(* At the end of the permutation nothing has been lost: the margins begin  *)
(* with all elements pending.                                              *)
LEMMA MarginsBegin ==
    ASSUME PermInv, Progress, PermAccount, \A t \in Thread : pc[t] \in {"permuted", "published"},
           UNCHANGED <<input, a, bucketStart, ptr, swap, overflow, buffers, saved>>,
           me' \in [Thread -> Locals],
           \/ sharedOverflow' = -1 /\ \A t \in Thread : overflow[t] = <<>>
           \/ sharedOverflow' \in Thread /\ overflow[sharedOverflow'] # <<>>,
           \/ pc' \in [Thread -> {"save"}]
           \/ /\ T = 1 /\ pc' \in [Thread -> {"margins"}] /\ \A t \in Thread : me'[t].bucket = 0
    PROVE  MarginInv'
  <1>1. /\ T' = T /\ Thread' = Thread /\ Bucket' = Bucket /\ N' = N /\ NumBuckets' = NumBuckets
        /\ MaxOffset' = MaxOffset /\ OverflowBucket' = OverflowBucket
        /\ \A b : Size(b)' = Size(b) /\ AreaStart(b)' = AreaStart(b) /\ AreaEnd(b)' = AreaEnd(b)
        /\ Shape' /\ Shape /\ Types
    BY SameShape DEF PermInv
  <1>2. /\ \A i : InBuffers(i)' = InBuffers(i) /\ Excess(i)' = Excess(i)
        /\ \A t : FirstBucket(t)' = FirstBucket(t) /\ LastBucket(t)' = LastBucket(t)
    BY <1>1, SameBuffers DEF Excess, FirstBucket, LastBucket, bucketsPerThread
  <1>3. \A t \in Thread : \A i : ~TakesSwap(t, i)'
    BY <1>1 DEF TakesSwap, PermAccount
  <1> DEFINE Over(i) == i = OverflowBucket /\ \E u \in Thread : overflow[u] # <<>>
  <1>4. \A i : TakesOverflow(i)' <=> Over(i)
    <2>1. -1 \notin Thread
      BY <1>1 DEF Thread, Shape
    <2>2. QED
      BY <1>1, <2>1 DEF TakesOverflow
  <1>5. ASSUME NEW i \in Bucket
        PROVE  /\ ptr[i].w - AreaStart(i) + InBuffers(i) = Size(i)
               /\ IsBlock(ptr[i].w) /\ AreaStart(i) <= ptr[i].w /\ ptr[i].w <= AreaEnd(i)
               /\ ptr[i].w = AreaStart(i) \/ ptr[i].w - AreaStart(i) < Size(i)
               /\ Over(i) => AreaStart(i) <= MaxOffset /\ ptr[i].w = MaxOffset + BlockSize /\ BlockSize < Size(i)
               /\ ~Over(i) /\ AreaStart(i) < ptr[i].w => ptr[i].w <= N
               /\ \A p \in AreaStart(i) .. (IF Over(i) THEN ptr[i].w - BlockSize ELSE ptr[i].w) - 1 : a[p] = i
    BY LeftBehind
  <1>6. ASSUME NEW i \in Bucket PROVE BlocksLeft(i)'
    BY <1>1, <1>4, <1>5 DEF BlocksLeft, IsBlock
  <1>7. ASSUME NEW i \in Bucket, NEW p \in AreaStart(i) .. TailAt(i)' - 1 PROVE a[p] = i
    BY <1>4, <1>5 DEF TailAt
  <1>8. ASSUME NEW i \in Bucket PROVE Whole(i)'
    BY <1>1, <1>7 DEF Whole
  <1>9. ASSUME NEW i \in Bucket, Over(i)
        PROVE  overflow'[sharedOverflow'] = BlockOf(i)'
    <2>1. sharedOverflow' \in Thread /\ overflow[sharedOverflow'] # <<>>
      BY <1>9
    <2>2. overflow[sharedOverflow'] = BlockOf(OverflowBucket)
      BY <2>1, OverflowLast
    <2>3. QED
      BY <1>9, <2>2 DEF BlockOf
  <1>10. ASSUME NEW i \in Bucket, ~Over(i)
         PROVE  Kept(i)'
    <2>1. /\ AreaStart(i) \in Nat /\ ptr[i].w \in Int /\ bucketStart[i + 1] \in Nat
          /\ Excess(i) # {} => AreaStart(i) < bucketStart[i + 1]
          /\ Excess(i) = IF AreaStart(i) < ptr[i].w /\ bucketStart[i + 1] < ptr[i].w
                         THEN bucketStart[i + 1] .. ptr[i].w - 1 ELSE {}
      BY <1>1, <1>5, ExcessIs
    <2>2. ASSUME NEW p \in Excess(i)' PROVE p \in AreaStart(i) .. TailAt(i)' - 1
      <3>1. TailAt(i)' = ptr[i].w
        BY <1>4, <1>10 DEF TailAt
      <3>2. p \in bucketStart[i + 1] .. ptr[i].w - 1 /\ AreaStart(i) < bucketStart[i + 1]
        BY <1>2, <2>1, <2>2
      <3>3. QED
        BY <2>1, <3>1, <3>2
    <2>3. QED
      BY <1>7, <2>2 DEF Kept
  <1>11. ASSUME NEW t \in Thread, NEW i \in Bucket, ~Over(i)
         PROVE  ExcessKept(t, i)'
    <2>1. Kept(i)' /\ \A u \in Thread' : ~TakesSwap(u, i)'
      BY <1>1, <1>3, <1>10, <1>11
    <2>2. CASE pc' \in [Thread -> {"save"}]
      BY <2>1, <2>2 DEF ExcessKept
    <2>3. CASE T = 1
      <3>1. LastBucket(t)' = NumBuckets
        <4>1. t = 0
          BY <2>3 DEF Thread
        <4>2. LastBucket(0) = Min({NumBuckets, 1 * bucketsPerThread})
          BY DEF LastBucket
        <4>3. NumBuckets \in Nat /\ bucketsPerThread = NumBuckets
          BY <1>1, <2>3 DEF bucketsPerThread, Shape
        <4>4. 1 * bucketsPerThread = NumBuckets
          BY <4>3
        <4>5. LastBucket(0) = NumBuckets
          <5>1. \A x \in Int : Min({x, x}) = x
            BY MaxMinOfTwo
          <5>2. QED
            BY <4>2, <4>3, <4>4, <5>1
        <4>6. QED
          BY <1>2, <4>1, <4>5
      <3>2. ~Crosses(t, i)'
        <4>1. SUFFICES ASSUME Crosses(t, i)' PROVE FALSE
          OBVIOUS
        <4>2. Excess(i)' # {} /\ N < ptr[i].w
          BY <1>1, <3>1, <4>1 DEF Crosses, PermAccount
        <4>3. AreaStart(i) < ptr[i].w
          <5>1. Excess(i) = IF AreaStart(i) < ptr[i].w /\ bucketStart[i + 1] < ptr[i].w
                            THEN bucketStart[i + 1] .. ptr[i].w - 1 ELSE {}
            BY <1>1, <1>5, ExcessIs
          <5>2. QED
            BY <1>2, <4>2, <5>1
        <4>4. ptr[i].w <= N /\ N \in Int /\ ptr[i].w \in Int
          BY <1>1, <1>5, <1>11, <4>3 DEF Shape, IsBlock
        <4>5. QED
          BY <4>2, <4>4
      <3>3. QED
        BY <2>1, <3>2 DEF ExcessKept
    <2>4. QED
      BY <2>2, <2>3
  <1>12. ASSUME NEW t \in Thread, NEW i \in Bucket
         PROVE  Pending(t, i)'
    <2>1. (ptr[i].w - AreaStart(i) + InBuffers(i) = Size(i))'
      BY <1>1, <1>2, <1>5
    <2>2. Whole(i)'
      BY <1>8
    <2>3. TakesOverflow(i)' => overflow'[sharedOverflow'] = BlockOf(i)'
      BY <1>4, <1>9
    <2>4. ~TakesOverflow(i)' => ExcessKept(t, i)'
      BY <1>4, <1>11
    <2>5. QED
      BY <2>1, <2>2, <2>3, <2>4 DEF Pending
  <1>13. ASSUME NEW t \in Thread, NEW i \in Bucket
         PROVE  ~MarginDone(t, i)'
    BY <1>1 DEF MarginDone, Bucket, Shape
  <1>14. MarginTypes'
    <2>1. Locals \subseteq MarginLocals
      BY <1>1 DEF Locals, MarginLocals, Bucket, Shape
    <2>2. me' \in [Thread -> MarginLocals]
      BY <2>1
    <2>3. saved' \in [Thread -> [bucket : Int, count : Nat]]
      BY DEF PermAccount
    <2>4. /\ DOMAIN a' = 0 .. N - 1 /\ DOMAIN swap' = Thread /\ \A t \in Thread : DOMAIN swap'[t] = 1 .. 2
          /\ DOMAIN overflow' = Thread
      BY <1>1 DEF Types
    <2>5. bucketStart'[0] = 0 /\ bucketStart'[NumBuckets] = N /\ buffers' \in [Thread -> [Bucket -> Nat]]
      BY DEF PermAccount
    <2>6. MarginLocals' = MarginLocals
      BY DEF MarginLocals
    <2>7. QED
      BY <1>1, <2>2, <2>3, <2>4, <2>5, <2>6 DEF MarginTypes
  <1>15. MarginPhase'
    <2>1. pc' \in [Thread' -> {"save", "saved"}] \/ pc' \in [Thread' -> {"margins", "done"}]
      BY <1>1
    <2>2. \A t \in Thread : pc'[t] # "saved" /\ pc'[t] # "done"
      OBVIOUS
    <2>3. ASSUME NEW t \in Thread, pc'[t] # "save" PROVE FirstBucket(t)' <= me'[t].bucket
      <3>1. T = 1 /\ me'[t].bucket = 0
        BY <2>3
      <3>2. t = 0
        BY <3>1 DEF Thread
      <3>3. FirstBucket(0) = Min({NumBuckets, 0 * bucketsPerThread})
        BY DEF FirstBucket
      <3>4. NumBuckets \in Nat /\ bucketsPerThread = NumBuckets
        BY <1>1, <3>1 DEF bucketsPerThread, Shape
      <3>5. 0 * bucketsPerThread = 0
        BY <3>4
      <3>6. FirstBucket(0) = 0
        <4>1. \A x \in Nat : Min({x, 0}) = 0
          <5>1. \A x \in Int : \A y \in Int : Min({x, y}) = IF x <= y THEN x ELSE y
            BY MaxMinOfTwo
          <5>2. QED
            BY <5>1
        <4>2. QED
          BY <3>3, <3>4, <3>5, <4>1
      <3>7. QED
        BY <1>2, <3>1, <3>2, <3>6
    <2>4. QED
      BY <1>1, <2>1, <2>2, <2>3 DEF MarginPhase
  <1>16. QED
    BY <1>1, <1>3, <1>6, <1>12, <1>13, <1>14, <1>15 DEF MarginInv, MarginBase

(* What no step of the margins changes.                                    *)
LEMMA MarginFrame ==
    ASSUME UNCHANGED <<input, bucketStart, ptr, sharedOverflow>>
    PROVE  /\ T' = T /\ N' = N /\ NumBuckets' = NumBuckets /\ Thread' = Thread /\ Bucket' = Bucket
           /\ Shape => Shape'
           /\ \A i : /\ Size(i)' = Size(i) /\ AreaStart(i)' = AreaStart(i) /\ Excess(i)' = Excess(i)
                     /\ TakesOverflow(i)' <=> TakesOverflow(i)
                     /\ TailAt(i)' = TailAt(i)
                     /\ BlocksLeft(i)' <=> BlocksLeft(i)
                     /\ HeadRoom(i)' = HeadRoom(i)
           /\ \A t : FirstBucket(t)' = FirstBucket(t) /\ LastBucket(t)' = LastBucket(t)
           /\ \A t, i : Owns(t, i)' <=> Owns(t, i)
           /\ \A t, i : Crosses(t, i)' <=> Crosses(t, i)
  <1>1. /\ T' = T /\ N' = N /\ NumBuckets' = NumBuckets /\ Thread' = Thread /\ Bucket' = Bucket
        /\ MaxOffset' = MaxOffset /\ OverflowBucket' = OverflowBucket /\ (Shape => Shape')
        /\ \A i : Size(i)' = Size(i) /\ AreaStart(i)' = AreaStart(i) /\ AreaEnd(i)' = AreaEnd(i)
    BY SameShape
  <1>2. \A i : Excess(i)' = Excess(i) /\ HeadRoom(i)' = HeadRoom(i)
    BY DEF Excess, HeadRoom, BlockStart
  <1>3. \A i : TakesOverflow(i)' <=> TakesOverflow(i)
    BY <1>1 DEF TakesOverflow
  <1>4. \A i : TailAt(i)' = TailAt(i)
    BY <1>3 DEF TailAt
  <1>5. \A i : BlocksLeft(i)' <=> BlocksLeft(i)
    BY <1>1, <1>3 DEF BlocksLeft
  <1>6. \A t : FirstBucket(t)' = FirstBucket(t) /\ LastBucket(t)' = LastBucket(t)
    BY <1>1 DEF FirstBucket, LastBucket, bucketsPerThread
  <1>7. \A t, i : Owns(t, i)' <=> Owns(t, i)
    BY <1>6 DEF Owns
  <1>8. \A t, i : Crosses(t, i)' <=> Crosses(t, i)
    BY <1>2, <1>6 DEF Crosses
  <1>9. QED
    BY <1>1, <1>2, <1>3, <1>4, <1>5, <1>6, <1>7, <1>8

(* The end of the buckets of a thread and the border behind it.            *)
LEMMA OwnEnd ==
    ASSUME MarginTypes, NEW t \in Thread, NEW tail, tail = bucketStart[LastBucket(t)],
           NEW end, end = Align(tail)
    PROVE  /\ tail \in Nat /\ tail <= N /\ end \in Nat /\ IsBlock(end) /\ tail <= end /\ end < tail + BlockSize
           /\ LastBucket(t) \in 0 .. NumBuckets
           /\ \A c \in Bucket : c < LastBucket(t) =>
                 bucketStart[c + 1] <= tail /\ AreaEnd(c) <= end
           /\ \A p \in Int : IsBlock(p) /\ tail < p => end <= p
  <1>1. Shape /\ LastBucket(t) \in 0 .. NumBuckets
    BY OwnBuckets DEF MarginTypes
  <1>2. tail \in Nat /\ tail <= N
    BY <1>1 DEF Shape
  <1>3. end \in Nat /\ IsBlock(end) /\ tail <= end /\ end < tail + BlockSize
    BY <1>2, AlignRight
  <1>4. ASSUME NEW c \in Bucket, c < LastBucket(t)
        PROVE  bucketStart[c + 1] <= tail /\ AreaEnd(c) <= end
    <2>1. c + 1 \in 0 .. NumBuckets /\ c + 1 <= LastBucket(t)
      BY <1>1, <1>4, Areas DEF Shape, Bucket
    <2>2. bucketStart[c + 1] <= tail /\ bucketStart[c + 1] \in Nat
      BY <1>1, <2>1 DEF Shape
    <2>3. QED
      BY <1>2, <2>2, AlignMonotone DEF AreaEnd
  <1>5. ASSUME NEW p \in Int, IsBlock(p), tail < p
        PROVE  end <= p
    <2>1. p < end => p + BlockSize <= end
      BY <1>3, <1>5, BlocksApart
    <2>2. QED
      BY <1>2, <1>3, <1>5, <2>1, Sizes
  <1>6. QED
    BY <1>1, <1>2, <1>3, <1>4, <1>5

(* The bucket saveMargins finds.                                           *)
LEMMA LastFound ==
    ASSUME MarginTypes, NEW t \in Thread, NEW start \in Int, LastBucket(t) > 0, 0 <= start
    PROVE  LET b == LastInBlock(t, start) IN
           /\ b \in Bucket /\ b < LastBucket(t) /\ bucketStart[b] <= start
           /\ \A c \in Bucket : c < LastBucket(t) /\ bucketStart[c] <= start => c <= b
  <1> DEFINE S == {b \in 0 .. LastBucket(t) - 1 : bucketStart[b] <= start}
  <1>1. Shape /\ LastBucket(t) \in 0 .. NumBuckets /\ bucketStart[0] = 0
    BY OwnBuckets DEF MarginTypes
  <1>2. LastInBlock(t, start) = Max(S)
    BY DEF LastInBlock
  <1>3. S \in SUBSET Int /\ 0 \in S /\ S \subseteq 0 .. LastBucket(t) - 1
    BY <1>1 DEF Shape
  <1>4. IsFiniteSet(S)
    <2>1. 0 \in Int /\ LastBucket(t) - 1 \in Int
      BY <1>1 DEF Shape
    <2>2. IsFiniteSet(0 .. LastBucket(t) - 1)
      BY <2>1, FS_Interval
    <2> HIDE DEF S
    <2>3. QED
      BY <1>3, <2>2, FS_Subset
  <1>5. Max(S) \in S /\ \A q \in S : q <= Max(S)
    <2> HIDE DEF S
    <2>1. QED
      BY <1>3, <1>4, MaxMin
  <1>6. \A c \in Bucket : c < LastBucket(t) /\ bucketStart[c] <= start => c \in S
    BY <1>1 DEF Bucket, Shape
  <1>7. \A c \in S : c \in Bucket /\ c < LastBucket(t) /\ bucketStart[c] <= start
    BY <1>1 DEF Bucket, Shape
  <1> HIDE DEF S
  <1>8. QED
    BY <1>2, <1>5, <1>6, <1>7

(* What saveMargins saves are the excess elements of that bucket.          *)
LEMMA MarginNeeded ==
    ASSUME MarginTypes, \A i \in Bucket : BlocksLeft(i),
           NEW t \in Thread, NEW tail, tail = bucketStart[LastBucket(t)],
           NEW end, end = Align(tail), tail # end, end <= N,
           NEW b, b = LastInBlock(t, end - BlockSize), ptr[b].w >= end
    PROVE  /\ b \in Bucket /\ b < LastBucket(t) /\ ptr[b].w = end /\ tail < end
           /\ bucketStart[b + 1] <= tail /\ bucketStart[b + 1] \in Nat
           /\ Excess(b) = bucketStart[b + 1] .. end - 1 /\ Excess(b) # {}
           /\ ~TakesOverflow(b)
  <1>1. Shape /\ bucketStart[0] = 0 /\ N \in Int
    BY DEF MarginTypes, Shape
  <1>2. /\ tail \in Nat /\ end \in Nat /\ IsBlock(end) /\ tail < end /\ end < tail + BlockSize
        /\ LastBucket(t) \in 0 .. NumBuckets
        /\ \A c \in Bucket : c < LastBucket(t) => bucketStart[c + 1] <= tail /\ AreaEnd(c) <= end
    BY OwnEnd
  <1>3. BlockSize <= end
    <2>1. IsBlock(0) /\ 0 < end
      BY <1>2, Sizes DEF IsBlock
    <2>2. 0 + BlockSize <= end
      BY <1>2, <2>1, BlocksApart
    <2>3. QED
      BY <2>2, Sizes
  <1>4. LastBucket(t) > 0
    <2>1. tail > 0
      BY <1>2, <1>3, Sizes
    <2>2. QED
      BY <1>1, <1>2, <2>1
  <1>5. b \in Bucket /\ b < LastBucket(t) /\ bucketStart[b] <= end - BlockSize
    <2>1. end - BlockSize \in Int /\ 0 <= end - BlockSize
      BY <1>2, <1>3, Sizes
    <2>2. QED
      BY <1>4, <2>1, LastFound
  <1>6. BlocksLeft(b) /\ bucketStart[b + 1] <= tail /\ AreaEnd(b) <= end
    BY <1>2, <1>5
  <1>7. /\ bucketStart[b] \in Nat /\ bucketStart[b + 1] \in Nat /\ AreaStart(b) \in Nat /\ ptr[b].w \in Int
        /\ Excess(b) = IF AreaStart(b) < ptr[b].w /\ bucketStart[b + 1] < ptr[b].w
                       THEN bucketStart[b + 1] .. ptr[b].w - 1 ELSE {}
        /\ TakesOverflow(b) => N < ptr[b].w
    BY <1>1, <1>5, <1>6, BlocksEnd
  <1>8. AreaEnd(b) \in Nat /\ AreaStart(b) < bucketStart[b] + BlockSize
    BY <1>1, <1>5, Areas
  <1>9. ptr[b].w = end
    BY <1>2, <1>6, <1>7, <1>8 DEF BlocksLeft
  <1>10. AreaStart(b) < end
    BY <1>2, <1>5, <1>7, <1>8, Sizes
  <1>11. Excess(b) = bucketStart[b + 1] .. end - 1 /\ Excess(b) # {}
    <2>1. bucketStart[b + 1] < end
      BY <1>2, <1>6, <1>7
    <2>2. Excess(b) = bucketStart[b + 1] .. end - 1
      BY <1>7, <1>9, <1>10, <2>1
    <2>3. bucketStart[b + 1] \in bucketStart[b + 1] .. end - 1
      BY <1>2, <1>7, <2>1
    <2>4. QED
      BY <2>2, <2>3
  <1>12. ~TakesOverflow(b)
    BY <1>1, <1>2, <1>7, <1>9
  <1>13. QED
    BY <1>2, <1>5, <1>6, <1>7, <1>9, <1>11, <1>12

(* A bucket whose last block goes beyond the buckets of its thread is the  *)
(* one that thread finds, and its margin is saved.                         *)
LEMMA CrossingNeeded ==
    ASSUME MarginTypes, \A j \in Bucket : BlocksLeft(j),
           NEW t \in Thread, NEW i \in Bucket, Owns(t, i), ~TakesOverflow(i), Crosses(t, i),
           NEW tail, tail = bucketStart[LastBucket(t)], NEW end, end = Align(tail)
    PROVE  tail # end /\ end <= N /\ ptr[i].w = end /\ i = LastInBlock(t, end - BlockSize)
  <1>1. Shape /\ N \in Int /\ i \in Int /\ i < LastBucket(t)
    BY DEF MarginTypes, Shape, Bucket, Owns
  <1>2. /\ tail \in Nat /\ end \in Nat /\ IsBlock(end) /\ tail <= end /\ end < tail + BlockSize
        /\ LastBucket(t) \in 0 .. NumBuckets
        /\ bucketStart[i + 1] <= tail /\ AreaEnd(i) <= end
        /\ \A p \in Int : IsBlock(p) /\ tail < p => end <= p
    BY <1>1, OwnEnd
  <1>3. BlocksLeft(i) /\ tail < ptr[i].w /\ Excess(i) # {}
    BY DEF Crosses
  <1>4. /\ bucketStart[i] \in Nat /\ bucketStart[i + 1] \in Nat /\ AreaStart(i) \in Nat /\ ptr[i].w \in Int
        /\ bucketStart[i] <= AreaStart(i)
        /\ AreaStart(i) < bucketStart[i + 1] /\ bucketStart[i + 1] < ptr[i].w
        /\ AreaStart(i) < ptr[i].w => ptr[i].w < bucketStart[i + 1] + BlockSize
    BY <1>1, <1>3, BlocksEnd
  <1>5. AreaEnd(i) \in Nat /\ IsBlock(AreaStart(i))
    BY <1>1, Areas
  <1>6. AreaStart(i) < ptr[i].w /\ IsBlock(ptr[i].w) /\ ptr[i].w <= N
    BY <1>3, <1>4 DEF BlocksLeft
  <1>7. ptr[i].w = end
    BY <1>2, <1>3, <1>4, <1>5, <1>6 DEF BlocksLeft
  <1>8. tail # end /\ end <= N
    BY <1>2, <1>3, <1>6, <1>7
  <1>9. AreaStart(i) + BlockSize <= end
    BY <1>2, <1>5, <1>6, <1>7, BlocksApart
  <1>10. bucketStart[i] <= end - BlockSize /\ 0 <= end - BlockSize /\ end - BlockSize \in Int
    BY <1>2, <1>4, <1>9, Sizes
  <1>11. LastBucket(t) > 0
    BY <1>1, <1>2 DEF Bucket, Shape
  <1> DEFINE b == LastInBlock(t, end - BlockSize)
  <1>12. /\ b \in Bucket /\ b < LastBucket(t) /\ bucketStart[b] <= end - BlockSize
         /\ \A c \in Bucket : c < LastBucket(t) /\ bucketStart[c] <= end - BlockSize => c <= b
    BY <1>10, <1>11, LastFound
  <1> HIDE DEF b
  <1>13. i <= b
    BY <1>1, <1>10, <1>12
  <1>14. ~(i < b)
    <2>1. SUFFICES ASSUME i < b PROVE FALSE
      OBVIOUS
    <2>2. b \in 0 .. NumBuckets /\ i + 1 \in 0 .. NumBuckets /\ i + 1 <= b
      BY <1>1, <1>12, <2>1 DEF Bucket, Shape
    <2>3. bucketStart[i + 1] <= bucketStart[b] /\ bucketStart[b] \in Nat
      BY <1>1, <2>2 DEF Shape
    <2>4. end < bucketStart[i + 1] + BlockSize
      BY <1>4, <1>6, <1>7
    <2>5. QED
      BY <1>2, <1>4, <1>12, <2>3, <2>4, Sizes
  <1>15. i = b
    BY <1>1, <1>12, <1>13, <1>14 DEF Bucket, Shape
  <1>16. QED
    BY <1>7, <1>8, <1>15 DEF b

(* The steps of saveMargins change nothing of a bucket but where its       *)
(* excess elements are.                                                    *)
LEMMA PendingKept ==
    ASSUME UNCHANGED <<input, bucketStart, ptr, overflow, buffers, sharedOverflow>>,
           NEW v \in Thread, NEW i \in Bucket, Pending(v, i),
           \A p \in AreaStart(i) .. TailAt(i) - 1 : p < bucketStart[i + 1] => a'[p] = a[p],
           ~TakesOverflow(i) => ExcessKept(v, i)'
    PROVE  Pending(v, i)'
  <1>1. /\ Thread' = Thread /\ Size(i)' = Size(i) /\ AreaStart(i)' = AreaStart(i) /\ TailAt(i)' = TailAt(i)
        /\ TakesOverflow(i)' <=> TakesOverflow(i)
    BY MarginFrame
  <1>2. InBuffers(i)' = InBuffers(i)
    BY <1>1, SameBuffers
  <1>3. Whole(i)'
    BY <1>1 DEF Pending, Whole
  <1>4. BlockOf(i)' = BlockOf(i)
    BY DEF BlockOf
  <1>5. QED
    BY <1>1, <1>2, <1>3, <1>4 DEF Pending

(* The margin of bucket b, whose last block goes beyond the thread's own   *)
(* buckets.                                                                *)
LEMMA MarginExtent ==
    ASSUME MarginBase, NEW t \in Thread,
           NEW tail, tail = bucketStart[LastBucket(t)], NEW end, end = Align(tail),
           NEW b, b = LastInBlock(t, end - BlockSize), tail # end, end <= N, ptr[b].w >= end
    PROVE  /\ b \in Bucket /\ b < LastBucket(t) /\ ptr[b].w = end /\ tail < end
           /\ bucketStart[b + 1] <= tail /\ bucketStart[b + 1] \in Nat
           /\ Excess(b) = bucketStart[b + 1] .. end - 1 /\ Excess(b) # {} /\ ~TakesOverflow(b)
           /\ Cardinality(bucketStart[b + 1] .. end - 1) = end - bucketStart[b + 1]
           /\ bucketStart[b + 1] < end /\ end \in Nat /\ end <= N
  <1>1. MarginTypes /\ \A i \in Bucket : BlocksLeft(i)
    BY DEF MarginBase
  <1>2. /\ b \in Bucket /\ b < LastBucket(t) /\ ptr[b].w = end /\ tail < end
        /\ bucketStart[b + 1] <= tail /\ bucketStart[b + 1] \in Nat
        /\ Excess(b) = bucketStart[b + 1] .. end - 1 /\ Excess(b) # {}
        /\ ~TakesOverflow(b)
    BY <1>1, MarginNeeded
  <1>3. end \in Nat /\ tail \in Nat
    BY <1>1, OwnEnd
  <1>4. bucketStart[b + 1] \in Int /\ end - 1 \in Int /\ bucketStart[b + 1] <= end - 1
    BY <1>2, <1>3
  <1>5. Cardinality(bucketStart[b + 1] .. end - 1) = (end - 1) - bucketStart[b + 1] + 1
    BY <1>4, FS_Interval
  <1>6. QED
    BY <1>2, <1>3, <1>4, <1>5

(* What saveMargins moves out, if it has to: the margin of a bucket whose   *)
(* last block goes beyond the thread's own buckets.                        *)
LEMMA MarginMoved ==
    ASSUME MarginBase, NEW t \in Thread, SaveMargins(t),
           NEW tail, tail = bucketStart[LastBucket(t)], NEW end, end = Align(tail),
           NEW b, b = LastInBlock(t, end - BlockSize), NEW X, X = bucketStart[b + 1] .. end - 1,
           NEW needed \in BOOLEAN, needed <=> tail # end /\ end <= N /\ ptr[b].w >= end
    PROVE  /\ \A i \in Bucket : TakesSwap(t, i)' <=> needed /\ i = b
           /\ \A i \in Bucket : ~TakesSwap(t, i)
           /\ \A u \in Thread \ {t}, i \in Bucket : TakesSwap(u, i)' <=> TakesSwap(u, i)
  <1>1. /\ MarginTypes /\ Shape /\ pc[t] = "save" /\ pc \in [Thread -> {"save", "saved"}]
        /\ \A i \in Bucket : BlocksLeft(i)
    BY DEF MarginBase, MarginTypes, MarginPhase, SaveMargins
  <1>2. /\ IF needed
           THEN /\ saved' = [saved EXCEPT ![t] = [bucket |-> b, count |-> Cardinality(X)]]
                /\ swap' = [swap EXCEPT ![t][1] =
                              [k \in 1 .. Cardinality(X) |-> a[bucketStart[b + 1] + k - 1]]]
                /\ a' = IF input.trivial THEN a
                        ELSE [p \in DOMAIN a |-> IF p \in X THEN Gone ELSE a[p]]
           ELSE saved' = saved /\ swap' = swap /\ a' = a
        /\ me' = [me EXCEPT ![t].bucket = FirstBucket(t)]
        /\ pc' = [pc EXCEPT ![t] = "saved"]
        /\ UNCHANGED <<input, bucketStart, ptr, reading, overflow,
                       buffers, firstBlock, firstEmpty, move, sharedOverflow>>
    BY DEF SaveMargins, Goto
  <1>3. \A i \in Bucket : ~TakesSwap(t, i)
    BY <1>1 DEF MarginBase, SavedMargin
  <1>4. ASSUME needed
        PROVE  b \in Bucket /\ Cardinality(X) > 0
    <2>1. tail # end /\ end <= N /\ ptr[b].w >= end
      BY <1>4
    <2>2. /\ b \in Bucket /\ Cardinality(bucketStart[b + 1] .. end - 1) = end - bucketStart[b + 1]
          /\ bucketStart[b + 1] < end /\ bucketStart[b + 1] \in Nat /\ end \in Nat
      BY <2>1, MarginExtent
    <2>3. QED
      BY <2>2
  <1>5. \A u \in Thread \ {t}, i \in Bucket : TakesSwap(u, i)' <=> TakesSwap(u, i)
    <2>1. \A u \in Thread \ {t} : saved'[u] = saved[u]
      BY <1>1, <1>2 DEF MarginTypes
    <2>2. QED
      BY <2>1 DEF TakesSwap
  <1>6. \A i \in Bucket : TakesSwap(t, i)' <=> needed /\ i = b
    <2>1. CASE needed
      <3>1. saved'[t] = [bucket |-> b, count |-> Cardinality(X)]
        BY <1>1, <1>2, <2>1 DEF MarginTypes
      <3>2. QED
        BY <1>4, <2>1, <3>1 DEF TakesSwap
    <2>2. CASE ~needed
      BY <1>2, <1>3, <2>2 DEF TakesSwap
    <2>3. QED
      BY <2>1, <2>2
  <1>7. QED
    BY <1>3, <1>5, <1>6

(* Moving margins out moves nothing of what bounds them.                   *)
LEMMA SaveMarginsBase ==
    ASSUME MarginBase, NEW t \in Thread, SaveMargins(t)
    PROVE  MarginBase'
  <1> SUFFICES ASSUME NEW tail, tail = bucketStart[LastBucket(t)], NEW end, end = Align(tail),
                      NEW b, b = LastInBlock(t, end - BlockSize), NEW X, X = bucketStart[b + 1] .. end - 1,
                      NEW needed \in BOOLEAN, needed <=> tail # end /\ end <= N /\ ptr[b].w >= end
               PROVE  MarginBase'
    OBVIOUS
  <1>1. /\ MarginTypes /\ Shape /\ pc[t] = "save" /\ pc \in [Thread -> {"save", "saved"}]
        /\ \A i \in Bucket : BlocksLeft(i)
    BY DEF MarginBase, MarginTypes, MarginPhase, SaveMargins
  <1>2. /\ IF needed
           THEN /\ saved' = [saved EXCEPT ![t] = [bucket |-> b, count |-> Cardinality(X)]]
                /\ swap' = [swap EXCEPT ![t][1] =
                              [k \in 1 .. Cardinality(X) |-> a[bucketStart[b + 1] + k - 1]]]
                /\ a' = IF input.trivial THEN a
                        ELSE [p \in DOMAIN a |-> IF p \in X THEN Gone ELSE a[p]]
           ELSE saved' = saved /\ swap' = swap /\ a' = a
        /\ me' = [me EXCEPT ![t].bucket = FirstBucket(t)]
        /\ pc' = [pc EXCEPT ![t] = "saved"]
        /\ UNCHANGED <<input, bucketStart, ptr, reading, overflow,
                       buffers, firstBlock, firstEmpty, move, sharedOverflow>>
    BY DEF SaveMargins, Goto
  <1>3. /\ N' = N /\ NumBuckets' = NumBuckets /\ Thread' = Thread /\ Bucket' = Bucket /\ Shape'
        /\ \A i : /\ Excess(i)' = Excess(i)
                  /\ TakesOverflow(i)' <=> TakesOverflow(i)
                  /\ BlocksLeft(i)' <=> BlocksLeft(i)
        /\ \A v : FirstBucket(v)' = FirstBucket(v) /\ LastBucket(v)' = LastBucket(v)
        /\ \A v, i : /\ Owns(v, i)' <=> Owns(v, i)
                     /\ Crosses(v, i)' <=> Crosses(v, i)
    BY <1>1, <1>2, MarginFrame
  <1>4. /\ pc'[t] = "saved" /\ pc' \in [Thread -> {"save", "saved"}]
        /\ \A v \in Thread \ {t} : pc'[v] = pc[v] /\ me'[v] = me[v]
        /\ me'[t].bucket = FirstBucket(t)
    BY <1>1, <1>2 DEF MarginTypes, MarginLocals
  <1>5. ASSUME needed
        PROVE  /\ b \in Bucket /\ b < LastBucket(t) /\ tail < end /\ ptr[b].w = end
               /\ Excess(b) # {} /\ ~TakesOverflow(b)
               /\ Cardinality(X) \in Nat
    <2>1. tail # end /\ end <= N /\ ptr[b].w >= end
      BY <1>5
    <2>2. /\ b \in Bucket /\ b < LastBucket(t) /\ tail < end /\ ptr[b].w = end
          /\ Excess(b) # {} /\ ~TakesOverflow(b)
          /\ bucketStart[b + 1] \in Nat /\ end \in Nat /\ bucketStart[b + 1] < end
          /\ Cardinality(bucketStart[b + 1] .. end - 1) = end - bucketStart[b + 1]
      BY <2>1, MarginExtent
    <2>3. QED
      BY <2>2
  <1>6. \A u \in Thread \ {t}, i \in Bucket : TakesSwap(u, i)' <=> TakesSwap(u, i)
    BY MarginMoved
  <1>7. \A i \in Bucket : TakesSwap(t, i)' <=> needed /\ i = b
    BY MarginMoved
  <1>8. \A u \in Thread, i \in Bucket : TakesSwap(u, i)' => SavedMargin(u, i)'
    <2>1. SUFFICES ASSUME NEW u \in Thread, NEW i \in Bucket, TakesSwap(u, i)' PROVE SavedMargin(u, i)'
      OBVIOUS
    <2>2. CASE u = t
      <3>1. needed /\ i = b
        BY <1>7, <2>1, <2>2
      <3>2. b < LastBucket(t) /\ bucketStart[LastBucket(t)] < ptr[b].w /\ Excess(b) # {} /\ ~TakesOverflow(b)
        BY <1>5, <3>1
      <3>3. Excess(b)' = Excess(b) /\ LastBucket(t)' = LastBucket(t) /\ ~TakesOverflow(b)'
        BY <1>3, <3>2
      <3>4. QED
        BY <1>2, <1>4, <2>2, <3>1, <3>2, <3>3 DEF SavedMargin
    <2>3. CASE u # t
      <3>1. TakesSwap(u, i)
        BY <1>6, <2>1, <2>3
      <3>2. SavedMargin(u, i)
        BY <3>1 DEF MarginBase
      <3>3. Excess(i)' = Excess(i) /\ LastBucket(u)' = LastBucket(u)
            /\ (TakesOverflow(i)' <=> TakesOverflow(i))
        BY <1>3
      <3>4. QED
        BY <1>2, <1>4, <2>3, <3>2, <3>3 DEF SavedMargin
    <2>4. QED
      BY <2>2, <2>3
  <1>9. MarginTypes'
    <2>1. me' \in [Thread -> MarginLocals]
      <3>1. FirstBucket(t) \in Int
        BY <1>1, OwnBuckets DEF Shape
      <3>2. QED
        BY <1>1, <1>2, <3>1 DEF MarginTypes, MarginLocals
    <2>2. saved' \in [Thread -> [bucket : Int, count : Nat]]
      <3>1. CASE needed
        <4>1. b \in Int /\ Cardinality(X) \in Nat
          BY <1>1, <1>5, <3>1 DEF Bucket, Shape
        <4>2. saved' = [saved EXCEPT ![t] = [bucket |-> b, count |-> Cardinality(X)]]
          BY <1>2, <3>1
        <4>3. [bucket |-> b, count |-> Cardinality(X)] \in [bucket : Int, count : Nat]
          BY <4>1
        <4>4. QED
          BY <1>1, <4>2, <4>3 DEF MarginTypes
      <3>2. CASE ~needed
        BY <1>1, <1>2, <3>2 DEF MarginTypes
      <3>3. QED
        BY <3>1, <3>2
    <2>3. DOMAIN a' = 0 .. N - 1 /\ DOMAIN swap' = Thread /\ \A v \in Thread : DOMAIN swap'[v] = 1 .. 2
      BY <1>1, <1>2 DEF MarginTypes
    <2>4. MarginLocals' = MarginLocals
      BY DEF MarginLocals
    <2>5. QED
      BY <1>1, <1>2, <1>3, <2>1, <2>2, <2>3, <2>4 DEF MarginTypes
  <1>10. MarginPhase'
    <2>1. FirstBucket(t) <= FirstBucket(t)
      BY <1>1, OwnBuckets DEF Shape
    <2>2. \A v \in Thread : pc'[v] # "save" => FirstBucket(v) <= me'[v].bucket
      BY <1>4, <2>1 DEF MarginBase, MarginPhase
    <2>3. \A v \in Thread : pc'[v] = "saved" => me'[v].bucket = FirstBucket(v)
      BY <1>4 DEF MarginBase, MarginPhase
    <2>4. \A v \in Thread : pc'[v] # "done"
      BY <1>4
    <2>5. QED
      BY <1>3, <1>4, <2>2, <2>3, <2>4 DEF MarginPhase
  <1>11. QED
    BY <1>1, <1>3, <1>8, <1>9, <1>10 DEF MarginBase

(* Moving out the margin of a bucket, at most once.                        *)
LEMMA SaveMarginsStep ==
    ASSUME MarginInv, NEW t \in Thread, SaveMargins(t), MovesOnce'
    PROVE  MarginInv'
  <1> SUFFICES ASSUME NEW tail, tail = bucketStart[LastBucket(t)], NEW end, end = Align(tail),
                      NEW b, b = LastInBlock(t, end - BlockSize), NEW X, X = bucketStart[b + 1] .. end - 1,
                      NEW needed \in BOOLEAN, needed <=> tail # end /\ end <= N /\ ptr[b].w >= end
               PROVE  MarginInv'
    OBVIOUS
  <1>1. /\ MarginTypes /\ Shape /\ pc[t] = "save" /\ pc \in [Thread -> {"save", "saved"}]
        /\ \A i \in Bucket : BlocksLeft(i)
    BY DEF MarginInv, MarginBase, MarginTypes, MarginPhase, SaveMargins
  <1>2. /\ IF needed
           THEN /\ saved' = [saved EXCEPT ![t] = [bucket |-> b, count |-> Cardinality(X)]]
                /\ swap' = [swap EXCEPT ![t][1] =
                              [k \in 1 .. Cardinality(X) |-> a[bucketStart[b + 1] + k - 1]]]
                /\ a' = IF input.trivial THEN a
                        ELSE [p \in DOMAIN a |-> IF p \in X THEN Gone ELSE a[p]]
           ELSE saved' = saved /\ swap' = swap /\ a' = a
        /\ me' = [me EXCEPT ![t].bucket = FirstBucket(t)]
        /\ pc' = [pc EXCEPT ![t] = "saved"]
        /\ UNCHANGED <<input, bucketStart, ptr, reading, overflow,
                       buffers, firstBlock, firstEmpty, move, sharedOverflow>>
    BY DEF SaveMargins, Goto
  <1>3. /\ N' = N /\ NumBuckets' = NumBuckets /\ Thread' = Thread /\ Bucket' = Bucket /\ Shape'
        /\ \A i : /\ Excess(i)' = Excess(i)
                  /\ TakesOverflow(i)' <=> TakesOverflow(i)
                  /\ BlocksLeft(i)' <=> BlocksLeft(i)
        /\ \A v : FirstBucket(v)' = FirstBucket(v) /\ LastBucket(v)' = LastBucket(v)
        /\ \A v, i : /\ Owns(v, i)' <=> Owns(v, i)
                     /\ Crosses(v, i)' <=> Crosses(v, i)
    BY <1>1, <1>2, MarginFrame
  <1>4. /\ pc'[t] = "saved" /\ pc' \in [Thread -> {"save", "saved"}]
        /\ \A v \in Thread \ {t} : pc'[v] = pc[v] /\ me'[v] = me[v]
        /\ me'[t].bucket = FirstBucket(t)
    BY <1>1, <1>2 DEF MarginTypes, MarginLocals
  <1>5. \A v \in Thread, i \in Bucket : Owns(v, i) => Pending(v, i)
    BY <1>1 DEF MarginInv, MarginDone
  <1>6. \A v \in Thread, i \in Bucket : ~MarginDone(v, i)'
    BY <1>4 DEF MarginDone
  <1>7. \A i \in Bucket : ~TakesSwap(t, i)
    BY MarginMoved DEF MarginInv
  <1>8. ASSUME needed
        PROVE  /\ b \in Bucket /\ b < LastBucket(t) /\ ptr[b].w = end /\ tail < end
               /\ bucketStart[b + 1] <= tail /\ bucketStart[b + 1] \in Nat
               /\ Excess(b) = X /\ Excess(b) # {} /\ ~TakesOverflow(b)
               /\ Cardinality(X) = end - bucketStart[b + 1] /\ Cardinality(X) > 0
               /\ end \in Nat /\ end <= N
    <2>1. tail # end /\ end <= N /\ ptr[b].w >= end
      BY <1>8
    <2>2. /\ b \in Bucket /\ b < LastBucket(t) /\ ptr[b].w = end /\ tail < end
          /\ bucketStart[b + 1] <= tail /\ bucketStart[b + 1] \in Nat
          /\ Excess(b) = bucketStart[b + 1] .. end - 1 /\ Excess(b) # {} /\ ~TakesOverflow(b)
          /\ Cardinality(bucketStart[b + 1] .. end - 1) = end - bucketStart[b + 1]
          /\ bucketStart[b + 1] < end /\ end \in Nat /\ end <= N
      BY <2>1, MarginExtent DEF MarginInv
    <2>3. QED
      BY <2>2
  <1>9. \A u \in Thread \ {t}, i \in Bucket : /\ TakesSwap(u, i)' <=> TakesSwap(u, i)
                                              /\ SwapHolds(u, i)' <=> SwapHolds(u, i)
    <2>1. \A u \in Thread \ {t} : saved'[u] = saved[u] /\ swap'[u] = swap[u]
      BY <1>1, <1>2 DEF MarginTypes
    <2>2. QED
      BY <1>2, <2>1 DEF TakesSwap, SwapHolds
  <1>10. \A i \in Bucket : TakesSwap(t, i)' <=> needed /\ i = b
    BY MarginMoved DEF MarginInv
  <1>11. \A i \in Bucket : Owns(t, i) /\ ~TakesOverflow(i) /\ Crosses(t, i) => needed /\ i = b
    <2>1. SUFFICES ASSUME NEW i \in Bucket, Owns(t, i), ~TakesOverflow(i), Crosses(t, i)
                   PROVE  needed /\ i = b
      OBVIOUS
    <2>2. tail # end /\ end <= N /\ ptr[i].w = end /\ i = LastInBlock(t, end - BlockSize)
      BY <1>1, <2>1, CrossingNeeded
    <2>3. end \in Nat
      BY <1>1, OwnEnd
    <2>4. QED
      BY <2>2, <2>3
  <1>12. ASSUME needed, NEW v \in Thread, Owns(v, b)
         PROVE  Crosses(v, b)
    <2>1. LastBucket(v) <= LastBucket(t)
      <3>1. /\ \A x \in Thread : /\ FirstBucket(x) \in Int /\ LastBucket(x) \in Int
                                 /\ FirstBucket(x) <= LastBucket(x)
            /\ \A x, y \in Thread : x < y => LastBucket(x) <= FirstBucket(y)
        BY <1>1, OwnBuckets DEF Shape
      <3>2. b \in Int /\ t \in Int /\ v \in Int
        BY <1>1, <1>8, <1>12 DEF Bucket, Thread, Shape
      <3>3. ~(t < v)
        BY <1>8, <1>12, <3>1, <3>2 DEF Owns
      <3>4. QED
        BY <3>1, <3>2, <3>3
    <2>2. bucketStart[LastBucket(v)] <= tail
      BY <1>1, <2>1, OwnBuckets DEF Shape
    <2>3. bucketStart[LastBucket(v)] \in Int /\ tail \in Int /\ end \in Int
      BY <1>1, OwnBuckets, OwnEnd DEF Shape
    <2>4. QED
      BY <1>8, <1>12, <2>2, <2>3 DEF Crosses
  <1>13. \A p : (~needed \/ p \notin X) /\ p \in 0 .. N - 1 => a'[p] = a[p]
    <2> SUFFICES ASSUME NEW p \in 0 .. N - 1, ~needed \/ p \notin X PROVE a'[p] = a[p]
      OBVIOUS
    <2>1. p \in DOMAIN a
      BY <1>1 DEF MarginTypes
    <2>2. CASE needed /\ ~input.trivial
      <3>1. a' = [q \in DOMAIN a |-> IF q \in X THEN Gone ELSE a[q]]
        BY <1>2, <2>2
      <3>2. QED
        BY <2>1, <2>2, <3>1
    <2>3. CASE ~needed \/ input.trivial
      BY <1>2, <2>3
    <2>4. QED
      BY <2>2, <2>3
  <1>14. ASSUME NEW i \in Bucket, NEW p \in Int, AreaStart(i) <= p, p < ptr[i].w,
                p < bucketStart[i + 1] \/ i # b
         PROVE  ~needed \/ p \notin X
    <2>1. SUFFICES ASSUME needed, p \in X PROVE FALSE
      OBVIOUS
    <2>2. /\ b \in Bucket /\ X = Excess(b) /\ p \in bucketStart[b + 1] .. end - 1 /\ ptr[b].w = end
          /\ end \in Nat /\ bucketStart[b + 1] \in Nat
      BY <1>8, <2>1
    <2>3. i # b
      BY <1>14, <2>2
    <2>4. AreaEnd(i) <= AreaStart(b) \/ AreaEnd(b) <= AreaStart(i)
      BY <1>1, <2>2, <2>3, AreasApart
    <2>5. /\ ptr[i].w <= AreaEnd(i) /\ ptr[b].w <= AreaEnd(b) /\ ptr[i].w \in Int
          /\ AreaStart(b) < bucketStart[b + 1]
      <3>1. AreaStart(b) < bucketStart[b + 1] /\ ptr[i].w \in Int
        BY <1>1, <1>8, <2>1, <2>2, BlocksEnd
      <3>2. QED
        BY <1>1, <2>2, <3>1 DEF BlocksLeft
    <2>6. /\ AreaStart(i) \in Nat /\ AreaStart(b) \in Nat /\ AreaEnd(i) \in Nat /\ AreaEnd(b) \in Nat
      BY <1>1, <2>2, Areas
    <2>7. QED
      BY <1>14, <2>2, <2>4, <2>5, <2>6
  <1>15. ASSUME NEW i \in Bucket, ~TakesOverflow(i), ~needed \/ i # b, Kept(i)
         PROVE  Kept(i)'
    <2>0. Excess(i)' = Excess(i)
      BY <1>3
    <2>1. SUFFICES ASSUME NEW p \in Excess(i) PROVE a'[p] = i
      BY <2>0 DEF Kept
    <2>2. /\ p \in bucketStart[i + 1] .. ptr[i].w - 1 /\ AreaStart(i) < bucketStart[i + 1]
          /\ AreaStart(i) < ptr[i].w
          /\ bucketStart[i + 1] \in Nat /\ AreaStart(i) \in Nat /\ ptr[i].w \in Int
      BY <1>1, <2>1, BlocksEnd
    <2>3. ptr[i].w <= N /\ N \in Int
      BY <1>1, <1>15, <2>2 DEF BlocksLeft, Shape
    <2>4. ~needed \/ p \notin X
      BY <1>14, <1>15, <2>2
    <2>5. p \in 0 .. N - 1
      BY <2>2, <2>3
    <2>6. QED
      BY <1>13, <1>15, <2>4, <2>5 DEF Kept
  <1>16. ASSUME NEW v \in Thread, NEW i \in Bucket, Owns(v, i), ~TakesOverflow(i)
         PROVE  ExcessKept(v, i)'
    <2>1. ExcessKept(v, i)
      BY <1>5, <1>16 DEF Pending
    <2>2. CASE needed /\ i = b /\ v = t
      <3>1. Crosses(t, b) /\ b \in Bucket
        BY <1>12, <1>16, <2>2
      <3>2. Kept(b)
        <4>1. SUFFICES ASSUME ~input.trivial, NEW u \in Thread, TakesSwap(u, b) PROVE FALSE
          BY <1>1, <2>1, <2>2, <3>1 DEF ExcessKept
        <4>2. u # t
          BY <1>7, <3>1, <4>1
        <4>3. /\ TakesSwap(u, b)' /\ TakesSwap(t, b)' /\ t \in Thread' /\ u \in Thread' /\ b \in Bucket'
              /\ input' = input
          BY <1>2, <1>3, <1>9, <1>10, <2>2, <3>1, <4>1, <4>2
        <4>4. QED
          BY <4>1, <4>2, <4>3 DEF MovesOnce
      <3>3. swap'[t][1] = [k \in 1 .. ptr[b].w - bucketStart[b + 1] |-> b]
        <4>1. swap'[t][1] = [k \in 1 .. Cardinality(X) |-> a[bucketStart[b + 1] + k - 1]]
          <5>1. DOMAIN swap = Thread /\ DOMAIN swap[t] = 1 .. 2 /\ 1 \in 1 .. 2
            BY <1>1 DEF MarginTypes
          <5>2. swap' = [swap EXCEPT ![t][1] =
                           [k \in 1 .. Cardinality(X) |-> a[bucketStart[b + 1] + k - 1]]]
            BY <1>2, <2>2
          <5>3. QED
            BY <5>1, <5>2
        <4>2. /\ Cardinality(X) = ptr[b].w - bucketStart[b + 1] /\ Excess(b) = bucketStart[b + 1] .. end - 1
              /\ ptr[b].w = end /\ end \in Nat /\ bucketStart[b + 1] \in Nat
          BY <1>8, <2>2
        <4>3. \A k \in 1 .. ptr[b].w - bucketStart[b + 1] : bucketStart[b + 1] + k - 1 \in Excess(b)
          BY <4>2
        <4>4. \A k \in 1 .. ptr[b].w - bucketStart[b + 1] : a[bucketStart[b + 1] + k - 1] = b
          BY <3>2, <4>3 DEF Kept
        <4>5. QED
          BY <4>1, <4>2, <4>4
      <3>4. SwapHolds(t, b)'
        BY <1>2, <1>10, <2>2, <3>1, <3>3 DEF SwapHolds
      <3>5. QED
        BY <1>3, <1>4, <2>2, <3>1, <3>4 DEF ExcessKept
    <2>3. CASE needed /\ i = b /\ v # t
      <3>1. Crosses(v, b) /\ b \in Bucket /\ pc'[v] = pc[v]
        BY <1>4, <1>12, <1>16, <2>3
      <3>2. CASE pc[v] = "save"
        <4>1. CASE input.trivial
          <5>1. Kept(b) /\ a' = a
            BY <1>2, <2>1, <2>3, <3>1, <3>2, <4>1 DEF ExcessKept
          <5>2. Excess(b)' = Excess(b)
            BY <1>3
          <5>3. Kept(b)'
            BY <5>1, <5>2 DEF Kept
          <5>4. QED
            BY <1>3, <2>3, <3>1, <3>2, <5>3 DEF ExcessKept
        <4>2. CASE ~input.trivial
          <5>1. ~input'.trivial /\ TakesSwap(t, b)' /\ t \in Thread'
            BY <1>2, <1>3, <1>10, <2>3, <3>1, <4>2
          <5>2. QED
            BY <1>3, <2>3, <3>1, <3>2, <5>1 DEF ExcessKept
        <4>3. QED
          BY <4>1, <4>2
      <3>3. CASE pc[v] # "save"
        <4>1. SwapHolds(v, b)'
          BY <1>9, <2>1, <2>3, <3>1, <3>3 DEF ExcessKept
        <4>2. QED
          BY <1>3, <2>3, <3>1, <3>3, <4>1 DEF ExcessKept
      <3>4. QED
        BY <3>2, <3>3
    <2>4. CASE ~(needed /\ i = b) /\ Crosses(v, i)
      <3>1. v # t /\ pc'[v] = pc[v]
        BY <1>4, <1>11, <1>16, <2>4
      <3>2. CASE pc[v] = "save"
        <4>1. CASE Kept(i)
          BY <1>3, <1>15, <1>16, <2>4, <3>1, <3>2, <4>1 DEF ExcessKept
        <4>2. ASSUME ~input.trivial, NEW u \in Thread, TakesSwap(u, i)
              PROVE  ExcessKept(v, i)'
          <5>1. ~input'.trivial /\ TakesSwap(u, i)' /\ u \in Thread'
            BY <1>2, <1>3, <1>7, <1>9, <4>2
          <5>2. QED
            BY <1>3, <2>4, <3>1, <3>2, <5>1 DEF ExcessKept
        <4>3. QED
          BY <2>1, <2>4, <3>2, <4>1, <4>2 DEF ExcessKept
      <3>3. CASE pc[v] # "save"
        <4>1. SwapHolds(v, i)'
          BY <1>9, <2>1, <2>4, <3>1, <3>3 DEF ExcessKept
        <4>2. QED
          BY <1>3, <2>4, <3>1, <3>3, <4>1 DEF ExcessKept
      <3>4. QED
        BY <3>2, <3>3
    <2>5. CASE ~(needed /\ i = b) /\ ~Crosses(v, i)
      <3>1. Kept(i) /\ \A u \in Thread : ~TakesSwap(u, i)
        BY <2>1, <2>5 DEF ExcessKept
      <3>2. Kept(i)'
        BY <1>15, <1>16, <2>5, <3>1
      <3>3. \A u \in Thread : ~TakesSwap(u, i)'
        BY <1>9, <1>10, <2>5, <3>1
      <3>4. QED
        BY <1>3, <2>5, <3>2, <3>3 DEF ExcessKept
    <2>6. QED
      BY <2>2, <2>3, <2>4, <2>5
  <1>17. ASSUME NEW v \in Thread, NEW i \in Bucket, Owns(v, i)
         PROVE  Pending(v, i)'
    <2>1. Pending(v, i)
      BY <1>5, <1>17
    <2>2. ASSUME NEW p \in AreaStart(i) .. TailAt(i) - 1, p < bucketStart[i + 1]
          PROVE  a'[p] = a[p]
      <3>1. /\ AreaStart(i) \in Nat /\ bucketStart[i + 1] <= N /\ bucketStart[i + 1] \in Nat
            /\ ptr[i].w \in Int /\ N \in Int /\ TailAt(i) \in Int /\ TailAt(i) <= ptr[i].w
        <4>1. /\ AreaStart(i) \in Nat /\ bucketStart[i + 1] <= N /\ bucketStart[i + 1] \in Nat /\ ptr[i].w \in Int
          BY <1>1, BlocksEnd
        <4>2. QED
          BY <1>1, <4>1, Sizes DEF TailAt, Shape
      <3>2. p \in Int /\ AreaStart(i) <= p /\ p < ptr[i].w /\ p \in 0 .. N - 1
        BY <2>2, <3>1
      <3>3. QED
        BY <1>13, <1>14, <2>2, <3>2
    <2>3. ~TakesOverflow(i) => ExcessKept(v, i)'
      BY <1>16, <1>17
    <2>4. QED
      BY <1>2, <2>1, <2>2, <2>3, PendingKept
  <1>18. MarginBase'
    BY SaveMarginsBase DEF MarginInv
  <1>19. QED
    BY <1>3, <1>6, <1>17, <1>18 DEF MarginInv

LEMMA ConstantSeq ==
    ASSUME NEW c, NEW m \in Nat, NEW n \in Nat
    PROVE  [k \in 1 .. m |-> c] \o [k \in 1 .. n |-> c] = [k \in 1 .. m + n |-> c]
  <1> DEFINE f == [k \in 1 .. m |-> c]
             g == [k \in 1 .. n |-> c]
             h == [k \in 1 .. m + n |-> c]
  <1>1. f \in Seq({c}) /\ g \in Seq({c}) /\ h \in Seq({c}) /\ Len(f) = m /\ Len(g) = n /\ Len(h) = m + n
    OBVIOUS
  <1>2. \A k \in 1 .. m : f[k] = c
    OBVIOUS
  <1>3. \A k \in 1 .. n : g[k] = c
    OBVIOUS
  <1>4. \A k \in 1 .. m + n : h[k] = c
    OBVIOUS
  <1> HIDE DEF f, g, h
  <1>5. /\ f \o g \in Seq({c}) /\ Len(f \o g) = m + n
        /\ \A k \in 1 .. m + n : (f \o g)[k] = IF k <= m THEN f[k] ELSE g[k - m]
    BY <1>1
  <1>6. \A k \in 1 .. m + n : (f \o g)[k] = h[k]
    <2> SUFFICES ASSUME NEW k \in 1 .. m + n PROVE (f \o g)[k] = h[k]
      OBVIOUS
    <2>1. CASE k <= m
      BY <1>2, <1>4, <1>5, <2>1
    <2>2. CASE ~(k <= m)
      <3>1. k - m \in 1 .. n
        BY <2>2
      <3>2. QED
        BY <1>3, <1>4, <1>5, <2>2, <3>1
    <2>3. QED
      BY <2>1, <2>2
  <1>7. f \o g = h
    BY <1>1, <1>5, <1>6
  <1>8. QED
    BY <1>7 DEF f, g, h

(* What writeMargins has to write for a bucket: elements of that bucket    *)
(* only, and just as many as its blocks leave places for.                  *)
LEMMA MarginSource ==
    ASSUME MarginInv, NEW t \in Thread, NEW i \in Bucket, Owns(t, i), pc[t] = "margins",
           ~MarginDone(t, i)
    PROVE  \E n \in Nat :
              /\ FirstSource(t, i) \o FromBuffers(i) = [k \in 1 .. n |-> i]
              /\ n = IF ~TakesOverflow(i) /\ Excess(i) # {} THEN HeadRoom(i)
                     ELSE HeadRoom(i) + bucketStart[i + 1] - TailAt(i)
  <1> DEFINE s == bucketStart[i]
             e == bucketStart[i + 1]
             A == AreaStart(i)
             W == ptr[i].w
             B == InBuffers(i)
  <1>1. MarginTypes /\ Shape /\ BlocksLeft(i) /\ Pending(t, i)
    BY DEF MarginInv, MarginBase, MarginTypes
  <1>2. /\ s \in Nat /\ e \in Nat /\ A \in Nat /\ W \in Int
        /\ Excess(i) = IF A < W /\ e < W THEN e .. W - 1 ELSE {}
        /\ Excess(i) # {} => A < e /\ e < W
        /\ TakesOverflow(i) => TailAt(i) = W - BlockSize
        /\ ~TakesOverflow(i) => TailAt(i) = W
    BY <1>1, BlocksEnd
  <1>3. B \in Nat
    BY <1>1, BuffersNat DEF MarginTypes, Shape
  <1>4. W - A + B = e - s
    BY <1>1 DEF Pending, Size
  <1>5. HeadRoom(i) = A - s
    BY DEF HeadRoom, BlockStart, AreaStart
  <1>6. BlockSize \in Nat
    BY Sizes
  <1> DEFINE size == IF ~TakesOverflow(i) /\ Excess(i) # {} THEN HeadRoom(i)
                     ELSE HeadRoom(i) + e - TailAt(i)
  <1>7. ASSUME NEW m \in Nat, FirstSource(t, i) = [k \in 1 .. m |-> i], m + B = size
        PROVE  \E n \in Nat : FirstSource(t, i) \o FromBuffers(i) = [k \in 1 .. n |-> i] /\ n = size
    <2>1. FromBuffers(i) = [k \in 1 .. B |-> i]
      BY DEF FromBuffers
    <2>2. FirstSource(t, i) \o FromBuffers(i) = [k \in 1 .. m + B |-> i]
      BY <1>3, <1>7, <2>1, ConstantSeq
    <2>3. m + B \in Nat
      BY <1>3
    <2>4. QED
      BY <1>7, <2>2, <2>3
  <1>8. CASE TakesOverflow(i)
    <2>1. FirstSource(t, i) = [k \in 1 .. BlockSize |-> i]
      <3>1. overflow[sharedOverflow] = [k \in 1 .. BlockSize |-> i]
        BY <1>1, <1>8 DEF Pending, BlockOf
      <3>2. QED
        BY <1>8, <3>1 DEF FirstSource
    <2>2. BlockSize + B = size
      <3>1. size = A - s + e - (W - BlockSize)
        BY <1>2, <1>5, <1>8
      <3> HIDE DEF size, A, s, e, W, B
      <3>2. QED
        BY <1>2, <1>3, <1>4, <1>6, <3>1
    <2> HIDE DEF size
    <2>3. QED
      BY <1>6, <1>7, <2>1, <2>2 DEF size
  <1>9. CASE ~TakesOverflow(i) /\ TakesSwap(t, i)
    <2>1. ExcessKept(t, i)
      BY <1>1, <1>9 DEF Pending
    <2>2. Crosses(t, i) /\ SwapHolds(t, i)
      BY <1>9, <2>1 DEF ExcessKept
    <2>3. Excess(i) # {} /\ swap[t][1] = [k \in 1 .. W - e |-> i]
      BY <2>2 DEF Crosses, SwapHolds
    <2>4. FirstSource(t, i) = [k \in 1 .. W - e |-> i]
      BY <1>9, <2>3 DEF FirstSource
    <2>5. W - e \in Nat /\ (W - e) + B = size
      <3>1. size = A - s /\ e < W
        BY <1>2, <1>5, <1>9, <2>3
      <3> HIDE DEF size, A, s, e, W, B
      <3>2. QED
        BY <1>2, <1>3, <1>4, <3>1
    <2> HIDE DEF size
    <2>6. QED
      BY <1>7, <2>4, <2>5 DEF size
  <1>10. CASE ~TakesOverflow(i) /\ ~TakesSwap(t, i)
    <2>1. ExcessKept(t, i)
      BY <1>1, <1>10 DEF Pending
    <2>2. Kept(i)
      BY <1>10, <2>1 DEF ExcessKept, SwapHolds
    <2>3. FirstSource(t, i) = [k \in 1 .. Cardinality(Excess(i)) |-> a[e + k - 1]]
      BY <1>10 DEF FirstSource
    <2>4. CASE Excess(i) = {}
      <3>1. Cardinality(Excess(i)) = 0
        BY <2>4, FS_EmptySet
      <3>2. FirstSource(t, i) = [k \in 1 .. 0 |-> i]
        BY <2>3, <3>1
      <3>3. 0 + B = size
        <4>1. size = A - s + e - W
          BY <1>2, <1>5, <1>10, <2>4
        <4> HIDE DEF size, A, s, e, W, B
        <4>2. QED
          BY <1>2, <1>3, <1>4, <4>1
      <3> HIDE DEF size
      <3>4. QED
        BY <1>7, <3>2, <3>3 DEF size
    <2>5. CASE Excess(i) # {}
      <3>1. Excess(i) = e .. W - 1 /\ e < W
        BY <1>2, <2>5
      <3>2. Cardinality(Excess(i)) = W - e
        <4>1. e \in Int /\ W - 1 \in Int /\ e <= W - 1
          BY <1>2, <3>1
        <4>2. Cardinality(e .. W - 1) = (W - 1) - e + 1
          BY <4>1, FS_Interval
        <4>3. QED
          BY <1>2, <3>1, <4>2
      <3>3. \A k \in 1 .. W - e : e + k - 1 \in Excess(i)
        BY <1>2, <3>1
      <3>4. FirstSource(t, i) = [k \in 1 .. W - e |-> i]
        BY <2>2, <2>3, <3>2, <3>3 DEF Kept
      <3>5. W - e \in Nat /\ (W - e) + B = size
        <4>1. size = A - s
          BY <1>5, <1>10, <2>5
        <4> HIDE DEF size, A, s, e, W, B
        <4>2. QED
          BY <1>2, <1>3, <1>4, <3>1, <4>1
      <3> HIDE DEF size
      <3>6. QED
        BY <1>7, <3>4, <3>5 DEF size
    <2>6. QED
      BY <2>4, <2>5
  <1>11. QED
    BY <1>8, <1>9, <1>10

(* Where they go: places of the bucket, and all those its blocks do not    *)
(* fill.                                                                   *)
LEMMA MarginSlots ==
    ASSUME Shape, NEW i \in Bucket, BlocksLeft(i),
           NEW n \in Nat, n = IF ~TakesOverflow(i) /\ Excess(i) # {} THEN HeadRoom(i)
                              ELSE HeadRoom(i) + bucketStart[i + 1] - TailAt(i)
    PROVE  /\ \A k \in 1 .. n : Slot(i, k) \in bucketStart[i] .. bucketStart[i + 1] - 1
           /\ \A p \in bucketStart[i] .. bucketStart[i + 1] - 1 :
                 (\E k \in 1 .. n : Slot(i, k) = p) \/ p \in AreaStart(i) .. TailAt(i) - 1
  <1> DEFINE s == bucketStart[i]
             e == bucketStart[i + 1]
             A == AreaStart(i)
             W == ptr[i].w
  <1> SUFFICES ASSUME NEW H, H = HeadRoom(i), NEW z, z = TailAt(i)
               PROVE  /\ \A k \in 1 .. n : Slot(i, k) \in s .. e - 1
                      /\ \A p \in s .. e - 1 :
                            (\E k \in 1 .. n : Slot(i, k) = p) \/ p \in A .. z - 1
    OBVIOUS
  <1>1. /\ s \in Nat /\ e \in Nat /\ A \in Nat /\ W \in Int
        /\ s <= A /\ s <= e
        /\ Excess(i) # {} => A < e /\ e < W
        /\ Excess(i) = {} => W <= e \/ W = A
        /\ TakesOverflow(i) => A <= z /\ z < e /\ z = W - BlockSize
        /\ ~TakesOverflow(i) => z = W
    BY BlocksEnd
  <1>2. A <= W /\ BlockSize \in Int
    BY Sizes DEF BlocksLeft
  <1>3. H = A - s /\ H \in Nat
    BY <1>1 DEF HeadRoom, BlockStart, AreaStart
  <1>4. \A k : Slot(i, k) = IF k <= H THEN s + k - 1 ELSE z + k - H - 1
    BY DEF Slot
  <1>5. z \in Int /\ A <= z
    BY <1>1, <1>2
  <1>6. \/ n = H /\ A < e /\ e < z
        \/ n = H + e - z /\ (z <= e \/ z = A)
    <2>1. CASE ~TakesOverflow(i) /\ Excess(i) # {}
      BY <1>1, <2>1
    <2>2. CASE ~TakesOverflow(i) /\ Excess(i) = {}
      BY <1>1, <2>2
    <2>3. CASE TakesOverflow(i)
      BY <1>1, <1>5, <2>3
    <2>4. QED
      BY <2>1, <2>2, <2>3
  <1> HIDE DEF s, e, A, W
  <1>7. ASSUME NEW k \in 1 .. n PROVE Slot(i, k) \in s .. e - 1
    <2>1. CASE k <= H
      BY <1>1, <1>3, <1>4, <1>5, <1>6, <2>1
    <2>2. CASE ~(k <= H)
      BY <1>1, <1>3, <1>4, <1>5, <1>6, <2>2
    <2>3. QED
      BY <2>1, <2>2
  <1>8. ASSUME NEW p \in s .. e - 1, p \notin A .. z - 1
        PROVE  \E k \in 1 .. n : Slot(i, k) = p
    <2>1. CASE p < A
      <3>1. p - s + 1 \in 1 .. n /\ p - s + 1 <= H
        BY <1>1, <1>3, <1>5, <1>6, <2>1
      <3>2. Slot(i, p - s + 1) = p
        BY <1>1, <1>3, <1>4, <3>1
      <3>3. QED
        BY <3>1, <3>2
    <2>2. CASE ~(p < A)
      <3>1. z <= p /\ p \in Int
        BY <1>1, <1>5, <1>8, <2>2
      <3>2. p - z + H + 1 \in 1 .. n /\ ~(p - z + H + 1 <= H)
        BY <1>1, <1>3, <1>5, <1>6, <1>8, <3>1
      <3>3. Slot(i, p - z + H + 1) = p
        BY <1>1, <1>3, <1>4, <1>5, <3>1, <3>2
      <3>4. QED
        BY <3>2, <3>3
    <2>3. QED
      BY <2>1, <2>2
  <1>9. QED
    BY <1>7, <1>8

(* A thread works on a bucket of its own.                                  *)
LEMMA OwnMargin ==
    ASSUME MarginBase, NEW t \in Thread, pc[t] = "margins", me[t].bucket < LastBucket(t)
    PROVE  /\ me[t].bucket \in Bucket /\ Owns(t, me[t].bucket) /\ ~MarginDone(t, me[t].bucket)
           /\ pc \in [Thread -> {"margins", "done"}]
  <1>1. /\ me[t].bucket \in Int /\ FirstBucket(t) <= me[t].bucket
        /\ FirstBucket(t) \in 0 .. NumBuckets /\ LastBucket(t) \in 0 .. NumBuckets
        /\ NumBuckets \in Nat
    BY OwnBuckets DEF MarginBase, MarginTypes, MarginPhase, MarginLocals, Shape
  <1>2. me[t].bucket \in Bucket /\ Owns(t, me[t].bucket)
    BY <1>1 DEF Bucket, Owns
  <1>3. ~MarginDone(t, me[t].bucket)
    BY <1>1 DEF MarginDone
  <1>4. pc \in [Thread -> {"margins", "done"}]
    BY DEF MarginBase, MarginPhase
  <1>5. QED
    BY <1>2, <1>3, <1>4

(* After it the bucket is filled, and other places have kept their         *)
(* elements, but for those its excess elements came from.                  *)
LEMMA MarginWritten ==
    ASSUME MarginInv, NEW t \in Thread, NEW i, i = me[t].bucket, WriteMargin(t)
    PROVE  /\ FilledBy(i)'
           /\ \A p \in 0 .. N - 1 :
                 p \notin bucketStart[i] .. bucketStart[i + 1] - 1 /\ (p \notin Excess(i) \/ Crosses(t, i))
                    => a'[p] = a[p]
  <1>1. pc[t] = "margins" /\ i < LastBucket(t) /\ bucketStart' = bucketStart
    BY DEF WriteMargin
  <1>2. i \in Bucket /\ Owns(t, i) /\ ~MarginDone(t, i)
    BY <1>1, OwnMargin DEF MarginInv
  <1>3. MarginTypes /\ Shape /\ BlocksLeft(i) /\ Pending(t, i)
    BY <1>2 DEF MarginInv, MarginBase, MarginTypes
  <1> DEFINE source == FirstSource(t, i) \o FromBuffers(i)
             taken == IF TakesOverflow(i) \/ TakesSwap(t, i) THEN {} ELSE Excess(i)
             K(p) == {k \in DOMAIN source : Slot(i, k) = p}
  <1>4. PICK n \in Nat : /\ source = [k \in 1 .. n |-> i]
                         /\ n = IF ~TakesOverflow(i) /\ Excess(i) # {} THEN HeadRoom(i)
                                ELSE HeadRoom(i) + bucketStart[i + 1] - TailAt(i)
    BY <1>1, <1>2, MarginSource
  <1>5. /\ \A k \in 1 .. n : Slot(i, k) \in bucketStart[i] .. bucketStart[i + 1] - 1
        /\ \A p \in bucketStart[i] .. bucketStart[i + 1] - 1 :
              (\E k \in 1 .. n : Slot(i, k) = p) \/ p \in AreaStart(i) .. TailAt(i) - 1
    BY <1>2, <1>3, <1>4, MarginSlots
  <1>6. a' = [p \in DOMAIN a |-> IF K(p) # {} THEN source[CHOOSE k \in K(p) : TRUE]
                                 ELSE IF p \in taken THEN Gone ELSE a[p]]
    BY DEF WriteMargin
  <1>7. /\ bucketStart[i] \in Nat /\ bucketStart[i + 1] \in Nat /\ bucketStart[i + 1] <= N /\ N \in Nat
        /\ AreaStart(i) \in Nat /\ ptr[i].w \in Int
        /\ \A p \in Excess(i) : p >= bucketStart[i + 1]
    BY <1>2, <1>3, BlocksEnd DEF Shape
  <1>8. DOMAIN source = 1 .. n /\ \A k \in 1 .. n : source[k] = i
    BY <1>4
  <1>9. \A p : K(p) # {} => source[CHOOSE k \in K(p) : TRUE] = i
    <2> SUFFICES ASSUME NEW p, K(p) # {} PROVE source[CHOOSE k \in K(p) : TRUE] = i
      OBVIOUS
    <2>1. (CHOOSE k \in K(p) : TRUE) \in K(p)
      OBVIOUS
    <2>2. (CHOOSE k \in K(p) : TRUE) \in 1 .. n
      BY <1>8, <2>1
    <2>3. QED
      BY <1>8, <2>2
  <1> DEFINE V(p) == source[CHOOSE k \in K(p) : TRUE]
  <1>10. ASSUME NEW p \in bucketStart[i] .. bucketStart[i + 1] - 1
         PROVE  a'[p] = i
    <2>1. p \in DOMAIN a
      BY <1>3, <1>7 DEF MarginTypes
    <2>2. p \notin taken
      BY <1>7
    <2>3. CASE K(p) # {}
      BY <1>6, <1>9, <2>1, <2>3
    <2>4. CASE K(p) = {}
      <3>1. p \in AreaStart(i) .. TailAt(i) - 1
        <4>1. ~\E k \in 1 .. n : Slot(i, k) = p
          BY <1>8, <2>4
        <4>2. QED
          BY <1>5, <4>1
      <3>2. a[p] = i
        BY <1>3, <1>7, <3>1 DEF Pending, Whole
      <3>3. QED
        BY <1>6, <2>1, <2>2, <2>4, <3>2
    <2>5. QED
      BY <2>3, <2>4
  <1>11. ASSUME NEW p \in 0 .. N - 1, p \notin bucketStart[i] .. bucketStart[i + 1] - 1,
                p \notin Excess(i) \/ Crosses(t, i)
         PROVE  a'[p] = a[p]
    <2>1. p \in DOMAIN a
      BY <1>3 DEF MarginTypes
    <2>2. K(p) = {}
      BY <1>5, <1>8, <1>11
    <2>3. p \notin taken
      <3>1. Crosses(t, i) /\ ~TakesOverflow(i) => TakesSwap(t, i)
        BY <1>1, <1>3 DEF Pending, ExcessKept, SwapHolds
      <3>2. QED
        BY <1>11, <3>1
    <2>4. QED
      BY <1>6, <2>1, <2>2, <2>3
  <1>12. FilledBy(i)'
    BY <1>1, <1>10 DEF FilledBy
  <1>13. QED
    BY <1>11, <1>12

(* What writing the margin of bucket i leaves alone of other buckets.      *)
LEMMA OtherMargins ==
    ASSUME MarginInv, NEW t \in Thread, NEW i, i = me[t].bucket, WriteMargin(t),
           NEW v \in Thread, NEW j \in Bucket, Owns(v, j), i # j
    PROVE  /\ MarginDone(v, j) => FilledBy(j)'
           /\ \A p \in AreaStart(j) .. TailAt(j) - 1 : p < bucketStart[j + 1] => a'[p] = a[p]
           /\ ~MarginDone(v, j) /\ ~TakesOverflow(j) /\ ~Crosses(v, j) =>
                 \A p \in Excess(j) : a'[p] = a[p]
  <1>1. pc[t] = "margins" /\ i < LastBucket(t) /\ bucketStart' = bucketStart
    BY DEF WriteMargin
  <1>2. i \in Bucket /\ Owns(t, i) /\ ~MarginDone(t, i)
    BY <1>1, OwnMargin DEF MarginInv
  <1>3. MarginTypes /\ Shape /\ BlocksLeft(i) /\ BlocksLeft(j)
    BY <1>2 DEF MarginInv, MarginBase, MarginTypes
  <1>4. \A p \in 0 .. N - 1 :
           p \notin bucketStart[i] .. bucketStart[i + 1] - 1 /\ (p \notin Excess(i) \/ Crosses(t, i))
              => a'[p] = a[p]
    BY MarginWritten
  <1>5. /\ bucketStart[i] \in Nat /\ bucketStart[i + 1] \in Nat /\ bucketStart[i] <= bucketStart[i + 1]
        /\ bucketStart[j] \in Nat /\ bucketStart[j + 1] \in Nat /\ bucketStart[j] <= bucketStart[j + 1]
        /\ bucketStart[j + 1] <= N /\ N \in Nat /\ i \in Int /\ j \in Int
        /\ AreaStart(i) \in Nat /\ AreaStart(j) \in Nat /\ ptr[i].w \in Int /\ ptr[j].w \in Int
        /\ bucketStart[j] <= AreaStart(j)
        /\ \A p \in Excess(i) : /\ p \in Int /\ bucketStart[i + 1] <= p /\ p < ptr[i].w
                                /\ AreaStart(i) < bucketStart[i + 1]
        /\ \A p \in Excess(j) : /\ p \in Int /\ bucketStart[j + 1] <= p /\ p < ptr[j].w
                                /\ AreaStart(j) < bucketStart[j + 1] /\ AreaStart(j) < ptr[j].w
        /\ TailAt(j) \in Int /\ TailAt(j) <= ptr[j].w
    <2>1. /\ bucketStart[i] \in Nat /\ bucketStart[i + 1] \in Nat /\ bucketStart[i] <= bucketStart[i + 1]
          /\ AreaStart(i) \in Nat /\ ptr[i].w \in Int
          /\ Excess(i) = IF AreaStart(i) < ptr[i].w /\ bucketStart[i + 1] < ptr[i].w
                         THEN bucketStart[i + 1] .. ptr[i].w - 1 ELSE {}
          /\ Excess(i) # {} => AreaStart(i) < bucketStart[i + 1]
      BY <1>2, <1>3, BlocksEnd
    <2>2. /\ bucketStart[j] \in Nat /\ bucketStart[j + 1] \in Nat /\ bucketStart[j] <= bucketStart[j + 1]
          /\ AreaStart(j) \in Nat /\ ptr[j].w \in Int /\ bucketStart[j] <= AreaStart(j)
          /\ bucketStart[j + 1] <= N
          /\ Excess(j) = IF AreaStart(j) < ptr[j].w /\ bucketStart[j + 1] < ptr[j].w
                         THEN bucketStart[j + 1] .. ptr[j].w - 1 ELSE {}
          /\ Excess(j) # {} => AreaStart(j) < bucketStart[j + 1]
      BY <1>3, BlocksEnd
    <2>3. TailAt(j) \in Int /\ TailAt(j) <= ptr[j].w
      BY <2>2, Sizes DEF TailAt
    <2>4. N \in Nat /\ i \in Int /\ j \in Int
      BY <1>2, <1>3 DEF Bucket, Shape
    <2>5. \A p \in Excess(i) : /\ p \in Int /\ bucketStart[i + 1] <= p /\ p < ptr[i].w
                               /\ AreaStart(i) < bucketStart[i + 1]
      BY <2>1
    <2>6. \A p \in Excess(j) : /\ p \in Int /\ bucketStart[j + 1] <= p /\ p < ptr[j].w
                               /\ AreaStart(j) < bucketStart[j + 1] /\ AreaStart(j) < ptr[j].w
      BY <2>2
    <2>7. QED
      BY <2>1, <2>2, <2>3, <2>4, <2>5, <2>6
  <1>6. i < j => bucketStart[i + 1] <= bucketStart[j]
    BY <1>2, <1>3, <1>5 DEF Bucket, Shape
  <1>7. j < i => bucketStart[j + 1] <= bucketStart[i]
    BY <1>2, <1>3, <1>5 DEF Bucket, Shape
  <1>8. ASSUME NEW p \in Int, AreaStart(j) <= p, p < ptr[j].w
        PROVE  p \notin Excess(i)
    <2>1. AreaEnd(i) <= AreaStart(j) \/ AreaEnd(j) <= AreaStart(i)
      BY <1>2, <1>3, AreasApart
    <2>2. AreaEnd(i) \in Nat /\ AreaEnd(j) \in Nat /\ ptr[i].w <= AreaEnd(i) /\ ptr[j].w <= AreaEnd(j)
      BY <1>2, <1>3, Areas DEF BlocksLeft
    <2>3. QED
      BY <1>5, <1>8, <2>1, <2>2
  <1>9. \A p \in bucketStart[j] .. bucketStart[j + 1] - 1 :
           p \in 0 .. N - 1 /\ p \notin bucketStart[i] .. bucketStart[i + 1] - 1
    BY <1>5, <1>6, <1>7
  <1>10. ASSUME NEW p \in AreaStart(j) .. TailAt(j) - 1, p < bucketStart[j + 1]
         PROVE  a'[p] = a[p]
    <2>1. p \in bucketStart[j] .. bucketStart[j + 1] - 1 /\ p \in Int /\ AreaStart(j) <= p /\ p < ptr[j].w
      BY <1>5, <1>10
    <2>2. QED
      BY <1>4, <1>8, <1>9, <2>1
  <1>11. ASSUME MarginDone(v, j)
         PROVE  FilledBy(j)'
    <2>1. FilledBy(j)
      BY <1>11 DEF MarginInv
    <2>2. ASSUME NEW p \in bucketStart[j] .. bucketStart[j + 1] - 1
          PROVE  p \notin Excess(i) \/ Crosses(t, i)
      <3>1. SUFFICES ASSUME p \in Excess(i), ~Crosses(t, i) PROVE FALSE
        OBVIOUS
      <3>2. ptr[i].w <= bucketStart[LastBucket(t)] /\ bucketStart[LastBucket(t)] \in Int
            /\ LastBucket(t) \in 0 .. NumBuckets
        BY <1>3, <1>5, <3>1, OwnBuckets DEF Crosses, Shape
      <3>3. ~(j < i)
        BY <1>5, <1>7, <2>2, <3>1
      <3>4. ~(LastBucket(t) <= j)
        <4>1. LastBucket(t) <= j => bucketStart[LastBucket(t)] <= bucketStart[j]
          BY <1>3, <3>2, Areas DEF Shape
        <4>2. QED
          BY <1>5, <2>2, <3>1, <3>2, <4>1
      <3>5. Owns(t, j)
        BY <1>2, <1>3, <1>5, <3>2, <3>3, <3>4, OwnBuckets DEF Owns, Shape
      <3>6. v = t
        BY <1>3, <3>5, OneOwner
      <3>7. QED
        BY <1>5, <1>11, <3>3, <3>6 DEF MarginDone
    <2>3. \A p \in bucketStart[j] .. bucketStart[j + 1] - 1 : a'[p] = j
      BY <1>4, <1>9, <2>1, <2>2 DEF FilledBy
    <2>4. QED
      BY <1>1, <2>3 DEF FilledBy
  <1>12. ASSUME ~MarginDone(v, j), ~TakesOverflow(j), ~Crosses(v, j), NEW p \in Excess(j)
         PROVE  a'[p] = a[p]
    <2>1. /\ p \in Int /\ bucketStart[j + 1] <= p /\ p < ptr[j].w
          /\ AreaStart(j) < bucketStart[j + 1] /\ AreaStart(j) < ptr[j].w
      BY <1>5, <1>12
    <2>2. ptr[j].w <= N
      BY <1>3, <1>12, <2>1 DEF BlocksLeft
    <2>3. p \notin Excess(i) /\ p \in 0 .. N - 1
      BY <1>5, <1>8, <2>1, <2>2
    <2>4. p \notin bucketStart[i] .. bucketStart[i + 1] - 1
      <3>1. CASE i < j
        BY <1>5, <1>6, <2>1, <3>1
      <3>2. CASE j < i
        <4>1. v # t
          <5>1. SUFFICES ASSUME v = t PROVE FALSE
            OBVIOUS
          <5>2. QED
            BY <1>1, <1>12, <3>2, <5>1 DEF MarginDone
        <4>2. LastBucket(v) <= i
          <5>1. /\ FirstBucket(t) \in Int /\ LastBucket(t) \in Int
                /\ FirstBucket(v) \in Int /\ LastBucket(v) \in Int
                /\ t \in Int /\ v \in Int
            BY <1>3, OwnBuckets DEF Thread, Shape
          <5>2. /\ t < v => LastBucket(t) <= FirstBucket(v)
                /\ v < t => LastBucket(v) <= FirstBucket(t)
            BY <1>3, OwnBuckets
          <5>3. QED
            BY <1>2, <1>5, <3>2, <4>1, <5>1, <5>2 DEF Owns
        <4>3. bucketStart[LastBucket(v)] <= bucketStart[i] /\ bucketStart[LastBucket(v)] \in Int
          BY <1>2, <1>3, <4>2, OwnBuckets, Areas DEF Shape
        <4>4. ptr[j].w <= bucketStart[LastBucket(v)]
          BY <1>5, <1>12, <4>3 DEF Crosses
        <4>5. QED
          BY <1>5, <2>1, <4>3, <4>4
      <3>3. QED
        BY <1>5, <3>1, <3>2
    <2>5. QED
      BY <1>4, <2>3, <2>4
  <1>13. QED
    BY <1>10, <1>11, <1>12

(* The buckets not written keep all that is pending.                       *)
LEMMA WriteKeepsPending ==
    ASSUME MarginInv, NEW t \in Thread, NEW i, i = me[t].bucket, WriteMargin(t),
           NEW v \in Thread, NEW j \in Bucket, Owns(v, j), i # j, ~MarginDone(v, j)
    PROVE  Pending(v, j)'
  <1>1. /\ pc[t] = "margins" /\ i < LastBucket(t)
        /\ buffers' = [u \in Thread |-> [buffers[u] EXCEPT ![i] = 0]]
        /\ overflow' = IF TakesOverflow(i) THEN [overflow EXCEPT ![sharedOverflow] = <<>>]
                       ELSE overflow
        /\ swap' = IF ~TakesOverflow(i) /\ TakesSwap(t, i) THEN [swap EXCEPT ![t][1] = <<>>] ELSE swap
        /\ UNCHANGED <<input, bucketStart, ptr, reading, pc,
                       firstBlock, firstEmpty, move, saved, sharedOverflow>>
    BY DEF WriteMargin
  <1>2. /\ i \in Bucket /\ MarginTypes /\ Shape /\ Pending(v, j)
        /\ pc \in [Thread -> {"margins", "done"}]
    BY <1>1, OwnMargin DEF MarginInv, MarginBase, MarginTypes
  <1>3. /\ Thread' = Thread /\ Size(j)' = Size(j) /\ AreaStart(j)' = AreaStart(j) /\ Excess(j)' = Excess(j)
        /\ TakesOverflow(j)' <=> TakesOverflow(j)
        /\ TailAt(j)' = TailAt(j)
        /\ Crosses(v, j)' <=> Crosses(v, j)
    BY <1>1, MarginFrame
  <1>4. /\ \A p \in AreaStart(j) .. TailAt(j) - 1 : p < bucketStart[j + 1] => a'[p] = a[p]
        /\ ~TakesOverflow(j) /\ ~Crosses(v, j) => \A p \in Excess(j) : a'[p] = a[p]
    BY OtherMargins
  <1>5. InBuffers(j)' = InBuffers(j)
    <2>1. \A u \in Thread : buffers'[u][j] = buffers[u][j]
      BY <1>1, <1>2 DEF MarginTypes
    <2>2. [u \in Thread |-> buffers'[u][j]] = [u \in Thread |-> buffers[u][j]]
      BY <2>1
    <2>3. QED
      BY <1>3, <2>2 DEF InBuffers
  <1>6. Whole(j)'
    BY <1>1, <1>2, <1>3, <1>4 DEF Pending, Whole
  <1>7. TakesOverflow(j) => overflow'[sharedOverflow] = BlockOf(j)' /\ sharedOverflow' = sharedOverflow
    <2>1. TakesOverflow(j) => ~TakesOverflow(i)
      BY DEF TakesOverflow
    <2>2. BlockOf(j)' = BlockOf(j)
      BY DEF BlockOf
    <2>3. QED
      BY <1>1, <1>2, <2>1, <2>2 DEF Pending
  <1>8. ~TakesOverflow(j) => ExcessKept(v, j)'
    <2>1. SUFFICES ASSUME ~TakesOverflow(j) PROVE ExcessKept(v, j)'
      OBVIOUS
    <2>2. ExcessKept(v, j) /\ pc[v] # "save" /\ pc'[v] = pc[v]
      BY <1>1, <1>2, <2>1 DEF Pending
    <2>3. CASE Crosses(v, j)
      <3>1. SwapHolds(v, j)
        BY <2>2, <2>3 DEF ExcessKept
      <3>2. swap'[v][1] = swap[v][1]
        <4>1. CASE v = t
          BY <1>1, <3>1, <4>1 DEF SwapHolds, TakesSwap
        <4>2. CASE v # t
          BY <1>1, <1>2, <4>2 DEF MarginTypes
        <4>3. QED
          BY <4>1, <4>2
      <3>3. SwapHolds(v, j)'
        BY <1>1, <3>1, <3>2 DEF SwapHolds, TakesSwap
      <3>4. QED
        BY <1>3, <2>2, <2>3, <3>3 DEF ExcessKept
    <2>4. CASE ~Crosses(v, j)
      <3>1. Kept(j) /\ \A u \in Thread : ~TakesSwap(u, j)
        BY <2>2, <2>4 DEF ExcessKept
      <3>2. Kept(j)'
        BY <1>3, <1>4, <2>1, <2>4, <3>1 DEF Kept
      <3>3. \A u \in Thread' : ~TakesSwap(u, j)'
        BY <1>1, <1>3, <3>1 DEF TakesSwap
      <3>4. QED
        BY <1>3, <2>4, <3>2, <3>3 DEF ExcessKept
    <2>5. QED
      BY <2>3, <2>4
  <1>9. QED
    BY <1>1, <1>2, <1>3, <1>5, <1>6, <1>7, <1>8 DEF Pending

(* Writing a margin moves nothing of what bounds them.                     *)
LEMMA WriteMarginBase ==
    ASSUME MarginBase, NEW t \in Thread, WriteMargin(t)
    PROVE  MarginBase'
  <1> SUFFICES ASSUME NEW i, i = me[t].bucket PROVE MarginBase'
    OBVIOUS
  <1>1. /\ pc[t] = "margins" /\ i < LastBucket(t)
        /\ DOMAIN a' = DOMAIN a
        /\ buffers' = [u \in Thread |-> [buffers[u] EXCEPT ![i] = 0]]
        /\ overflow' = IF TakesOverflow(i) THEN [overflow EXCEPT ![sharedOverflow] = <<>>]
                       ELSE overflow
        /\ swap' = IF ~TakesOverflow(i) /\ TakesSwap(t, i) THEN [swap EXCEPT ![t][1] = <<>>] ELSE swap
        /\ me' = [me EXCEPT ![t].bucket = i + 1]
        /\ UNCHANGED <<input, bucketStart, ptr, reading, pc,
                       firstBlock, firstEmpty, move, saved, sharedOverflow>>
    BY DEF WriteMargin
  <1>2. /\ i \in Bucket /\ Owns(t, i) /\ MarginTypes /\ MarginPhase /\ Shape
        /\ pc \in [Thread -> {"margins", "done"}]
    BY <1>1, OwnMargin DEF MarginBase, MarginTypes
  <1>3. /\ N' = N /\ NumBuckets' = NumBuckets /\ Thread' = Thread /\ Bucket' = Bucket /\ Shape'
        /\ \A j : /\ Excess(j)' = Excess(j)
                  /\ TakesOverflow(j)' <=> TakesOverflow(j)
                  /\ BlocksLeft(j)' <=> BlocksLeft(j)
        /\ \A v : FirstBucket(v)' = FirstBucket(v) /\ LastBucket(v)' = LastBucket(v)
        /\ \A v, j : Owns(v, j)' <=> Owns(v, j)
    BY <1>1, <1>2, MarginFrame
  <1>4. /\ me'[t].bucket = i + 1 /\ i \in Int
        /\ \A v \in Thread \ {t} : me'[v] = me[v]
        /\ me' \in [Thread -> MarginLocals]
    <2>1. i \in Int
      BY <1>2 DEF Bucket, Shape
    <2>2. me'[t].bucket = i + 1 /\ \A v \in Thread \ {t} : me'[v] = me[v]
      BY <1>1, <1>2 DEF MarginTypes, MarginLocals
    <2>3. me' = [me EXCEPT ![t] = [me[t] EXCEPT !.bucket = i + 1]] /\ me[t] \in MarginLocals
      BY <1>1, <1>2 DEF MarginTypes
    <2>4. [me[t] EXCEPT !.bucket = i + 1] \in MarginLocals
      BY <2>1, <2>3 DEF MarginLocals
    <2>5. me' \in [Thread -> MarginLocals]
      BY <1>2, <2>3, <2>4 DEF MarginTypes
    <2>6. QED
      BY <2>1, <2>2, <2>5
  <1>5. MarginTypes'
    <2>1. DOMAIN swap' = Thread /\ \A v \in Thread : DOMAIN swap'[v] = 1 .. 2
      BY <1>1, <1>2 DEF MarginTypes
    <2>2. DOMAIN overflow' = Thread
      BY <1>1, <1>2 DEF MarginTypes
    <2>3. buffers' \in [Thread -> [Bucket -> Nat]]
      BY <1>1, <1>2 DEF MarginTypes
    <2>4. QED
      BY <1>1, <1>2, <1>3, <1>4, <2>1, <2>2, <2>3 DEF MarginTypes, MarginLocals
  <1>6. MarginPhase'
    <2>1. pc' \in [Thread' -> {"margins", "done"}]
      BY <1>1, <1>2, <1>3
    <2>2. ASSUME NEW v \in Thread PROVE FirstBucket(v) <= me'[v].bucket /\ pc[v] # "save" /\ pc[v] # "saved"
                                        /\ (pc[v] = "done" => LastBucket(v) <= me'[v].bucket)
      <3>1. pc[v] # "save" /\ pc[v] # "saved"
        BY <1>2
      <3>2. FirstBucket(v) <= me[v].bucket /\ (pc[v] = "done" => LastBucket(v) <= me[v].bucket)
        BY <1>2, <3>1 DEF MarginPhase
      <3>3. FirstBucket(v) \in Int
        BY <1>2, OwnBuckets DEF Shape
      <3>4. QED
        BY <1>1, <1>4, <3>1, <3>2, <3>3
    <2>3. QED
      BY <1>1, <1>3, <2>1, <2>2 DEF MarginPhase
  <1>7. \A j \in Bucket' : BlocksLeft(j)'
    BY <1>3 DEF MarginBase
  <1>8. \A u \in Thread', b \in Bucket' : TakesSwap(u, b)' => SavedMargin(u, b)'
    <2>1. SUFFICES ASSUME NEW u \in Thread, NEW b \in Bucket, TakesSwap(u, b)' PROVE SavedMargin(u, b)'
      BY <1>3
    <2>2. TakesSwap(u, b)
      BY <1>1, <2>1 DEF TakesSwap
    <2>3. SavedMargin(u, b)
      BY <2>2 DEF MarginBase
    <2>4. /\ Excess(b)' = Excess(b) /\ LastBucket(u)' = LastBucket(u)
          /\ TakesOverflow(b)' <=> TakesOverflow(b)
      BY <1>3
    <2>5. QED
      BY <1>1, <2>3, <2>4 DEF SavedMargin
  <1>9. QED
    BY <1>3, <1>5, <1>6, <1>7, <1>8 DEF MarginBase

(* Writing a margin fills its bucket and leaves the others as they were.   *)
LEMMA WriteMarginStep ==
    ASSUME MarginInv, NEW t \in Thread, WriteMargin(t)
    PROVE  MarginInv'
  <1> SUFFICES ASSUME NEW i, i = me[t].bucket PROVE MarginInv'
    OBVIOUS
  <1>1. /\ pc[t] = "margins" /\ i < LastBucket(t)
        /\ DOMAIN a' = DOMAIN a
        /\ buffers' = [u \in Thread |-> [buffers[u] EXCEPT ![i] = 0]]
        /\ overflow' = IF TakesOverflow(i) THEN [overflow EXCEPT ![sharedOverflow] = <<>>]
                       ELSE overflow
        /\ swap' = IF ~TakesOverflow(i) /\ TakesSwap(t, i) THEN [swap EXCEPT ![t][1] = <<>>] ELSE swap
        /\ me' = [me EXCEPT ![t].bucket = i + 1]
        /\ UNCHANGED <<input, bucketStart, ptr, reading, pc,
                       firstBlock, firstEmpty, move, saved, sharedOverflow>>
    BY DEF WriteMargin
  <1>2. /\ i \in Bucket /\ Owns(t, i) /\ MarginTypes /\ MarginPhase /\ Shape
        /\ pc \in [Thread -> {"margins", "done"}]
    BY <1>1, OwnMargin DEF MarginInv, MarginBase, MarginTypes
  <1>3. /\ N' = N /\ NumBuckets' = NumBuckets /\ Thread' = Thread /\ Bucket' = Bucket /\ Shape'
        /\ \A j : /\ Excess(j)' = Excess(j)
                  /\ TakesOverflow(j)' <=> TakesOverflow(j)
                  /\ BlocksLeft(j)' <=> BlocksLeft(j)
        /\ \A v : FirstBucket(v)' = FirstBucket(v) /\ LastBucket(v)' = LastBucket(v)
        /\ \A v, j : Owns(v, j)' <=> Owns(v, j)
    BY <1>1, <1>2, MarginFrame
  <1>4. me'[t].bucket = i + 1 /\ i \in Int /\ \A v \in Thread \ {t} : me'[v] = me[v]
    <2>1. i \in Int
      BY <1>2 DEF Bucket, Shape
    <2>2. QED
      BY <1>1, <1>2, <2>1 DEF MarginTypes, MarginLocals
  <1>5. ASSUME NEW v \in Thread, NEW j \in Bucket, Owns(v, j)
        PROVE  IF MarginDone(v, j)' THEN FilledBy(j)' ELSE Pending(v, j)'
    <2>1. CASE i = j
      <3>1. v = t
        BY <1>2, <1>5, <2>1, OneOwner
      <3>2. FilledBy(i)'
        BY MarginWritten
      <3>3. MarginDone(t, i)'
        BY <1>1, <1>4 DEF MarginDone
      <3>4. QED
        BY <2>1, <3>1, <3>2, <3>3
    <2>2. CASE i # j
      <3>1. MarginDone(v, j)' <=> MarginDone(v, j)
        <4>1. CASE v = t
          <5>1. j \in Int
            BY <1>2, <1>5 DEF Bucket, Shape
          <5>2. QED
            BY <1>1, <1>4, <2>2, <4>1, <5>1 DEF MarginDone
        <4>2. CASE v # t
          BY <1>1, <1>4, <4>2 DEF MarginDone
        <4>3. QED
          BY <4>1, <4>2
      <3>2. MarginDone(v, j) => FilledBy(j)'
        BY <1>5, <2>2, OtherMargins
      <3>3. ~MarginDone(v, j) => Pending(v, j)'
        BY <1>5, <2>2, WriteKeepsPending
      <3>4. QED
        BY <3>1, <3>2, <3>3
    <2>3. QED
      BY <2>1, <2>2
  <1>6. MarginBase'
    BY WriteMarginBase DEF MarginInv
  <1>7. QED
    BY <1>3, <1>5, <1>6 DEF MarginInv

(* A step that goes on to the next phase and writes nothing.               *)
Passing ==
    /\ UNCHANGED <<input, a, bucketStart, ptr, swap, overflow, me, buffers, saved, sharedOverflow>>
    /\ MarginPhase'
    /\ \A t \in Thread : pc'[t] = "save" <=> pc[t] = "save"
    /\ \A t \in Thread, i \in Bucket : Owns(t, i) => (MarginDone(t, i)' <=> MarginDone(t, i))

LEMMA PassingBase ==
    ASSUME MarginBase, Passing
    PROVE  MarginBase'
  <1> USE DEF Passing
  <1>1. MarginTypes
    BY DEF MarginBase
  <1>2. /\ N' = N /\ NumBuckets' = NumBuckets /\ Thread' = Thread /\ Bucket' = Bucket
        /\ Shape => Shape'
        /\ \A i : /\ Excess(i)' = Excess(i)
                  /\ TakesOverflow(i)' <=> TakesOverflow(i)
                  /\ BlocksLeft(i)' <=> BlocksLeft(i)
        /\ \A t : FirstBucket(t)' = FirstBucket(t) /\ LastBucket(t)' = LastBucket(t)
        /\ \A t, i : Owns(t, i)' <=> Owns(t, i)
        /\ \A t, i : Crosses(t, i)' <=> Crosses(t, i)
    BY MarginFrame
  <1>3. MarginTypes'
    BY <1>1, <1>2 DEF MarginTypes, MarginLocals
  <1>4. \A u, b : TakesSwap(u, b)' <=> TakesSwap(u, b)
    BY DEF TakesSwap
  <1>5. ASSUME NEW u \in Thread, NEW b \in Bucket, TakesSwap(u, b)'
        PROVE  SavedMargin(u, b)'
    <2>1. SavedMargin(u, b)
      BY <1>4, <1>5 DEF MarginBase
    <2>2. /\ Excess(b)' = Excess(b) /\ LastBucket(u)' = LastBucket(u)
          /\ TakesOverflow(b)' <=> TakesOverflow(b)
      BY <1>2
    <2>3. QED
      BY <2>1, <2>2 DEF SavedMargin
  <1>6. \A i \in Bucket : BlocksLeft(i)'
    BY <1>2 DEF MarginBase
  <1>7. QED
    BY <1>2, <1>3, <1>5, <1>6 DEF MarginBase

(* The accounts of the margins are not touched by it.                      *)
LEMMA PassingKeeps ==
    ASSUME MarginInv, Passing
    PROVE  MarginInv'
  <1> USE DEF Passing
  <1>1. /\ UNCHANGED <<input, a, bucketStart, ptr, swap, overflow, me, buffers, saved, sharedOverflow>>
        /\ \A t \in Thread : pc'[t] = "save" <=> pc[t] = "save"
        /\ \A t \in Thread, i \in Bucket : Owns(t, i) => (MarginDone(t, i)' <=> MarginDone(t, i))
    OBVIOUS
  <1>2. /\ N' = N /\ NumBuckets' = NumBuckets /\ Thread' = Thread /\ Bucket' = Bucket
        /\ Shape => Shape'
        /\ \A i : /\ Excess(i)' = Excess(i)
                  /\ TakesOverflow(i)' <=> TakesOverflow(i)
                  /\ BlocksLeft(i)' <=> BlocksLeft(i)
        /\ \A t : FirstBucket(t)' = FirstBucket(t) /\ LastBucket(t)' = LastBucket(t)
        /\ \A t, i : Owns(t, i)' <=> Owns(t, i)
        /\ \A t, i : Crosses(t, i)' <=> Crosses(t, i)
    BY MarginFrame
  <1>3. MarginBase'
    BY PassingBase DEF MarginInv
  <1>4. \A u, b : TakesSwap(u, b)' <=> TakesSwap(u, b)
    BY DEF TakesSwap
  <1>5. \A u, b : SwapHolds(u, b)' <=> SwapHolds(u, b)
    BY <1>4 DEF SwapHolds
  <1>6. ASSUME NEW t \in Thread, NEW i \in Bucket, Owns(t, i)
        PROVE  IF MarginDone(t, i)' THEN FilledBy(i)' ELSE Pending(t, i)'
    <2>1. CASE MarginDone(t, i)
      <3>1. FilledBy(i)
        BY <1>6, <2>1 DEF MarginInv
      <3>2. FilledBy(i)'
        BY <3>1 DEF FilledBy
      <3>3. QED
        BY <1>6, <2>1, <3>2
    <2>2. CASE ~MarginDone(t, i)
      <3>1. Pending(t, i)
        BY <1>6, <2>2 DEF MarginInv
      <3>2. Kept(i)' <=> Kept(i)
        BY <1>2 DEF Kept
      <3>3. ExcessKept(t, i)' <=> ExcessKept(t, i)
        BY <1>2, <1>4, <1>5, <3>2 DEF ExcessKept
      <3>4. Pending(t, i)'
        BY <3>1, <3>3, PendingKept DEF Pending
      <3>5. QED
        BY <1>6, <2>2, <3>4
    <2>3. QED
      BY <2>1, <2>2
  <1>7. QED
    BY <1>2, <1>3, <1>6 DEF MarginInv

(* The steps of the margins, up to the next partitioning step.             *)
LEMMA MarginSteps ==
    ASSUME MarginBase, [Next]_vars
    PROVE  Passing \/ \E t \in Thread : SaveMargins(t) \/ WriteMargin(t)
  <1>1. MarginTypes /\ MarginPhase /\ Shape /\ 0 \in Thread /\ pc \in [Thread -> Late]
    BY DEF MarginBase, MarginTypes, MarginPhase, Late, Shape, Thread
  <1>2. /\ \A t \in Thread : FirstBucket(t) \in Int /\ LastBucket(t) \in Int
        /\ \A t \in Thread : me[t].bucket \in Int
        /\ \A i \in Bucket : i \in Int
    <2>1. \A t \in Thread : FirstBucket(t) \in Int /\ LastBucket(t) \in Int
      BY <1>1, OwnBuckets DEF Shape
    <2>2. \A t \in Thread : me[t].bucket \in Int
      BY <1>1 DEF MarginTypes, MarginLocals
    <2>3. \A i \in Bucket : i \in Int
      BY <1>1 DEF Bucket, Shape
    <2>4. QED
      BY <2>1, <2>2, <2>3
  <1>3. ASSUME UNCHANGED <<input, bucketStart>>
        PROVE  /\ Thread' = Thread
               /\ \A t : FirstBucket(t)' = FirstBucket(t) /\ LastBucket(t)' = LastBucket(t)
    <2>1. Thread' = Thread /\ T' = T /\ NumBuckets' = NumBuckets
      BY <1>3, SameShape
    <2>2. QED
      BY <2>1 DEF FirstBucket, LastBucket, bucketsPerThread
  <1>4. CASE UNCHANGED vars
    <2>1. UNCHANGED <<input, a, bucketStart, ptr, swap, overflow, me, buffers, saved, sharedOverflow>>
          /\ pc' = pc
      BY <1>4 DEF vars
    <2>2. MarginPhase'
      BY <1>1, <1>3, <2>1 DEF MarginPhase
    <2>3. \A t, i : MarginDone(t, i)' <=> MarginDone(t, i)
      BY <2>1 DEF MarginDone
    <2>4. QED
      BY <2>1, <2>2, <2>3 DEF Passing
  <1>5. CASE Barriers
    <2>1. UNCHANGED <<input, a, bucketStart, ptr, swap, overflow, me, buffers, saved, sharedOverflow>>
      BY <1>5 DEF Barriers, mvars
    <2>2. Barrier("saved", "margins")
      BY <1>1, <1>5 DEF Barriers, Barrier, Late
    <2>3. /\ \A t \in Thread : pc[t] = "saved" /\ me[t].bucket = FirstBucket(t)
          /\ pc' = [t \in Thread |-> "margins"]
      BY <1>1, <2>2 DEF Barrier, MarginPhase
    <2>4. MarginPhase'
      <3>1. Thread' = Thread /\ \A t : FirstBucket(t)' = FirstBucket(t) /\ LastBucket(t)' = LastBucket(t)
        BY <1>3, <2>1
      <3>2. pc' \in [Thread -> {"margins", "done"}] /\ \A t \in Thread : pc'[t] = "margins"
        BY <2>3
      <3>3. \A t \in Thread : FirstBucket(t) <= me'[t].bucket
        BY <1>2, <2>1, <2>3
      <3>4. QED
        BY <3>1, <3>2, <3>3 DEF MarginPhase
    <2>5. \A t \in Thread, i \in Bucket : Owns(t, i) => (MarginDone(t, i)' <=> MarginDone(t, i))
      BY <1>2, <2>1, <2>3 DEF Owns, MarginDone
    <2>6. QED
      BY <2>1, <2>3, <2>4, <2>5 DEF Passing
  <1>6. ASSUME NEW t \in Thread, Step(t)
        PROVE  Passing \/ SaveMargins(t) \/ WriteMargin(t)
    <2>1. pc[t] \in Late
      BY <1>1
    <2>2. ~Classify(t) /\ ~SetPointers(t) /\ ~StartMove(t) /\ ~MoveBlocks(t) /\ ~EndMove(t)
          /\ ~Publish(t)
      BY <2>1 DEF Late, Classify, SetPointers, StartMove, MoveBlocks, EndMove, Publish
    <2>3. ~PermuteBlocks(t)
      BY <2>1 DEF Late, PermuteBlocks, PermuteStep, StartRead, DecRead, ReadBlock, StopRead,
                  NextBucket, IncWrite, WaitForReaders, WriteBlock, LookAtBlock
    <2>4. CASE SaveMargins(t) \/ WriteMargin(t)
      BY <2>4
    <2>6. CASE EndMargins(t)
      <3>1. /\ UNCHANGED <<input, a, bucketStart, ptr, swap, overflow, me, buffers, saved, sharedOverflow>>
            /\ pc[t] = "margins" /\ LastBucket(t) <= me[t].bucket
            /\ pc' = [pc EXCEPT ![t] = "done"]
        BY <1>2, <2>6 DEF EndMargins, Goto, mvars
      <3>2. /\ pc'[t] = "done" /\ \A u \in Thread \ {t} : pc'[u] = pc[u]
            /\ pc \in [Thread -> {"margins", "done"}] /\ pc' \in [Thread -> {"margins", "done"}]
        BY <1>1, <3>1 DEF MarginPhase
      <3>3. MarginPhase'
        <4>1. Thread' = Thread /\ \A u : FirstBucket(u)' = FirstBucket(u) /\ LastBucket(u)' = LastBucket(u)
          BY <1>3, <3>1
        <4>2. \A u \in Thread : pc[u] # "save" /\ FirstBucket(u) <= me'[u].bucket
          BY <1>1, <3>1, <3>2 DEF MarginPhase
        <4>3. \A u \in Thread : pc'[u] = "done" => LastBucket(u) <= me'[u].bucket
          BY <1>1, <3>1, <3>2 DEF MarginPhase
        <4>4. \A u \in Thread : pc'[u] # "saved"
          BY <3>2
        <4>5. QED
          BY <3>2, <4>1, <4>2, <4>3, <4>4 DEF MarginPhase
      <3>4. \A u \in Thread, i \in Bucket : MarginDone(u, i)' <=> MarginDone(u, i)
        BY <3>1, <3>2 DEF MarginDone
      <3>5. \A u \in Thread : pc'[u] = "save" <=> pc[u] = "save"
        BY <3>2
      <3>6. QED
        BY <3>1, <3>3, <3>4, <3>5 DEF Passing
    <2>7. QED
      BY <1>6, <2>2, <2>3, <2>4, <2>6 DEF Step
  <1>7. CASE Stop
    BY <1>4, <1>7 DEF Stop
  <1>8. QED
    BY <1>4, <1>5, <1>6, <1>7 DEF Next
LEMMA BaseStep ==
    ASSUME MarginBase, [Next]_vars
    PROVE  MarginBase'
  BY MarginSteps, PassingBase, SaveMarginsBase, WriteMarginBase

LEMMA MarginStep ==
    ASSUME MarginInv, [Next]_vars, MovesOnce'
    PROVE  MarginInv'
  <1>1. MarginBase
    BY DEF MarginInv
  <1>2. QED
    BY <1>1, MarginSteps, PassingKeeps, SaveMarginsStep, WriteMarginStep

-----------------------------------------------------------------------------
(* The accounts of a step                                                  *)

(* No element is lost or doubled, phase by phase: what has been classified *)
(* is in full blocks or buffers; the permutation has it in blocks, in the  *)
(* hands of threads or in an overflow block; the margins are left with it  *)
(* behind the ends of buckets, in swap blocks and buffers, until its       *)
(* bucket is filled.                                                       *)
Open ==
    \/ BeforePermutation /\ EarlyInv /\ EarlyAccount
    \/ PermInv /\ Progress /\ PermAccount
Account == Open \/ MarginInv

LEMMA OpenInit == Init => Open
  <1> SUFFICES ASSUME Init PROVE Open
    OBVIOUS
  <1>1. PhaseInv /\ ~PermInv /\ ~AfterPermutation
    <2>1. PhaseInv /\ Team
      BY InitHolds, InputsAssumption DEF InputsAssumption, Init, Team, T, NumBuckets, N
    <2>2. 0 \in Thread /\ pc[0] = "classify"
      BY <2>1, SomeThread DEF Init
    <2>3. ~PermInv
      BY <2>2 DEF PermInv, Types, Permuting
    <2>4. ~AfterPermutation
      BY <2>2 DEF AfterPermutation, Late
    <2>5. QED
      BY <2>1, <2>3, <2>4
  <1>2. EarlyAccount
    BY AccountInit
  <1>3. QED
    BY <1>1, <1>2 DEF PhaseInv, Open

(* One thread goes on from its permutation to the margins by itself.       *)
LEMMA PublishAlone ==
    ASSUME PermInv, Progress, PermAccount, NEW t \in Thread, Publish(t), T = 1
    PROVE  MarginInv'
  <1>1. Types /\ Shape /\ Thread = {t} /\ t # -1
    BY DEF PermInv, Thread
  <1>2. /\ pc[t] = "permuted" /\ pc' = [pc EXCEPT ![t] = "margins"]
        /\ me' = [me EXCEPT ![t].bucket = 0]
        /\ sharedOverflow' = IF overflow[t] # <<>> THEN t ELSE sharedOverflow
        /\ UNCHANGED <<input, a, bucketStart, ptr, swap, overflow, buffers, saved>>
    BY DEF Publish, Goto
  <1>3. me' \in [Thread -> Locals] /\ me'[t].bucket = 0
    <2>1. 0 \in Bucket
      BY <1>1 DEF Bucket, Shape
    <2>2. me' = [me EXCEPT ![t] = [me[t] EXCEPT !.bucket = 0]] /\ me[t] \in Locals
      BY <1>1, <1>2 DEF Types
    <2>3. [me[t] EXCEPT !.bucket = 0] \in Locals /\ [me[t] EXCEPT !.bucket = 0].bucket = 0
      BY <2>1, <2>2 DEF Locals
    <2>4. QED
      BY <1>1, <2>2, <2>3 DEF Types
  <1>4. pc' \in [Thread -> {"margins"}]
    BY <1>1, <1>2 DEF Types
  <1>5. \/ sharedOverflow' = -1 /\ \A u \in Thread : overflow[u] = <<>>
        \/ sharedOverflow' \in Thread /\ overflow[sharedOverflow'] # <<>>
    <2>1. CASE overflow[t] # <<>>
      BY <1>1, <1>2, <2>1
    <2>2. CASE overflow[t] = <<>>
      <3>1. sharedOverflow' = sharedOverflow
        BY <1>2, <2>2
      <3>2. sharedOverflow = -1 \/ (sharedOverflow \in Thread /\ overflow[sharedOverflow] # <<>>)
        BY DEF PermAccount
      <3>3. QED
        BY <1>1, <2>2, <3>1, <3>2
    <2>3. QED
      BY <2>1, <2>2
  <1>6. QED
    BY <1>1, <1>2, <1>3, <1>4, <1>5, MarginsBegin

(* More threads meet before they save their margins.                       *)
LEMMA AllPublished ==
    ASSUME PermInv, Progress, PermAccount, Barrier("published", "save"),
           UNCHANGED <<input, a, bucketStart, ptr, reading, swap, overflow, me, mvars>>
    PROVE  MarginInv'
  <1>1. /\ Types /\ Shape /\ \A t \in Thread : pc[t] = "published" /\ t # -1
        /\ pc' \in [Thread -> {"save"}]
    BY DEF PermInv, Barrier, Thread
  <1>2. /\ UNCHANGED <<input, a, bucketStart, ptr, swap, overflow, buffers, saved, me>>
        /\ sharedOverflow' = sharedOverflow
    BY DEF mvars
  <1>3. \/ sharedOverflow' = -1 /\ \A t \in Thread : overflow[t] = <<>>
        \/ sharedOverflow' \in Thread /\ overflow[sharedOverflow'] # <<>>
    BY <1>1, <1>2 DEF PermAccount
  <1>4. me' \in [Thread -> Locals]
    BY <1>1, <1>2 DEF Types
  <1>5. QED
    BY <1>1, <1>2, <1>3, <1>4, MarginsBegin

(* Up to the margins every step keeps the accounts.                        *)
LEMMA OpenStep ==
    ASSUME Open, [Next]_vars
    PROVE  Open' \/ MarginInv'
  <1>1. CASE BeforePermutation /\ EarlyInv /\ EarlyAccount
    <2>1. CASE Barriers /\ Barrier("moved", "pick")
      <3>1. UNCHANGED <<input, a, bucketStart, ptr, reading, swap, overflow, me, mvars>>
        BY <2>1 DEF Barriers
      <3>2. FullBlocksFirst
        BY <1>1, EarlyDone
      <3>3. PermInv'
        BY <1>1, <2>1, <3>1, <3>2, Begins
      <3>4. PermAccount' /\ Progress'
        BY <1>1, <2>1, <3>1, <3>2, AccountBegins
      <3>5. QED
        BY <3>3, <3>4 DEF Open
    <2>2. CASE ~(Barriers /\ Barrier("moved", "pick"))
      <3>1. BeforePermutation'
        BY <1>1, <2>2, BeforeStep
      <3>2. EarlyInv'
        BY <1>1, <2>2, EarlyStep
      <3>3. EarlyAccount'
        BY <1>1, <2>2, EarlyAccountStep
      <3>4. QED
        BY <3>1, <3>2, <3>3 DEF Open
    <2>3. QED
      BY <2>1, <2>2
  <1>2. CASE PermInv /\ Progress /\ PermAccount
    <2>1. pc \in [Thread -> Permuting] /\ Team /\ 0 \in Thread
      BY <1>2, SomeThread DEF PermInv, Types, Team, Shape
    <2>2. CASE UNCHANGED vars
      <3>1. PermInv' /\ SameTaken
        BY <1>2, <2>2, Unchanged DEF vars, pvars
      <3>2. Progress'
        BY <1>2, <2>2, ProgressKept DEF vars
      <3>3. PermAccount'
        BY <1>2, <2>2, <3>1, PermAccountKept DEF vars, PermAccount
      <3>4. QED
        BY <3>1, <3>2, <3>3 DEF Open
    <2>3. CASE Barriers
      <3>1. Barrier("published", "save")
        BY <2>1, <2>3 DEF Barriers, Barrier, Permuting
      <3>2. QED
        BY <1>2, <2>3, <3>1, AllPublished DEF Barriers
    <2>4. ASSUME NEW t \in Thread, Step(t)
          PROVE  Open' \/ MarginInv'
      <3>1. pc[t] \in Permuting
        BY <2>1
      <3>2. CASE PermuteBlocks(t)
        <4>1. PermInv' /\ Progress' /\ PermAccount'
          BY <1>2, <3>2, PermuteStepKeeps, PermuteStepProgress, PermuteAccount DEF PermuteBlocks
        <4>2. QED
          BY <4>1 DEF Open
      <3>3. CASE Publish(t)
        <4>1. CASE T = 1
          BY <1>2, <3>3, <4>1, PublishAlone
        <4>2. CASE T # 1
          <5>1. PermAccount' /\ Progress'
            BY <1>2, <3>3, <4>2, PublishAccount
          <5>2. pc'[t] = "published" /\ t \in Thread'
            <6>1. t \in Thread'
              BY <3>3 DEF Publish, Thread, T
            <6>2. QED
              BY <2>1, <3>3, <4>2, <6>1 DEF Publish, Goto
          <5>3. ~AfterPermutation'
            BY <5>2 DEF AfterPermutation, Late
          <5>4. PermInv'
            BY <1>2, <3>3, <5>3, PublishStep
          <5>5. QED
            BY <5>1, <5>4 DEF Open
        <4>3. QED
          BY <4>1, <4>2
      <3>4. ~Classify(t) /\ ~SetPointers(t) /\ ~StartMove(t) /\ ~MoveBlocks(t) /\ ~EndMove(t)
        BY <3>1 DEF Permuting, Classify, SetPointers, StartMove, MoveBlocks, EndMove
      <3>5. ~SaveMargins(t) /\ ~WriteMargin(t) /\ ~EndMargins(t)
        BY <3>1 DEF Permuting, SaveMargins, WriteMargin, EndMargins
      <3>6. QED
        BY <2>4, <3>2, <3>3, <3>4, <3>5 DEF Step
    <2>5. CASE Stop
      BY <2>2, <2>5 DEF Stop
    <2>6. QED
      BY <2>2, <2>3, <2>4, <2>5 DEF Next
  <1>3. QED
    BY <1>1, <1>2 DEF Open

(* When all margins are written the accounts are settled.                  *)
LEMMA AllFilled ==
    ASSUME Account, Done
    PROVE  MarginTypes /\ \A i \in Bucket : FilledBy(i)
  <1>1. \A t \in Thread : pc[t] = "done"
    BY DEF Done
  <1>2. MarginInv
    <2>1. CASE BeforePermutation
      <3>1. 0 \in Thread /\ pc[0] \in Early
        BY <2>1, SomeThread DEF BeforePermutation
      <3>2. QED
        BY <1>1, <3>1 DEF Early
    <2>2. CASE PermInv
      <3>1. 0 \in Thread /\ pc[0] \in Permuting
        BY <2>2, SomeThread DEF PermInv, Types, Team, Shape
      <3>2. QED
        BY <1>1, <3>1 DEF Permuting
    <2>3. QED
      BY <2>1, <2>2 DEF Account, Open
  <1>3. MarginTypes /\ MarginPhase /\ Shape
    BY <1>2 DEF MarginInv, MarginBase, MarginTypes
  <1>4. ASSUME NEW i \in Bucket PROVE FilledBy(i)
    <2>1. PICK t \in Thread : Owns(t, i)
      BY <1>3, OwnBuckets
    <2>2. LastBucket(t) <= me[t].bucket /\ i < LastBucket(t)
      BY <1>1, <1>3, <2>1 DEF MarginPhase, Owns
    <2>3. LastBucket(t) \in Int /\ me[t].bucket \in Int /\ i \in Int
      BY <1>3, OwnBuckets DEF MarginTypes, MarginLocals, Bucket, Shape
    <2>4. MarginDone(t, i)
      BY <1>1, <2>2, <2>3 DEF MarginDone
    <2>5. QED
      BY <1>2, <2>1, <2>4 DEF MarginInv
  <1>5. QED
    BY <1>3, <1>4

LEMMA AccountSettled == Account => Partitioned
  <1> SUFFICES ASSUME Account, Done, NEW p \in 0 .. N - 1
               PROVE  a[p] # Gone /\ p \in bucketStart[a[p]] .. bucketStart[a[p] + 1] - 1
    BY DEF Partitioned
  <1>1. MarginTypes /\ Shape /\ \A i \in Bucket : FilledBy(i)
    BY AllFilled DEF MarginTypes
  <1>2. PICK i \in Bucket : bucketStart[i] <= p /\ p < bucketStart[i + 1]
    <2>1. /\ NumBuckets \in Nat /\ \A b \in 0 .. NumBuckets : bucketStart[b] \in Int
          /\ bucketStart[0] <= p /\ p < bucketStart[NumBuckets]
      BY <1>1 DEF MarginTypes, Shape
    <2>2. \E b \in 0 .. NumBuckets - 1 : bucketStart[b] <= p /\ p < bucketStart[b + 1]
      BY <2>1, Cover
    <2>3. QED
      BY <2>2 DEF Bucket
  <1>3. bucketStart[i] \in Int /\ bucketStart[i + 1] \in Int /\ i # Gone
    BY <1>1 DEF Bucket, Gone, Shape
  <1>4. p \in bucketStart[i] .. bucketStart[i + 1] - 1
    BY <1>2, <1>3
  <1>5. a[p] = i
    BY <1>1, <1>4 DEF FilledBy
  <1>6. QED
    BY <1>3, <1>4, <1>5

(* What bounds the margins is kept by every step, the accounts as long as  *)
(* no margin is moved out twice.                                           *)
LEMMA BaseHolds == Spec => [](Open \/ MarginBase)
  <1>1. (Open \/ MarginBase) /\ [Next]_vars => (Open \/ MarginBase)'
    BY OpenStep, BaseStep DEF MarginInv
  <1>2. QED
    BY <1>1, OpenInit, PTL DEF Spec

LEMMA AccountHolds == Spec /\ []MovesOnce => []Account
  <1>1. Account /\ [Next]_vars /\ MovesOnce' => Account'
    BY OpenStep, MarginStep DEF Account
  <1>2. Init => Account
    BY OpenInit DEF Account
  <1>3. QED
    BY <1>1, <1>2, PTL DEF Spec

(* The borders between the buckets, from the elements themselves.          *)
Smaller(i) == Cardinality({p \in Pos : Label(p) < i})
BordersCount == \A i \in 0 .. NumBuckets : bucketStart[i] = Smaller(i)

(* bucketStart is right once all stripes are classified, and stays so.     *)
Classed ==
    \/ ClassInv
    \/ GoodInput /\ BordersCount /\ \A t \in Thread : pc[t] # "classify"

(* Nobody classifies again.                                                *)
LEMMA NoReturn ==
    ASSUME PhaseInv, [Next]_vars, \A t \in Thread : pc[t] # "classify"
    PROVE  UNCHANGED <<input, bucketStart>> /\ \A t \in Thread : pc'[t] # "classify"
  <1>1. DOMAIN pc = Thread
    BY DEF PhaseInv, BeforePermutation, PermInv, Types, AfterPermutation
  <1>2. CASE UNCHANGED vars
    BY <1>2 DEF vars
  <1>3. CASE Barriers
    <2>1. UNCHANGED <<input, bucketStart>>
      BY <1>3 DEF Barriers
    <2>2. \A t \in Thread : pc'[t] # "classify"
      BY <1>3 DEF Barriers, Barrier
    <2>3. QED
      BY <2>1, <2>2
  <1>4. ASSUME NEW t \in Thread, Step(t)
        PROVE  UNCHANGED <<input, bucketStart>> /\ \A u \in Thread : pc'[u] # "classify"
    <2>1. ~Classify(t)
      BY DEF Classify
    <2>2. CASE SetPointers(t) \/ StartMove(t)
      BY <1>1, <2>2 DEF SetPointers, StartMove, Goto
    <2>3. CASE MoveBlocks(t) \/ EndMove(t)
      BY <1>1, <2>3 DEF MoveBlocks, EndMove, Goto
    <2>4. CASE PermuteBlocks(t)
      <3>1. UNCHANGED <<input, bucketStart>>
        BY <2>4 DEF PermuteBlocks, PermuteStep, StartRead, DecRead, ReadBlock, StopRead, NextBucket,
                    IncWrite, WaitForReaders, WriteBlock, LookAtBlock
      <3>2. CASE StartRead(t) \/ DecRead(t) \/ ReadBlock(t) \/ StopRead(t) \/ NextBucket(t)
        BY <1>1, <3>2 DEF StartRead, DecRead, ReadBlock, StopRead, NextBucket, Goto
      <3>3. CASE IncWrite(t)
        BY <1>1, <3>3 DEF IncWrite, Goto
      <3>4. CASE WaitForReaders(t) \/ WriteBlock(t) \/ LookAtBlock(t)
        BY <1>1, <3>4 DEF WaitForReaders, WriteBlock, LookAtBlock, Goto
      <3>5. QED
        BY <2>4, <3>1, <3>2, <3>3, <3>4 DEF PermuteBlocks, PermuteStep
    <2>5. CASE Publish(t)
      BY <1>1, <2>5 DEF Publish, Goto
    <2>6. CASE SaveMargins(t)
      BY <1>1, <2>6 DEF SaveMargins, Goto
    <2>7. CASE WriteMargin(t) \/ EndMargins(t)
      BY <1>1, <2>7 DEF WriteMargin, EndMargins, Goto
    <2>8. QED
      BY <1>4, <2>1, <2>2, <2>3, <2>4, <2>5, <2>6, <2>7 DEF Step
  <1>5. CASE Stop
    BY <1>2, <1>5 DEF Stop
  <1>6. QED
    BY <1>2, <1>3, <1>4, <1>5 DEF Next

LEMMA ClassedStep ==
    ASSUME PhaseInv, Classed, [Next]_vars
    PROVE  Classed'
  <1>1. CASE ClassInv /\ \E t \in Thread : pc[t] = "classify"
    <2>1. PICK u \in Thread : pc[u] = "classify"
      BY <1>1
    <2>2. pc \in [Thread -> {"classify", "classified"}]
      BY <1>1 DEF ClassInv
    <2>3. CASE UNCHANGED vars
      BY <1>1, <2>3, ClassKept DEF vars, Classed
    <2>4. ~Barriers
      BY <2>1 DEF Barriers, Barrier
    <2>5. ASSUME NEW t \in Thread, Step(t) PROVE Classed'
      <3>1. CASE Classify(t)
        BY <1>1, <3>1, ClassifyStep DEF Classed
      <3>2. pc[t] \in {"classify", "classified"}
        BY <2>2
      <3>3. ~SetPointers(t)
        <4>1. SUFFICES ASSUME T = 1, pc[t] = "classified" PROVE FALSE
          BY DEF SetPointers
        <4>2. u = t
          BY <2>1, <4>1 DEF Thread
        <4>3. QED
          BY <2>1, <4>1, <4>2
      <3>4. ~StartMove(t) /\ ~MoveBlocks(t) /\ ~EndMove(t)
        BY <3>2 DEF StartMove, MoveBlocks, EndMove
      <3>5. ~PermuteBlocks(t)
        BY <3>2 DEF PermuteBlocks, PermuteStep, StartRead, DecRead, ReadBlock, StopRead,
                    NextBucket, IncWrite, WaitForReaders, WriteBlock, LookAtBlock
      <3>6. ~Publish(t) /\ ~SaveMargins(t) /\ ~WriteMargin(t) /\ ~EndMargins(t)
        BY <3>2 DEF Publish, SaveMargins, WriteMargin, EndMargins
      <3>7. QED
        BY <2>5, <3>1, <3>3, <3>4, <3>5, <3>6 DEF Step
    <2>6. CASE Stop
      BY <2>3, <2>6 DEF Stop
    <2>7. QED
      BY <2>3, <2>4, <2>5, <2>6 DEF Next
  <1>2. CASE \A t \in Thread : pc[t] # "classify"
    <2>1. GoodInput /\ BordersCount
      <3>1. CASE ClassInv
        <4>1. Classified = Thread /\ SeenBy(Thread) = Pos
          BY <1>2, <3>1, AllSeen DEF ClassInv, Classified
        <4>2. QED
          BY <3>1, <4>1 DEF ClassInv, Sums, BordersCount, Smaller
      <3>2. QED
        BY <1>2, <3>1 DEF Classed
    <2>2. UNCHANGED <<input, bucketStart>> /\ \A t \in Thread : pc'[t] # "classify"
      BY <1>2, NoReturn
    <2>3. /\ Thread' = Thread /\ NumBuckets' = NumBuckets /\ T' = T /\ N' = N /\ Bucket' = Bucket
          /\ \A i : Smaller(i)' = Smaller(i)
      BY <2>2 DEF Thread, T, NumBuckets, Bucket, Smaller, Pos, N, Label
    <2>4. GoodInput' /\ BordersCount'
      BY <2>1, <2>2, <2>3 DEF GoodInput, BordersCount
    <2>5. QED
      BY <2>2, <2>3, <2>4 DEF Classed
  <1>3. QED
    BY <1>1, <1>2 DEF Classed

LEMMA ClassedHolds == Spec => []Classed
  <1>1. Init => Classed
    BY ClassInit DEF Classed
  <1>2. PhaseInv /\ Classed /\ [Next]_vars => Classed'
    BY ClassedStep
  <1>3. QED
    BY <1>1, <1>2, PhasesHold, PTL DEF Spec

-----------------------------------------------------------------------------
(* When margins are apart                                                  *)

(* Every thread but the first, unless it has the last of the buckets, owns *)
(* buckets with a block of elements at least.                              *)
Owned(t) == {p \in Pos : FirstBucket(t) <= Label(p) /\ Label(p) < LastBucket(t)}
Wide == \A t \in Thread \ {0} : LastBucket(t) = NumBuckets \/ Cardinality(Owned(t)) >= BlockSize

(* Then no two threads move out the same margin.                           *)
LEMMA WideMoves ==
    ASSUME MarginBase, GoodInput, BordersCount, Wide
    PROVE  MovesOnce
  <1>1. MarginTypes /\ Shape /\ \A i \in Bucket : BlocksLeft(i)
    BY DEF MarginBase, MarginTypes
  <1>2. ASSUME NEW b \in Bucket, NEW t \in Thread, NEW u \in Thread, t < u,
               TakesSwap(t, b), TakesSwap(u, b)
        PROVE  FALSE
    <2>1. /\ b < LastBucket(t) /\ bucketStart[LastBucket(u)] < ptr[b].w
          /\ Excess(b) # {} /\ ~TakesOverflow(b)
      BY <1>2 DEF MarginBase, SavedMargin
    <2>2. /\ FirstBucket(u) \in 0 .. NumBuckets /\ LastBucket(u) \in 0 .. NumBuckets
          /\ LastBucket(t) \in 0 .. NumBuckets
          /\ FirstBucket(u) <= LastBucket(u) /\ LastBucket(t) <= FirstBucket(u)
      BY <1>1, <1>2, OwnBuckets
    <2>3. /\ NumBuckets \in Nat /\ N \in Nat /\ b \in Int /\ b + 1 \in 0 .. NumBuckets
          /\ b + 1 <= FirstBucket(u)
      BY <1>1, <2>1, <2>2 DEF Bucket, Shape
    <2>4. /\ \A i \in 0 .. NumBuckets : bucketStart[i] \in Int /\ bucketStart[i] <= N
          /\ bucketStart[b + 1] <= bucketStart[FirstBucket(u)]
      BY <1>1, <2>2, <2>3 DEF Shape
    <2>5. /\ AreaStart(b) < ptr[b].w /\ ptr[b].w \in Int /\ BlockSize \in Int
          /\ ptr[b].w < bucketStart[b + 1] + BlockSize
      <3>1. AreaStart(b) < ptr[b].w /\ ptr[b].w \in Int /\ ptr[b].w <= AreaEnd(b)
        BY <1>1, <2>1, BlocksEnd DEF BlocksLeft
      <3>2. bucketStart[b + 1] \in Nat
        BY <1>1, <2>3 DEF Shape
      <3>3. AreaEnd(b) \in Nat /\ AreaEnd(b) < bucketStart[b + 1] + BlockSize /\ BlockSize \in Int
        BY <3>2, AlignRight, Sizes DEF AreaEnd
      <3>4. QED
        BY <2>4, <3>1, <3>2, <3>3
    <2>6. LastBucket(u) # NumBuckets
      <3>1. ptr[b].w <= N
        BY <1>1, <2>1, <2>5 DEF BlocksLeft
      <3>2. QED
        BY <1>1, <2>1, <2>3, <2>5, <3>1 DEF MarginTypes
    <2>7. bucketStart[LastBucket(u)] = bucketStart[FirstBucket(u)] + Cardinality(Owned(u))
      <3> DEFINE F == {p \in Pos : Label(p) < FirstBucket(u)}
                 L == {p \in Pos : Label(p) < LastBucket(u)}
      <3>1. IsFiniteSet(Pos)
        BY <2>3, Interval DEF Pos
      <3>2. \A p \in Pos : Label(p) \in Int
        BY <2>3, LabelType DEF Bucket
      <3>3. L = F \cup Owned(u) /\ F \cap Owned(u) = {} /\ F \in SUBSET Pos /\ Owned(u) \in SUBSET Pos
        BY <2>2, <3>2 DEF Owned
      <3>4. Cardinality(L) = Cardinality(F) + Cardinality(Owned(u))
        <4> HIDE DEF F, L
        <4>1. Cardinality(F \cup Owned(u)) = Cardinality(F) + Cardinality(Owned(u))
          BY ONLY <3>1, <3>3, Cards
        <4>2. QED
          BY <3>3, <4>1
      <3>5. bucketStart[LastBucket(u)] = Cardinality(L) /\ bucketStart[FirstBucket(u)] = Cardinality(F)
        BY <2>2 DEF BordersCount, Smaller
      <3>6. QED
        BY <3>4, <3>5
    <2>8. Cardinality(Owned(u)) >= BlockSize
      BY <1>2, <2>6 DEF Wide, Thread
    <2>9. bucketStart[FirstBucket(u)] \in Int /\ bucketStart[LastBucket(u)] \in Int
          /\ bucketStart[b + 1] \in Int
      BY <2>2, <2>3, <2>4
    <2>10. bucketStart[FirstBucket(u)] + BlockSize <= bucketStart[LastBucket(u)]
      <3>1. Cardinality(Owned(u)) \in Int
        <4>1. IsFiniteSet(Pos) /\ Owned(u) \in SUBSET Pos
          BY <2>3, Interval DEF Pos, Owned
        <4>2. QED
          BY <4>1, Cards
      <3>2. QED
        BY <2>5, <2>7, <2>8, <2>9, <3>1
    <2>11. QED
      BY <2>1, <2>4, <2>5, <2>9, <2>10
  <1>3. \A t \in Thread : t \in Int
    BY DEF Thread
  <1>4. QED
    BY <1>2, <1>3 DEF MovesOnce
(* Before the margins nothing has been moved out.                          *)
LEMMA NothingSaved == Open => MovesOnce
  <1>1. Open => saved = [t \in Thread |-> [bucket |-> -1, count |-> 0]]
    BY DEF Open, EarlyAccount, Untouched, PermAccount
  <1>2. Open => \A t \in Thread, b \in Bucket : ~TakesSwap(t, b)
    BY <1>1 DEF TakesSwap
  <1>3. QED
    BY <1>2 DEF MovesOnce

(* In the margins the borders are right.                                   *)
LEMMA LateBorders == MarginBase /\ Classed => GoodInput /\ BordersCount
  <1> SUFFICES ASSUME MarginBase, Classed PROVE GoodInput /\ BordersCount
    OBVIOUS
  <1>1. 0 \in Thread /\ pc[0] \in {"save", "saved", "margins", "done"}
    BY DEF MarginBase, MarginTypes, MarginPhase, Shape, Thread
  <1>2. ~ClassInv
    BY <1>1 DEF ClassInv
  <1>3. QED
    BY <1>2 DEF Classed

-----------------------------------------------------------------------------
(* writeMargins and all before it: for every team, every input and every   *)
(* order of the threads' steps the step ends with each element in its      *)
(* bucket, none lost and no place left out, as long as no two threads move *)
(* the same margin out in saveMargins.                                     *)
THEOREM StepPartitions == Spec /\ []MovesOnce => []Partitioned
  <1>1. Account => Partitioned
    BY AccountSettled
  <1>2. QED
    BY <1>1, AccountHolds, PTL

(* What the input decides stays as it is.                                  *)
LEMMA SameInput == [Next]_vars => input' = input
  <1>1. CASE UNCHANGED vars
    BY <1>1 DEF vars
  <1>2. CASE Barriers
    BY <1>2 DEF Barriers
  <1>3. ASSUME NEW t \in Thread, PermuteBlocks(t) PROVE input' = input
    BY <1>3 DEF PermuteBlocks, PermuteStep, StartRead, DecRead, ReadBlock, StopRead, NextBucket,
                IncWrite, WaitForReaders, WriteBlock, LookAtBlock
  <1>4. ASSUME NEW t \in Thread, Step(t), ~PermuteBlocks(t) PROVE input' = input
    <2>1. CASE Classify(t) \/ SetPointers(t) \/ StartMove(t)
      BY <2>1 DEF Classify, SetPointers, StartMove
    <2>2. CASE MoveBlocks(t) \/ EndMove(t) \/ Publish(t)
      BY <2>2 DEF MoveBlocks, EndMove, Publish
    <2>3. CASE SaveMargins(t) \/ WriteMargin(t) \/ EndMargins(t)
      BY <2>3 DEF SaveMargins, WriteMargin, EndMargins
    <2>4. QED
      BY <1>4, <2>1, <2>2, <2>3 DEF Step
  <1>5. QED
    BY <1>1, <1>2, <1>3, <1>4 DEF Next, Stop

(* One thread has no other to share a margin with, and elements that are   *)
(* moved by copying stay where they were: these steps need no condition.   *)
THEOREM CopiesPartition == Spec /\ (input.trivial \/ T = 1) => []Partitioned
  <1>1. (input.trivial \/ T = 1) /\ [Next]_vars => (input.trivial \/ T = 1)'
    BY SameInput DEF T
  <1>2. input.trivial \/ T = 1 => MovesOnce
    BY DEF MovesOnce, Thread
  <1>3. QED
    BY <1>1, <1>2, StepPartitions, PTL DEF Spec

(* Nor do those, whatever moving does to the source, in which each thread  *)
(* but the first owns a block of elements: two threads share a margin only *)
(* where all the buckets between their ends fit into one block.            *)
THEOREM WidePartition == Spec /\ Wide => []Partitioned
  <1>1. Wide /\ [Next]_vars => Wide'
    <2> SUFFICES ASSUME Wide, [Next]_vars PROVE Wide'
      OBVIOUS
    <2>1. input' = input
      BY SameInput
    <2>2. Thread' = Thread /\ NumBuckets' = NumBuckets /\ T' = T /\ Pos' = Pos
          /\ \A p : Label(p)' = Label(p)
      BY <2>1 DEF Thread, T, NumBuckets, Pos, N, Label
    <2>3. \A t : FirstBucket(t)' = FirstBucket(t) /\ LastBucket(t)' = LastBucket(t)
      BY <2>2 DEF FirstBucket, LastBucket, bucketsPerThread
    <2>4. \A t : Owned(t)' = Owned(t)
      BY <2>2, <2>3 DEF Owned
    <2>5. QED
      BY <2>2, <2>3, <2>4 DEF Wide
  <1>2. (Open \/ MarginBase) /\ Classed /\ Wide => MovesOnce
    <2>1. ASSUME Open PROVE MovesOnce
      BY <2>1, NothingSaved
    <2>2. ASSUME MarginBase, Classed, Wide PROVE MovesOnce
      <3>1. GoodInput /\ BordersCount
        BY <2>2, LateBorders
      <3>2. QED
        BY <2>2, <3>1, WideMoves
    <2>3. QED
      BY <2>1, <2>2
  <1>3. QED
    BY <1>1, <1>2, BaseHolds, ClassedHolds, StepPartitions, PTL DEF Spec

(* The step counts right, too: when it ends, the elements of bucket i are  *)
(* just where all elements in order would have them.                       *)
BucketsInOrder ==
    Done => \A i \in Bucket : \A p \in Smaller(i) .. Smaller(i + 1) - 1 : a[p] = i
THEOREM StepOrders == Spec /\ []MovesOnce => []BucketsInOrder
  <1>1. Account /\ Classed => BucketsInOrder
    <2> SUFFICES ASSUME Account, Classed, Done, NEW i \in Bucket,
                        NEW p \in Smaller(i) .. Smaller(i + 1) - 1
                 PROVE  a[p] = i
      BY DEF BucketsInOrder
    <2>1. MarginTypes /\ Shape /\ FilledBy(i)
      BY AllFilled DEF MarginTypes
    <2>2. BordersCount
      <3>1. 0 \in Thread /\ pc[0] = "done"
        BY <2>1 DEF Done, Thread, Shape
      <3>2. ~ClassInv
        BY <3>1 DEF ClassInv
      <3>3. QED
        BY <3>2 DEF Classed
    <2>3. i \in 0 .. NumBuckets /\ i + 1 \in 0 .. NumBuckets
      BY <2>1 DEF Bucket, Shape
    <2>4. p \in bucketStart[i] .. bucketStart[i + 1] - 1
      BY <2>2, <2>3 DEF BordersCount
    <2>5. QED
      BY <2>1, <2>4 DEF FilledBy
  <1>2. QED
    BY <1>1, AccountHolds, ClassedHolds, PTL

-----------------------------------------------------------------------------
(* Types                                                                   *)

(* A buffer or block of the step: no more than kBlockSize elements.        *)
Fits(block) == block \in Seq(Element) /\ Len(block) <= BlockSize

(* What the types say of the threads' blocks, and of whose overflow block  *)
(* is shared.                                                              *)
TypeInv == TypeOK /\ sharedOverflow \in Thread \cup {-1}

LEMMA TypeFrame ==
    ASSUME input' = input, a' \in [0 .. N - 1 -> Element], bucketStart' \in [0 .. NumBuckets -> 0 .. N],
           \A b \in Bucket : reading'[b] \in 0 .. T,
           \A b \in Bucket : ptr'[b].w % BlockSize = 0 /\ ptr'[b].r % BlockSize = 0,
           \A t \in Thread : pc'[t] \in Locations,
           \A t \in Thread : \A b \in Bucket : buffers'[t][b] \in 0 .. BlockSize,
           \A t \in Thread : Fits(swap'[t][1]) /\ Fits(swap'[t][2]) /\ Fits(overflow'[t]),
           sharedOverflow' \in Thread \cup {-1}
    PROVE  TypeInv'
  <1>1. N' = N /\ NumBuckets' = NumBuckets /\ T' = T /\ Thread' = Thread /\ Bucket' = Bucket
        /\ Element' = Element
    BY DEF N, NumBuckets, T, Thread, Bucket, Element
  <1>2. \A t \in Thread : \A block \in {swap'[t][1], swap'[t][2], overflow'[t]} :
           block \in Seq(Element) /\ Len(block) <= BlockSize
    BY DEF Fits
  <1>3. QED
    BY <1>1, <1>2 DEF TypeInv, TypeOK

LEMMA TypeParts ==
    ASSUME TypeInv
    PROVE  /\ a \in [0 .. N - 1 -> Element] /\ bucketStart \in [0 .. NumBuckets -> 0 .. N]
           /\ \A b \in Bucket : reading[b] \in 0 .. T
           /\ \A b \in Bucket : ptr[b].w % BlockSize = 0 /\ ptr[b].r % BlockSize = 0
           /\ \A t \in Thread : pc[t] \in Locations
           /\ \A t \in Thread : \A b \in Bucket : buffers[t][b] \in 0 .. BlockSize
           /\ \A t \in Thread : Fits(swap[t][1]) /\ Fits(swap[t][2]) /\ Fits(overflow[t])
           /\ sharedOverflow \in Thread \cup {-1}
  BY DEF TypeInv, TypeOK, Fits

LEMMA FullFits ==
    ASSUME NEW c \in Element
    PROVE  Fits(BlockOf(c)) /\ Fits(<<>>)
  BY Sizes DEF BlockOf, Fits

(* A full buffer is flushed by the next element: what is left in one is    *)
(* never more than a block.                                                *)
LEMMA BufferFits ==
    ASSUME GoodInput, NEW t \in Thread, NEW c
    PROVE  Buffered(t, c) \in Int /\ Buffered(t, c) <= BlockSize
  <1> DEFINE M == {p \in Mine(t) : a[p] = c}
             F == {p \in Flushed(t) : a[p] = c}
             K == Cardinality(F)
             g == [j \in 0 .. K |-> CHOOSE p \in M : Position(M, p) = BlockSize * (j + 1)]
  <1>1. /\ BlockSize \in Nat /\ BlockSize > 0 /\ MyBegin(t) \in Nat /\ MyEnd(t) \in Nat
        /\ Mine(t) = MyBegin(t) .. MyEnd(t) - 1
    BY Sizes, Stripes DEF Mine
  <1>2. IsFiniteSet(Mine(t)) /\ Mine(t) \in SUBSET Int
    BY <1>1, FS_Interval
  <1>3. M \in SUBSET Int /\ IsFiniteSet(M) /\ F \in SUBSET M /\ IsFiniteSet(F)
    BY <1>2, FS_Subset DEF Flushed
  <1>4. Cardinality(M) \in Nat /\ K \in Nat
    BY <1>3, FS_CardinalityType
  <1>5. BucketSize(t, c) = Cardinality(M)
    BY <1>1 DEF BucketSize, Rank
  <1>6. ASSUME NEW p \in M, NEW k \in Int, k > 0, Position(M, p) = BlockSize * k
        PROVE  p \in F
    <2>1. p \in Mine(t) /\ a[p] = c /\ p \in Int /\ MyBegin(t) <= p /\ p <= MyEnd(t) - 1
      BY <1>1
    <2> DEFINE B == {q \in M : q < p}
    <2>2. {q \in MyBegin(t) .. p : a[q] = a[p]} = B \cup {p}
      BY <1>1, <2>1
    <2>3. IsFiniteSet(B) /\ p \notin B
      BY <1>3, <2>1, FS_Subset
    <2>4. Cardinality(B) = BlockSize * k
      BY <1>6 DEF Position
    <2> HIDE DEF B
    <2>5. Rank(t, a[p], p) = BlockSize * k + 1
      BY <2>2, <2>3, <2>4, FS_AddElement DEF Rank
    <2>6. BlockSize * k \in Int /\ BlockSize * k > 0 /\ (BlockSize * k) % BlockSize = 0
      <3>1. BlockSize * 0 < BlockSize * k \/ ~(0 < k)
        BY <1>1, <1>6
      <3>2. QED
        BY <1>1, <1>6, <3>1, IsMultiple
    <2>7. Flushes(t, p)
      BY <2>5, <2>6 DEF Flushes
    <2>8. QED
      BY <2>1, <2>7 DEF Flushed
  <1>7. BlockSize * K \in Nat
    BY <1>1, <1>4
  <1>8. Cardinality(M) <= BlockSize * K + BlockSize
    <2>1. SUFFICES ASSUME BlockSize * K + BlockSize < Cardinality(M) PROVE FALSE
      BY <1>1, <1>4, <1>7
    <2> HIDE DEF M, F
    <2>2. ASSUME NEW j \in 0 .. K
          PROVE  g[j] \in F /\ Position(M, g[j]) = BlockSize * (j + 1)
      <3>1. BlockSize * (j + 1) \in Int /\ 0 <= BlockSize * (j + 1)
            /\ BlockSize * (j + 1) < Cardinality(M)
        <4>1. j + 1 \in Int /\ K + 1 \in Int /\ 0 <= j + 1 /\ j + 1 <= K + 1
          BY <1>4
        <4>2. BlockSize * (j + 1) \in Int /\ BlockSize * 0 <= BlockSize * (j + 1)
              /\ BlockSize * (j + 1) <= BlockSize * (K + 1)
          BY <1>1, <4>1, Scaled
        <4>3. BlockSize * (K + 1) = BlockSize * K + BlockSize
          BY <1>1, <1>4
        <4>4. QED
          BY <1>1, <1>4, <1>7, <2>1, <4>2, <4>3
      <3>2. \E p \in M : Position(M, p) = BlockSize * (j + 1)
        BY <1>3, <3>1, PositionOnto
      <3>3. g[j] \in M /\ Position(M, g[j]) = BlockSize * (j + 1)
        BY <3>2
      <3>4. QED
        BY <1>6, <3>3
    <2>3. \A j, k \in 0 .. K : g[j] = g[k] => j = k
      <3> SUFFICES ASSUME NEW j \in 0 .. K, NEW k \in 0 .. K, g[j] = g[k] PROVE j = k
        OBVIOUS
      <3>1. BlockSize * (j + 1) = BlockSize * (k + 1)
        BY <2>2
      <3>2. j + 1 \in Int /\ k + 1 \in Int
        OBVIOUS
      <3>3. j + 1 <= k + 1 /\ k + 1 <= j + 1
        BY <1>1, <3>1, <3>2, Scaled
      <3>4. QED
        BY <3>3
    <2>4. g \in [0 .. K -> F]
      BY <2>2
    <2>5. Cardinality(0 .. K) <= K
      BY <1>3, <2>3, <2>4, Injected
    <2>6. Cardinality(0 .. K) = K + 1
      BY <1>4, FS_Interval
    <2>7. QED
      BY <1>4, <2>5, <2>6
  <1>9. Buffered(t, c) = Cardinality(M) - BlockSize * K
    BY <1>5 DEF Buffered
  <1> HIDE DEF M, K
  <1>10. QED
    BY <1>1, <1>4, <1>7, <1>8, <1>9

(* What the early actions leave alone.                                     *)
LEMMA ClassifyTypes ==
    ASSUME Open, TypeInv, NEW t \in Thread, Classify(t)
    PROVE  TypeInv'
  <1>1. BeforePermutation /\ ClassInv /\ ClassAccount
    <2>1. pc[t] = "classify" /\ pc[t] \notin Permuting /\ pc[t] \notin Moving
      BY DEF Classify, Permuting, Moving
    <2>2. ~PermInv /\ ~MoveInv
      BY <2>1 DEF PermInv, Types, MoveInv
    <2>3. QED
      BY <2>1, <2>2 DEF Open, EarlyInv, EarlyAccount
  <1>2. /\ GoodInput /\ DOMAIN a = Pos /\ t \in DOMAIN firstBlock /\ t \in DOMAIN firstEmpty
        /\ \A p \in Mine(t) : a[p] = Label(p)
    BY <1>1 DEF ClassInv, Classify
  <1>3. /\ input' = input /\ UNCHANGED <<ptr, reading, swap, overflow, sharedOverflow>>
        /\ pc' = [pc EXCEPT ![t] = "classified"] /\ DOMAIN pc = Thread
        /\ bucketStart' = AddSizes(t)
        /\ buffers' = [buffers EXCEPT ![t] = [b \in Bucket |-> Buffered(t, b)]]
        /\ DOMAIN buffers = Thread
    BY <1>1 DEF Classify, Goto, BeforePermutation, ClassAccount
  <1>4. /\ N' = N /\ Pos' = Pos /\ Bucket' = Bucket /\ NumBuckets' = NumBuckets
        /\ \A u : Mine(u)' = Mine(u)
        /\ Thread' = Thread /\ \A p : Label(p)' = Label(p)
    BY <1>3 DEF N, Pos, Bucket, NumBuckets, Mine, MyBegin, MyEnd, StripeAt, T, Thread, Label
  <1>5. a' \in [0 .. N - 1 -> Element]
    <2>1. /\ StripeDone(t)' /\ \A p \in Pos : p \notin Mine(t) => a'[p] = a[p]
      BY <1>2, ClassifyStripe
    <2>2. \A p \in Mine(t) : a'[p] \in Bucket \/ a'[p] = Gone
      BY <1>4, <2>1 DEF StripeDone, Gone
    <2>3. a' = [p \in Pos |-> a'[p]]
      BY <1>2 DEF Classify
    <2>4. \A p \in Pos : a[p] \in Element
      BY TypeParts DEF Pos
    <2>5. \A p \in Pos : a'[p] \in Element
      BY <2>1, <2>2, <2>4 DEF Element
    <2>6. QED
      BY <2>3, <2>5 DEF Pos
  <1>6. bucketStart' \in [0 .. NumBuckets -> 0 .. N]
    <2>1. ClassInv'
      BY <1>1, ClassifyStep
    <2>2. \A i \in 0 .. NumBuckets :
            bucketStart'[i] = Cardinality({p \in SeenBy(Classified)' : Label(p) < i})
      BY <1>4, <2>1 DEF ClassInv, Sums
    <2>3. SeenBy(Classified)' \subseteq Pos
      <3>1. \A u \in Thread : Mine(u) \subseteq Pos
        BY <1>2, Stripes
      <3>2. QED
        BY <1>4, <3>1 DEF SeenBy, Classified
    <2>4. \A i \in 0 .. NumBuckets : bucketStart'[i] \in 0 .. N
      <3> SUFFICES ASSUME NEW i \in 0 .. NumBuckets PROVE bucketStart'[i] \in 0 .. N
        OBVIOUS
      <3> DEFINE S == {p \in SeenBy(Classified)' : Label(p) < i}
      <3>1. S \in SUBSET Pos /\ Pos \in SUBSET Pos
        BY <2>3
      <3>2. IsFiniteSet(Pos) /\ Cardinality(Pos) = N /\ N \in Nat
        BY <1>2, PosFinite DEF GoodInput
      <3>3. bucketStart'[i] = Cardinality(S)
        BY <2>2
      <3> HIDE DEF S
      <3>4. Cardinality(S) \in Nat /\ Cardinality(S) <= N
        BY <3>1, <3>2, Cards
      <3>5. QED
        BY <3>2, <3>3, <3>4
    <2>5. bucketStart' = [i \in 0 .. NumBuckets |-> bucketStart'[i]]
      BY <1>3 DEF AddSizes
    <2>6. QED
      BY <2>4, <2>5
  <1>7. \A u \in Thread : \A b \in Bucket : buffers'[u][b] \in 0 .. BlockSize
    <2>1. \A b \in Bucket : Buffered(t, b) \in 0 .. BlockSize
      BY <1>2, BufferFits, StripeAccount
    <2>2. \A u \in Thread : \A b \in Bucket : buffers[u][b] \in 0 .. BlockSize
      BY TypeParts
    <2>3. QED
      BY <1>3, <2>1, <2>2
  <1>8. \A u \in Thread : pc'[u] \in Locations
    BY <1>3, TypeParts DEF Locations
  <1>9. QED
    BY <1>3, <1>5, <1>6, <1>7, <1>8, TypeParts, TypeFrame

(* Pointers are set to borders of blocks.                                  *)
LEMMA PointersTypes ==
    ASSUME Open, TypeInv, NEW t \in Thread, SetPointers(t) \/ StartMove(t) \/ EndMove(t)
    PROVE  TypeInv'
  <1>1. BeforePermutation /\ EarlyInv
    BY DEF Open, SetPointers, StartMove, EndMove, PermInv, Types, Permuting
  <1>2. Layout /\ \A b \in Bucket : IsBlock(FirstEmptyInBucket(b))
    <2>1. CASE MoveInv
      BY <2>1, WholeBlocks DEF MoveInv
    <2>2. CASE ClassInv /\ ~MoveInv
      <3>1. SetPointers(t) /\ pc[t] = "classified" /\ T = 1
        BY <2>2 DEF ClassInv, StartMove, EndMove, SetPointers
      <3>2. \A u \in Thread : pc[u] = "classified"
        BY <3>1 DEF Thread
      <3>3. Layout
        BY <2>2, <3>2, ClassDone DEF Cleared
      <3>4. QED
        BY <3>3, WholeBlocks
    <2>3. QED
      BY <1>1, <2>1, <2>2 DEF EarlyInv
  <1>3. /\ \A b \in 0 .. NumBuckets : IsBlock(BlockStart(b)) /\ BlockStart(b) \in Nat
        /\ \A b \in Bucket : b \in 0 .. NumBuckets /\ b + 1 \in 0 .. NumBuckets
    BY <1>2, Borders
  <1>4. \A b \in Bucket : IsBlock(FullUpTo(t, b))
    <2> SUFFICES ASSUME NEW b \in Bucket PROVE IsBlock(FullUpTo(t, b))
      OBVIOUS
    <2>1. IsBlock(firstEmpty[t]) /\ IsBlock(BlockStart(b)) /\ IsBlock(BlockStart(b + 1))
      BY <1>2, <1>3 DEF Layout
    <2>2. LET m == Min({firstEmpty[t], BlockStart(b + 1)}) IN IsBlock(m)
      BY <2>1, MaxMinOfTwo DEF IsBlock
    <2>3. QED
      BY <2>1, <2>2, MaxMinOfTwo DEF IsBlock, FullUpTo
  <1>5. ASSUME NEW b \in Bucket, NEW stop, IsBlock(stop)
        PROVE  PtrAt(b, stop).w % BlockSize = 0 /\ PtrAt(b, stop).r % BlockSize = 0
    BY <1>3, <1>5, NextBlock DEF PtrAt, IsBlock
  <1>6. \A b \in Bucket : ptr[b].w % BlockSize = 0 /\ ptr[b].r % BlockSize = 0
    BY TypeParts
  <1>7. \A b \in Bucket : ptr'[b].w % BlockSize = 0 /\ ptr'[b].r % BlockSize = 0
    <2>1. CASE SetPointers(t)
      BY <1>4, <1>5, <2>1 DEF SetPointers
    <2>2. CASE StartMove(t)
      <3>1. \A b \in Bucket : ptr'[b] = PtrAt(b, FullUpTo(t, b)) \/ ptr'[b] = ptr[b]
        BY <2>2 DEF StartMove
      <3>2. QED
        BY <1>4, <1>5, <1>6, <3>1
    <2>3. CASE EndMove(t)
      <3>1. DOMAIN ptr = Bucket
        BY <1>1 DEF BeforePermutation
      <3>2. \A b \in Bucket : ptr'[b] = PtrAt(b, FirstEmptyInBucket(b)) \/ ptr'[b] = ptr[b]
        BY <2>3, <3>1 DEF EndMove
      <3>3. QED
        BY <1>2, <1>5, <1>6, <3>2
    <2>4. QED
      BY <2>1, <2>2, <2>3
  <1>8. UNCHANGED <<input, a, bucketStart, reading, swap, overflow, buffers, sharedOverflow>>
    BY DEF SetPointers, StartMove, EndMove, mvars
  <1>9. \A u \in Thread : pc'[u] \in Locations
    <2>1. DOMAIN pc = Thread
      BY <1>1 DEF BeforePermutation
    <2>2. \A u \in Thread : pc'[u] = pc[u] \/ pc'[u] \in {"moved", "moveBlocks"}
      BY <2>1 DEF SetPointers, StartMove, EndMove, Goto
    <2>3. QED
      BY <2>2, TypeParts DEF Locations
  <1>10. QED
    BY <1>7, <1>8, <1>9, TypeParts, TypeFrame

(* What is moved is an element or nothing.                                 *)
LEMMA MoveTypes ==
    ASSUME Open, TypeInv, NEW t \in Thread, MoveBlocks(t)
    PROVE  TypeInv'
  <1>1. MoveInv
    BY DEF Open, EarlyInv, MoveBlocks, PermInv, Types, Permuting, ClassInv
  <1>2. UNCHANGED <<input, bucketStart, ptr, reading, swap, overflow, buffers, pc, sharedOverflow>>
    BY DEF MoveBlocks
  <1>3. N' = N /\ Bucket' = Bucket /\ Pos' = Pos
    BY <1>2 DEF N, Bucket, NumBuckets, Pos
  <1>4. a' \in [0 .. N - 1 -> Element]
    <2>1. MoveInv'
      BY <1>1, MoveBlocksStep
    <2>2. DOMAIN a' = Pos /\ \A p \in Pos : a'[p] \in Element
      BY <1>3, <2>1 DEF MoveInv, Uniform, Element, Gone
    <2>3. a' = [p \in DOMAIN a' |-> a'[p]]
      <3>1. a = [p \in DOMAIN a |-> a[p]]
        BY TypeParts
      <3>2. QED
        BY <3>1 DEF MoveBlocks
    <2>4. QED
      BY <2>2, <2>3 DEF Pos
  <1>5. QED
    BY <1>2, <1>4, TypeParts, TypeFrame

(* Blocks in the array and in the hands of the threads are whole.          *)
LEMMA PutTypes ==
    ASSUME TypeInv, NEW p \in Int, NEW c \in Element
    PROVE  /\ WithBlock(p, BlockOf(c)) \in [0 .. N - 1 -> Element]
           /\ Vacated(p) \in [0 .. N - 1 -> Element]
  <1>1. a \in [0 .. N - 1 -> Element]
    BY TypeParts
  <1>2. Gone \in Element
    BY DEF Element
  <1>3. \A q \in Int : q \in Places(p) => q - p + 1 \in 1 .. BlockSize
    BY Sizes DEF Places
  <1>4. \A q \in 0 .. N - 1 : q \in Int
    OBVIOUS
  <1>5. QED
    BY <1>1, <1>2, <1>3, <1>4 DEF WithBlock, Vacated, BlockOf

LEMMA PermuteTypes ==
    ASSUME Open, TypeInv, NEW t \in Thread, PermuteBlocks(t)
    PROVE  TypeInv'
  <1>1. PermInv /\ PermuteStep(t) /\ UNCHANGED <<buffers, sharedOverflow>>
    <2>1. PermuteStep(t) /\ UNCHANGED <<buffers, sharedOverflow>>
      BY DEF PermuteBlocks, mvars
    <2>2. pc[t] \notin Early
      BY <2>1 DEF PermuteStep, StartRead, DecRead, ReadBlock, StopRead, NextBucket, IncWrite,
                  WaitForReaders, WriteBlock, LookAtBlock, Early
    <2>3. QED
      BY <2>1, <2>2 DEF Open, BeforePermutation
  <1>2. PermInv' /\ UNCHANGED <<input, bucketStart>>
    <2>1. UNCHANGED <<input, bucketStart>>
      BY <1>1 DEF PermuteStep, StartRead, DecRead, ReadBlock, StopRead, NextBucket, IncWrite,
                  WaitForReaders, WriteBlock, LookAtBlock
    <2>2. QED
      BY <1>1, <2>1, PermuteStepKeeps
  <1>3. Thread' = Thread /\ Bucket' = Bucket /\ T' = T
    BY <1>2 DEF Thread, Bucket, T, NumBuckets
  <1>4. \A b \in Bucket : reading'[b] \in 0 .. T
    <2> SUFFICES ASSUME NEW b \in Bucket PROVE reading'[b] \in 0 .. T
      OBVIOUS
    <2>1. reading'[b] = Cardinality(Readers(b)') /\ Readers(b)' \in SUBSET Thread
      BY <1>2, <1>3 DEF PermInv, Counts, Readers
    <2>2. T \in Nat /\ IsFiniteSet(Thread) /\ Cardinality(Thread) = T /\ Thread \in SUBSET Thread
      BY <1>1, Interval DEF PermInv, Shape, Thread
    <2>3. Cardinality(Readers(b)') \in Nat /\ Cardinality(Readers(b)') <= T
      BY <2>1, <2>2, Cards
    <2>4. QED
      BY <2>1, <2>2, <2>3
  <1>5. \A b \in Bucket : ptr'[b].w % BlockSize = 0 /\ ptr'[b].r % BlockSize = 0
    BY <1>2, <1>3 DEF PermInv, Pointers, IsBlock
  <1>6. \A u \in Thread : pc'[u] \in Locations
    BY <1>2, <1>3 DEF PermInv, Types, Permuting, Locations
  <1>7. \A u \in Thread : Fits(overflow'[u])
    <2> SUFFICES ASSUME NEW u \in Thread PROVE Fits(overflow'[u])
      OBVIOUS
    <2>1. overflow'[u] = <<>> \/ (OverflowBucket' \in Bucket /\ overflow'[u] = BlockOf(OverflowBucket'))
      BY <1>2, <1>3 DEF PermInv, Overflows, BlockOf
    <2>2. \A c \in Bucket : c \in Element
      BY DEF Element
    <2>3. Fits(<<>>)
      BY Sizes DEF Fits
    <2>4. QED
      BY <2>1, <2>2, <2>3, FullFits
  <1>8. a' \in [0 .. N - 1 -> Element] /\ \A u \in Thread : Fits(swap'[u][1]) /\ Fits(swap'[u][2])
    <2>1. /\ a \in [0 .. N - 1 -> Element] /\ Fits(<<>>)
          /\ \A u \in Thread : Fits(swap[u][1]) /\ Fits(swap[u][2])
          /\ DOMAIN swap = Thread /\ \A u \in Thread : DOMAIN swap[u] = 1 .. 2
          /\ me[t].at \in Int /\ me[t].current \in 1 .. 2 /\ ThreadOK(t)
      <3>1. a \in [0 .. N - 1 -> Element] /\ \A u \in Thread : Fits(swap[u][1]) /\ Fits(swap[u][2])
        BY TypeParts
      <3>2. Fits(<<>>)
        BY Sizes DEF Fits
      <3>3. DOMAIN swap = Thread /\ \A u \in Thread : DOMAIN swap[u] = 1 .. 2
        BY <1>1 DEF PermInv, Types
      <3>4. me[t].at \in Int /\ me[t].current \in 1 .. 2 /\ ThreadOK(t)
        BY <1>1 DEF PermInv, Types, Threads, Locals
      <3>5. QED
        BY <3>1, <3>2, <3>3, <3>4
    <2>2. \A c \in Bucket : c \in Element
      BY DEF Element
    <2>3. CASE UNCHANGED <<a, swap>>
      BY <2>1, <2>3
    <2>4. CASE ReadBlock(t)
      <3>1. FullBlock(me[t].at)
        BY <2>1, <2>4 DEF ReadBlock, ThreadOK
      <3>2. BlockAt(me[t].at) = BlockOf(a[me[t].at]) /\ a[me[t].at] \in Element
        BY <2>2, <3>1, BlockAtFull DEF FullBlock
      <3>3. Fits(BlockAt(me[t].at))
        BY <3>2, FullFits
      <3>4. a' = Vacated(me[t].at) /\ swap' = [swap EXCEPT ![t][1] = BlockAt(me[t].at)]
        BY <2>4 DEF ReadBlock
      <3>5. QED
        BY <2>1, <3>2, <3>3, <3>4, PutTypes
    <2>5. CASE IncWrite(t)
      <3>1. a' = a /\ (swap' = swap \/ swap' = [swap EXCEPT ![t][me[t].current] = <<>>])
        BY <2>5 DEF IncWrite, WithoutHeld
      <3>2. QED
        BY <2>1, <3>1
    <2>6. CASE WriteBlock(t)
      <3>1. /\ a' = WithBlock(me[t].at, Held(t))
            /\ swap' = [swap EXCEPT ![t][me[t].current] = <<>>]
        BY <2>6 DEF WriteBlock, WithoutHeld
      <3>2. me[t].dest \in Bucket /\ Held(t) = BlockOf(me[t].dest)
        BY <2>1, <2>6 DEF WriteBlock, ThreadOK, Writing
      <3>3. a' \in [0 .. N - 1 -> Element]
        BY <2>1, <2>2, <3>1, <3>2, PutTypes
      <3>4. QED
        BY <2>1, <3>1, <3>3
    <2>7. CASE LookAtBlock(t)
      <3>1. me[t].dest \in Bucket /\ Held(t) = BlockOf(me[t].dest) /\ FullBlock(me[t].at)
        BY <2>1, <2>7 DEF LookAtBlock, ThreadOK, Writing
      <3>2. CASE a[me[t].at] = me[t].dest
        BY <2>3, <2>7, <3>2 DEF LookAtBlock
      <3>3. CASE a[me[t].at] # me[t].dest
        <4>1. /\ a' = WithBlock(me[t].at, Held(t))
              /\ swap' = [[swap EXCEPT ![t][me[t].current] = <<>>]
                              EXCEPT ![t][3 - me[t].current] = BlockAt(me[t].at)]
          BY <2>7, <3>3 DEF LookAtBlock, WithoutHeld
        <4>2. a' \in [0 .. N - 1 -> Element]
          BY <2>1, <2>2, <3>1, <4>1, PutTypes
        <4>3. Fits(BlockAt(me[t].at))
          BY <2>2, <3>1, BlockAtFull, FullFits DEF FullBlock
        <4>4. QED
          BY <2>1, <4>1, <4>2, <4>3
      <3>4. QED
        BY <3>2, <3>3
    <2>8. QED
      BY <1>1, <2>3, <2>4, <2>5, <2>6, <2>7
         DEF PermuteStep, StartRead, DecRead, StopRead, NextBucket, WaitForReaders
  <1>9. QED
    BY <1>1, <1>2, <1>4, <1>5, <1>6, <1>7, <1>8, TypeParts, TypeFrame

(* A thread has no more to save than what fits into a block.               *)
LEMMA SaveTypes ==
    ASSUME MarginBase, TypeInv, NEW t \in Thread, SaveMargins(t)
    PROVE  TypeInv'
  <1> DEFINE tail == bucketStart[LastBucket(t)]
             end == Align(tail)
             b == LastInBlock(t, end - BlockSize)
             X == bucketStart[b + 1] .. end - 1
  <1>1. MarginTypes /\ Shape /\ (\A i \in Bucket : BlocksLeft(i)) /\ pc \in [Thread -> Late]
    BY DEF MarginBase, MarginTypes, MarginPhase, Late
  <1>2. UNCHANGED <<input, bucketStart, ptr, reading, overflow, buffers, sharedOverflow>>
    BY DEF SaveMargins
  <1>3. pc' = [pc EXCEPT ![t] = "saved"]
    BY DEF SaveMargins, Goto
  <1>4. ASSUME tail # end, end <= N, ptr[b].w >= end
        PROVE  /\ Cardinality(X) <= BlockSize /\ Cardinality(X) \in Nat
               /\ \A k \in 1 .. Cardinality(X) : a[bucketStart[b + 1] + k - 1] \in Element
    <2>1. /\ b \in Bucket /\ b < LastBucket(t) /\ tail < end
          /\ bucketStart[b + 1] <= tail /\ bucketStart[b + 1] \in Nat
      BY <1>1, <1>4, MarginNeeded
    <2>2. LastBucket(t) \in 0 .. NumBuckets /\ NumBuckets \in Nat /\ N \in Nat
      BY <1>1, OwnBuckets DEF Shape
    <2>3. /\ tail \in Nat /\ end \in Nat /\ end < tail + BlockSize /\ BlockSize \in Nat
          /\ b \in Int
      BY <1>1, <2>1, <2>2, AlignRight, Sizes DEF Shape, Bucket
    <2>4. end - BlockSize >= 0
      <3>1. IsBlock(end) /\ IsBlock(0) /\ 0 < end
        BY <2>1, <2>3, AlignRight, Sizes DEF IsBlock
      <3> HIDE DEF end
      <3>2. 0 + BlockSize <= end
        BY <3>1, BlocksApart
      <3>3. QED
        BY <2>3, <3>2
    <2>5. end - BlockSize < bucketStart[b + 1]
      <3>1. CASE b + 1 = LastBucket(t)
        BY <2>3, <3>1
      <3>2. CASE b + 1 # LastBucket(t)
        <4>1. b + 1 \in Bucket /\ b + 1 < LastBucket(t) /\ LastBucket(t) > 0
          BY <2>1, <2>2, <3>2 DEF Bucket
        <4>2. \A c \in Bucket : c < LastBucket(t) /\ bucketStart[c] <= end - BlockSize => c <= b
          BY <1>1, <2>3, <2>4, <4>1, LastFound
        <4>3. ~(b + 1 <= b)
          BY <2>3
        <4>4. ~(bucketStart[b + 1] <= end - BlockSize)
          BY <4>1, <4>2, <4>3
        <4> HIDE DEF end, b
        <4>5. QED
          BY <2>1, <2>3, <4>4
      <3>3. QED
        BY <3>1, <3>2
    <2> HIDE DEF end, b, tail
    <2>6. bucketStart[b + 1] \in Int /\ end - 1 \in Int /\ bucketStart[b + 1] <= end - 1
      BY <2>1, <2>3
    <2>7. Cardinality(X) = end - bucketStart[b + 1]
      <3>1. Cardinality(bucketStart[b + 1] .. end - 1) = (end - 1) - bucketStart[b + 1] + 1
        BY <2>6, FS_Interval
      <3>2. QED
        BY <2>3, <2>6, <3>1
    <2>8. \A k \in 1 .. Cardinality(X) : bucketStart[b + 1] + k - 1 \in 0 .. N - 1
      BY <1>4, <2>1, <2>2, <2>3, <2>7
    <2>9. a \in [0 .. N - 1 -> Element]
      BY TypeParts
    <2>10. QED
      BY <2>1, <2>3, <2>5, <2>6, <2>7, <2>8, <2>9
  <1>5. a' \in [0 .. N - 1 -> Element]
    <2>1. a \in [0 .. N - 1 -> Element] /\ Gone \in Element
      BY TypeParts DEF Element
    <2>2. a' = a \/ a' = [p \in DOMAIN a |-> IF p \in X THEN Gone ELSE a[p]]
      BY DEF SaveMargins
    <2>3. QED
      BY <2>1, <2>2
  <1>6. \A u \in Thread : Fits(swap'[u][1]) /\ Fits(swap'[u][2])
    <2>1. /\ \A u \in Thread : Fits(swap[u][1]) /\ Fits(swap[u][2])
          /\ DOMAIN swap = Thread /\ \A u \in Thread : DOMAIN swap[u] = 1 .. 2
      BY <1>1, TypeParts DEF MarginTypes
    <2>2. CASE tail # end /\ end <= N /\ ptr[b].w >= end
      <3> DEFINE block == [k \in 1 .. Cardinality(X) |-> a[bucketStart[b + 1] + k - 1]]
      <3>1. swap' = [swap EXCEPT ![t][1] = block]
        BY <2>2 DEF SaveMargins
      <3>2. Fits(block)
        <4> HIDE DEF X, b
        <4>1. QED
          BY <1>4, <2>2 DEF Fits
      <3> HIDE DEF block
      <3>3. QED
        BY <2>1, <3>1, <3>2
    <2>3. CASE ~(tail # end /\ end <= N /\ ptr[b].w >= end)
      <3>1. swap' = swap
        BY <2>3 DEF SaveMargins
      <3>2. QED
        BY <2>1, <3>1
    <2>4. QED
      BY <2>2, <2>3
  <1>7. \A u \in Thread : pc'[u] \in Locations
    BY <1>1, <1>3, TypeParts DEF Locations
  <1> HIDE DEF tail, end, b, X
  <1>8. QED
    BY <1>2, <1>5, <1>6, <1>7, TypeParts, TypeFrame

(* writeMargins takes its elements from full blocks and buffers.           *)
LEMMA WriteTypes ==
    ASSUME MarginBase, TypeInv, NEW t \in Thread, WriteMargin(t)
    PROVE  TypeInv'
  <1> DEFINE i == me[t].bucket
             source == FirstSource(t, i) \o FromBuffers(i)
             E == [k \in 1 .. Cardinality(Excess(i)) |-> a[bucketStart[i + 1] + k - 1]]
  <1>1. MarginTypes /\ Shape /\ (\A c \in Bucket : BlocksLeft(c))
    BY DEF MarginBase, MarginTypes
  <1>2. UNCHANGED <<input, bucketStart, ptr, reading, pc, sharedOverflow>>
    BY DEF WriteMargin
  <1>3. i \in Bucket
    <2>1. pc[t] = "margins" /\ i < LastBucket(t)
      BY DEF WriteMargin
    <2>2. FirstBucket(t) \in 0 .. NumBuckets /\ LastBucket(t) \in 0 .. NumBuckets /\ NumBuckets \in Nat
      BY <1>1, OwnBuckets DEF Shape
    <2>3. FirstBucket(t) <= i /\ i \in Int
      BY <1>1, <2>1 DEF MarginBase, MarginPhase, MarginTypes, MarginLocals
    <2> HIDE DEF i
    <2>4. QED
      BY <2>1, <2>2, <2>3 DEF Bucket
  <1>4. /\ a \in [0 .. N - 1 -> Element] /\ sharedOverflow \in Thread \cup {-1}
        /\ \A u \in Thread : Fits(swap[u][1]) /\ Fits(swap[u][2]) /\ Fits(overflow[u])
        /\ \A u \in Thread : \A b \in Bucket : buffers[u][b] \in 0 .. BlockSize
    BY TypeParts
  <1>5. Gone \in Element /\ i \in Element /\ Fits(<<>>)
    BY <1>3, Sizes DEF Element, Fits
  <1>6. FromBuffers(i) \in Seq(Element)
    <2>1. InBuffers(i) \in Nat
      BY <1>1, <1>3, BuffersNat DEF MarginTypes, Shape
    <2> HIDE DEF i
    <2>2. QED
      BY <1>5, <2>1 DEF FromBuffers
  <1>7. ~TakesOverflow(i) => E \in Seq(Element)
    <2> SUFFICES ASSUME ~TakesOverflow(i) PROVE E \in Seq(Element)
      OBVIOUS
    <2>1. /\ bucketStart[i + 1] \in Nat /\ ptr[i].w \in Int /\ N \in Nat
          /\ Excess(i) = {} \/ (Excess(i) = bucketStart[i + 1] .. ptr[i].w - 1
                               /\ bucketStart[i + 1] < ptr[i].w /\ ptr[i].w <= N)
      BY <1>1, <1>3, BlocksEnd DEF BlocksLeft, Shape
    <2> HIDE DEF i
    <2>2. CASE Excess(i) = {}
      <3>1. Cardinality(Excess(i)) = 0
        BY <2>2, FS_EmptySet
      <3>2. QED
        BY <3>1
    <2>3. CASE Excess(i) # {}
      <3>1. Cardinality(bucketStart[i + 1] .. ptr[i].w - 1) = (ptr[i].w - 1) - bucketStart[i + 1] + 1
        BY <2>1, <2>3, FS_Interval
      <3>2. Cardinality(Excess(i)) = ptr[i].w - bucketStart[i + 1]
        BY <2>1, <2>3, <3>1
      <3>3. \A k \in 1 .. Cardinality(Excess(i)) : bucketStart[i + 1] + k - 1 \in 0 .. N - 1
        BY <2>1, <2>3, <3>2
      <3>4. Cardinality(Excess(i)) \in Nat
        BY <2>1, <2>3, <3>2
      <3>5. QED
        BY <1>4, <3>3, <3>4
    <2>4. QED
      BY <2>2, <2>3
  <1>8. FirstSource(t, i) \in Seq(Element)
    <2> HIDE DEF E
    <2>1. CASE TakesOverflow(i)
      <3>1. sharedOverflow \in Thread /\ FirstSource(t, i) = overflow[sharedOverflow]
        BY <1>4, <2>1 DEF TakesOverflow, FirstSource
      <3>2. QED
        BY <1>4, <3>1 DEF Fits
    <2>2. CASE ~TakesOverflow(i) /\ TakesSwap(t, i)
      BY <1>4, <2>2 DEF Fits, FirstSource
    <2>3. CASE ~TakesOverflow(i) /\ ~TakesSwap(t, i)
      BY <1>7, <2>3 DEF FirstSource, E
    <2>4. QED
      BY <2>1, <2>2, <2>3
  <1>9. source \in Seq(Element)
    <2> HIDE DEF i
    <2>1. QED
      BY <1>6, <1>8
  <1>10. a' \in [0 .. N - 1 -> Element]
    <2> DEFINE K(p) == {k \in DOMAIN source : Slot(i, k) = p}
    <2>1. \A k \in DOMAIN source : source[k] \in Element
      <3> HIDE DEF source
      <3>1. QED
        BY <1>9
    <2>2. \A p : K(p) # {} => source[CHOOSE k \in K(p) : TRUE] \in Element
      <3> SUFFICES ASSUME NEW p, K(p) # {} PROVE source[CHOOSE k \in K(p) : TRUE] \in Element
        OBVIOUS
      <3>1. (CHOOSE k \in K(p) : TRUE) \in K(p)
        <4> HIDE DEF K
        <4>1. QED
          OBVIOUS
      <3>2. (CHOOSE k \in K(p) : TRUE) \in DOMAIN source
        BY <3>1
      <3> HIDE DEF source, K
      <3>3. QED
        BY <2>1, <3>2
    <2> DEFINE taken == IF TakesOverflow(i) \/ TakesSwap(t, i) THEN {} ELSE Excess(i)
    <2>3. a' = [p \in DOMAIN a |->
                  IF K(p) # {} THEN source[CHOOSE k \in K(p) : TRUE]
                  ELSE IF p \in taken THEN Gone ELSE a[p]]
      BY DEF WriteMargin
    <2> HIDE DEF source, K, taken
    <2>4. QED
      BY <1>4, <1>5, <2>2, <2>3
  <1> HIDE DEF source
  <1>11. \A u \in Thread : \A b \in Bucket : buffers'[u][b] \in 0 .. BlockSize
    <2>1. buffers' = [u \in Thread |-> [buffers[u] EXCEPT ![i] = 0]]
      BY DEF WriteMargin
    <2>2. \A u \in Thread : buffers[u] \in [Bucket -> Nat]
      BY <1>1 DEF MarginTypes
    <2> HIDE DEF i
    <2>3. QED
      BY <1>4, <2>1, <2>2, Sizes
  <1>12. \A u \in Thread : Fits(swap'[u][1]) /\ Fits(swap'[u][2])
    <2>1. swap' = swap \/ swap' = [swap EXCEPT ![t][1] = <<>>]
      BY DEF WriteMargin
    <2>2. DOMAIN swap = Thread /\ \A u \in Thread : DOMAIN swap[u] = 1 .. 2
      BY <1>1 DEF MarginTypes
    <2>3. QED
      BY <1>4, <1>5, <2>1, <2>2
  <1>13. \A u \in Thread : Fits(overflow'[u])
    <2>1. overflow' = overflow \/ overflow' = [overflow EXCEPT ![sharedOverflow] = <<>>]
      BY DEF WriteMargin
    <2>2. DOMAIN overflow = Thread
      BY <1>1 DEF MarginTypes
    <2>3. QED
      BY <1>4, <1>5, <2>1, <2>2
  <1> HIDE DEF i
  <1>14. QED
    BY <1>2, <1>4, <1>10, <1>11, <1>12, <1>13, TypeParts, TypeFrame

(* Passing from phase to phase changes nothing but the phase.              *)
LEMMA PassingTypes ==
    ASSUME TypeInv, DOMAIN pc = Thread,
           UNCHANGED vars \/ Barriers \/ \E t \in Thread : Publish(t) \/ EndMargins(t)
    PROVE  TypeInv'
  <1>1. UNCHANGED <<input, a, bucketStart, ptr, reading, swap, overflow, buffers>>
    BY DEF vars, Barriers, Publish, EndMargins, mvars
  <1>2. sharedOverflow' \in Thread \cup {-1}
    BY TypeParts DEF vars, Barriers, Publish, EndMargins, mvars
  <1>3. \A u \in Thread : pc'[u] \in Locations
    <2>1. CASE UNCHANGED vars
      BY <2>1, TypeParts DEF vars
    <2>2. CASE Barriers
      BY <2>2 DEF Barriers, Barrier, Locations
    <2>3. ASSUME NEW t \in Thread, Publish(t) \/ EndMargins(t) PROVE \A u \in Thread : pc'[u] \in Locations
      <3>1. \A u \in Thread : pc'[u] = pc[u] \/ pc'[u] \in {"margins", "published", "done"}
        BY <2>3 DEF Publish, EndMargins, Goto
      <3>2. QED
        BY <3>1, TypeParts DEF Locations
    <2>4. QED
      BY <2>1, <2>2, <2>3
  <1>4. QED
    BY <1>1, <1>2, <1>3, TypeParts, TypeFrame

LEMMA TypeStep ==
    ASSUME Open \/ MarginBase, TypeInv, [Next]_vars
    PROVE  TypeInv'
  <1>1. DOMAIN pc = Thread
    BY DEF Open, BeforePermutation, PermInv, Types, MarginBase, MarginPhase
  <1>2. CASE UNCHANGED vars \/ Barriers
    BY <1>1, <1>2, PassingTypes
  <1>3. ASSUME NEW t \in Thread, Step(t) PROVE TypeInv'
    <2>1. CASE Publish(t) \/ EndMargins(t)
      BY <1>1, <2>1, PassingTypes
    <2>2. CASE Open
      <3>1. pc[t] \in Early \cup Permuting
        BY <2>2 DEF Open, BeforePermutation, PermInv, Types
      <3>2. ~SaveMargins(t) /\ ~WriteMargin(t)
        BY <3>1 DEF SaveMargins, WriteMargin, Early, Permuting
      <3>3. QED
        BY <1>3, <2>1, <2>2, <3>2, ClassifyTypes, PointersTypes, MoveTypes, PermuteTypes DEF Step
    <2>3. CASE MarginBase /\ ~Open
      <3>1. Passing \/ \E u \in Thread : SaveMargins(u) \/ WriteMargin(u)
        BY <2>3, MarginSteps
      <3>2. pc[t] \in Late
        BY <2>3 DEF MarginBase, MarginPhase, Late
      <3>3. ~Classify(t) /\ ~SetPointers(t) /\ ~StartMove(t) /\ ~MoveBlocks(t) /\ ~EndMove(t)
        BY <3>2 DEF Late, Classify, SetPointers, StartMove, MoveBlocks, EndMove
      <3>4. ~PermuteBlocks(t)
        BY <3>2 DEF Late, PermuteBlocks, PermuteStep, StartRead, DecRead, ReadBlock, StopRead, NextBucket,
                    IncWrite, WaitForReaders, WriteBlock, LookAtBlock
      <3>5. QED
        BY <1>3, <2>1, <2>3, <3>3, <3>4, SaveTypes, WriteTypes DEF Step
    <2>4. QED
      BY <2>2, <2>3
  <1>4. QED
    BY <1>2, <1>3 DEF Next, Stop

LEMMA TypeInit == Init => TypeInv
  <1> SUFFICES ASSUME Init PROVE TypeInv
    OBVIOUS
  <1>1. GoodInput
    BY InputIsGood DEF Init
  <1>2. N \in Nat /\ T \in Nat /\ BlockSize \in Nat /\ BlockSize > 0
    BY <1>1, Sizes DEF GoodInput
  <1>3. a \in [0 .. N - 1 -> Element]
    BY <1>1, LabelType DEF Init, Pos, Label, Element
  <1>4. Fits(<<>>)
    BY <1>2 DEF Fits
  <1>5. \A t \in Thread : Fits(swap[t][1]) /\ Fits(swap[t][2]) /\ Fits(overflow[t])
    BY <1>4 DEF Init
  <1>6. bucketStart \in [0 .. NumBuckets -> 0 .. N]
    BY <1>2 DEF Init
  <1>7. \A t \in Thread : \A block \in {swap[t][1], swap[t][2], overflow[t]} :
           block \in Seq(Element) /\ Len(block) <= BlockSize
    BY <1>5 DEF Fits
  <1>8. \A b \in Bucket : reading[b] \in 0 .. T /\ ptr[b].w % BlockSize = 0 /\ ptr[b].r % BlockSize = 0
    BY <1>2 DEF Init
  <1>9. \A t \in Thread : pc[t] \in Locations /\ \A b \in Bucket : buffers[t][b] \in 0 .. BlockSize
    BY <1>2 DEF Init, Locations
  <1>10. QED
    BY <1>3, <1>6, <1>7, <1>8, <1>9 DEF TypeInv, TypeOK, Init

(* No buffer or block ever takes more than kBlockSize elements, whatever   *)
(* the elements and the order of the steps.                                *)
THEOREM TypesOfStep == Spec => []TypeOK
  <1>1. TypeInv => TypeOK
    BY DEF TypeInv
  <1>2. (Open \/ MarginBase) /\ TypeInv /\ [Next]_vars => TypeInv'
    BY TypeStep
  <1>3. QED
    BY <1>1, <1>2, TypeInit, BaseHolds, PTL DEF Spec

=============================================================================
