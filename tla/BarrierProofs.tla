--------------------------- MODULE BarrierProofs ---------------------------
(***************************************************************************)
(* Theorems about Barrier, for any finite set of threads, any number of    *)
(* calls per job, any choice of which of them are single(), and any number *)
(* of teams: the invariants, and that Barrier implements Rendezvous.       *)
(***************************************************************************)
EXTENDS Barrier, FiniteSetTheorems, TLAPS

(* The meetings a thread is through with: those it has left, and the one   *)
(* it is being released from.                                              *)
Passed(t) == IF Released(t) THEN left[t] + 1 ELSE left[t]

(* Only the team uses the barrier, and it is set for the whole team.       *)
TeamOnly ==
    /\ init_count = Cardinality(team)
    /\ \A t \in Thread : pc[t] # "out" => t \in team /\ left[t] < Rounds

(* The whole team is through with the same meetings: this is why one bit   *)
(* suffices for the flag.                                                  *)
SameMeeting == \A t, u \in team : Passed(t) = Passed(u)

(* One thread at most runs func, in a meeting that is a single().          *)
OneFunc ==
    /\ \A t \in Thread : pc[t] = "func" => left[t] + 1 \in Single
    /\ \A t, u \in Thread : pc[t] = "func" /\ pc[u] = "func" => t = u

(* func has run once in every single() the team is through with, in no     *)
(* later one, and in the current one unless it is running or nobody came.  *)
FuncPending == Arrived = {} \/ \E u \in Thread : pc[u] = "func"

RunOnce ==
    \A t \in team, r \in Single :
        /\ r <= Passed(t) => runs[r] = 1
        /\ r = Passed(t) + 1 => runs[r] = (IF FuncPending THEN 0 ELSE 1)
        /\ r > Passed(t) + 1 => runs[r] = 0

IInv ==
    /\ TypeOK /\ TeamOnly /\ SameMeeting /\ OneFunc /\ RunOnce
    /\ HitCount /\ NoLostWakeup

USE DEF PC

-----------------------------------------------------------------------------
(* The team and those of it that have arrived are finite sets, so counting *)
(* them is subtracting: nobody is missing exactly when the counts agree.   *)
LEMMA ArrivedCount ==
    ASSUME TypeOK
    PROVE  /\ IsFiniteSet(team) /\ Cardinality(team) \in Nat \ {0}
           /\ IsFiniteSet(Arrived) /\ Cardinality(Arrived) \in 0 .. Cardinality(team)
           /\ Cardinality(Arrived) = Cardinality(team) => Arrived = team
           /\ Cardinality(Arrived) = 0 => Arrived = {}
           /\ \A t \in team \ Arrived :
                 /\ Cardinality(Arrived \cup {t}) = Cardinality(Arrived) + 1
                 /\ Cardinality(Arrived) + 1 = Cardinality(team) => Arrived = team \ {t}
  <1>1. IsFiniteSet(team) /\ Cardinality(team) \in Nat \ {0}
    BY ThreadAssumption, FS_Subset, FS_EmptySet, FS_CardinalityType
       DEF TypeOK, ThreadAssumption
  <1>2. Arrived \subseteq team
    BY DEF Arrived
  <1>3. IsFiniteSet(Arrived) /\ Cardinality(Arrived) \in 0 .. Cardinality(team)
    BY <1>1, <1>2, FS_Subset, FS_CardinalityType
  <1>4. Cardinality(Arrived) = Cardinality(team) => Arrived = team
    BY <1>1, <1>2, FS_Subset
  <1>5. Cardinality(Arrived) = 0 => Arrived = {}
    BY <1>3, FS_EmptySet
  <1>6. ASSUME NEW t \in team \ Arrived
        PROVE  /\ Cardinality(Arrived \cup {t}) = Cardinality(Arrived) + 1
               /\ Cardinality(Arrived) + 1 = Cardinality(team) => Arrived = team \ {t}
    <2>1. Cardinality(Arrived \cup {t}) = Cardinality(Arrived) + 1
      BY <1>3, FS_AddElement
    <2>2. Arrived \cup {t} \subseteq team
      BY <1>2
    <2>3. Cardinality(Arrived) + 1 = Cardinality(team) => Arrived \cup {t} = team
      BY <1>1, <2>1, <2>2, FS_Subset
    <2>4. QED
      BY <2>1, <2>3
  <1>7. QED
    BY <1>1, <1>3, <1>4, <1>5, <1>6

(* What hit_count_ tells the thread that reads it under the lock.          *)
LEMMA ReadHitCount ==
    ASSUME IInv, NEW t \in team, pc[t] = "out"
    PROVE  /\ t \notin Arrived /\ Passed(t) = left[t]
           /\ hit_count = init_count => Arrived = {}
           /\ left[t] + 1 \notin Single =>
                 /\ ~Served
                 /\ hit_count > 0
                 /\ hit_count = 1 => Arrived = team \ {t}
           /\ hit_count = 0 => Served /\ Arrived = team \ {t}
  <1> USE DEF IInv
  <1>1. t \notin Arrived /\ Passed(t) = left[t]
    BY DEF Arrived, Passed, Released
  <1>2. \A u \in Arrived : u \in team /\ left[u] = left[t]
    BY <1>1 DEF Arrived, SameMeeting, Passed
  <1>3. left[t] + 1 \notin Single => ~Served
    BY <1>2 DEF Served
  <1>4. Arrived = {} => ~Served
    BY DEF Served
  <1>5. Cardinality(Arrived) + 1 <= Cardinality(team)
    BY <1>1, ArrivedCount
  <1>6. hit_count = Cardinality(team) - Cardinality(Arrived) - (IF Served THEN 1 ELSE 0)
    BY DEF HitCount, TeamOnly
  <1>7. hit_count = init_count => Cardinality(Arrived) = 0
    BY <1>5, <1>6, ArrivedCount DEF TeamOnly
  <1>8. hit_count = 0 => Served /\ Cardinality(Arrived) + 1 = Cardinality(team)
    BY <1>5, <1>6, ArrivedCount
  <1>9. left[t] + 1 \notin Single =>
          hit_count > 0 /\ (hit_count = 1 => Cardinality(Arrived) + 1 = Cardinality(team))
    BY <1>3, <1>5, <1>6, ArrivedCount
  <1>10. QED
    BY <1>1, <1>3, <1>7, <1>8, <1>9, ArrivedCount

-----------------------------------------------------------------------------
LEMMA InitIInv == Init => IInv
  <1> SUFFICES ASSUME Init PROVE IInv
    OBVIOUS
  <1>1. IsFiniteSet(team) /\ Cardinality(team) \in Nat
    BY ThreadAssumption, FS_Subset, FS_CardinalityType DEF Init, ThreadAssumption
  <1>2. Arrived = {}
    BY DEF Init, Arrived
  <1>3. TypeOK
    <2>1. init_count \in Nat /\ hit_count \in 0 .. init_count /\ teams \in Nat
      BY <1>1 DEF Init
    <2>2. pc \in [Thread -> PC] /\ f \in [Thread -> BOOLEAN]
      BY DEF Init
    <2>3. left \in [Thread -> 0 .. Rounds]
      BY RoundAssumption DEF Init, RoundAssumption
    <2>4. runs \in [1 .. Rounds -> Nat]
      BY DEF Init
    <2>5. team \in (SUBSET Thread) \ {{}}
      BY DEF Init
    <2>6. flag \in BOOLEAN
      BY DEF Init
    <2>7. QED
      BY <2>1, <2>2, <2>3, <2>4, <2>5, <2>6 DEF TypeOK
  <1>4. HitCount
    BY <1>1, <1>2, FS_EmptySet DEF HitCount, Served, Init
  <1>5. \A t \in Thread : pc[t] = "out" /\ Passed(t) = 0 /\ left[t] = 0
    BY DEF Init, Passed, Released
  <1>6. RunOnce
    BY <1>2, <1>5, RoundAssumption DEF Init, RunOnce, FuncPending, RoundAssumption
  <1>7. QED
    BY <1>3, <1>4, <1>5, <1>6
       DEF Init, IInv, TeamOnly, SameMeeting, OneFunc, NoLostWakeup

(* A thread that comes to the meeting and sleeps there.                    *)
LEMMA ComeAndWait ==
    ASSUME IInv, NEW t \in team, pc[t] = "out", left[t] < Rounds,
           Wait(t, hit_count - 1),
           UNCHANGED <<init_count, team, left, runs, teams>>,
           hit_count > 0,
           Arrived = {} => left[t] + 1 \notin Single
    PROVE  IInv'
  <1> USE DEF IInv
  <1>1. /\ pc' = [pc EXCEPT ![t] = "wait"]
        /\ f' = [f EXCEPT ![t] = flag]
        /\ flag' = flag /\ hit_count' = hit_count - 1
    BY DEF Wait, Goto
  <1>2. TypeOK'
    BY <1>1 DEF TypeOK
  <1>3. t \in Thread /\ \A u \in Thread : (Released(u))' <=> Released(u)
    BY <1>1 DEF TypeOK, Released
  <1>4. \A u \in Thread : Passed(u)' = Passed(u)
    BY <1>3 DEF Passed
  <1>5. t \notin Arrived /\ Arrived' = Arrived \cup {t}
    BY <1>1, <1>3 DEF Arrived, TypeOK, Released
  <1>6. \A u \in Arrived : u \in team /\ left[u] = left[t]
    BY <1>5, ReadHitCount DEF Arrived, SameMeeting, Passed
  <1>7. Served' <=> Served
    <2>1. Served' <=> (Served \/ (left[t] + 1 \in Single /\ runs[left[t] + 1] > 0))
      BY <1>5 DEF Served
    <2>2. CASE Arrived = {}
      BY <2>1, <2>2
    <2>3. CASE Arrived # {}
      BY <2>1, <2>3, <1>6 DEF Served
    <2>4. QED
      BY <2>2, <2>3
  <1>8. HitCount'
    BY <1>1, <1>5, <1>7, ArrivedCount DEF HitCount, TypeOK
  <1>9. RunOnce'
    <2>1. \A u \in Thread : pc'[u] = "func" <=> pc[u] = "func"
      BY <1>1 DEF TypeOK
    <2>2. Arrived # {} => (FuncPending' <=> FuncPending)
      BY <1>5, <2>1 DEF FuncPending
    <2>3. \A u \in team : Passed(u) = left[t]
      BY ReadHitCount DEF SameMeeting
    <2>4. QED
      BY <1>4, <2>2, <2>3, <1>3 DEF RunOnce, TypeOK
  <1>10. TeamOnly' /\ SameMeeting' /\ OneFunc'
    <2>1. TeamOnly'
      BY <1>1, <1>3 DEF TeamOnly, TypeOK
    <2>2. SameMeeting'
      BY <1>3, <1>4 DEF SameMeeting, TypeOK
    <2>3. OneFunc'
      BY <1>1, <1>3 DEF OneFunc, TypeOK
    <2>4. QED
      BY <2>1, <2>2, <2>3
  <1>11. NoLostWakeup'
    <2>1. ~Released(t)
      BY DEF Released
    <2>2. QED
      BY <1>1, <1>3, <2>1 DEF NoLostWakeup, TypeOK
  <1>12. QED
    BY <1>2, <1>8, <1>9, <1>10, <1>11

(* The thread that completes the meeting flips the flag, which releases    *)
(* everybody else at once.                                                 *)
LEMMA CompleteMeeting ==
    ASSUME IInv, NEW t \in team, ~Released(t), left[t] < Rounds,
           team \ {t} \subseteq Arrived,
           \A u \in Thread \ {t} : pc[u] # "func",
           NotifyAll(t),
           UNCHANGED <<init_count, team, left, teams>>,
           runs' \in [1 .. Rounds -> Nat],
           \A r \in Single : /\ r <= left[t] + 1 => runs'[r] = 1
                             /\ r > left[t] + 1 => runs'[r] = 0
    PROVE  IInv'
  <1> USE DEF IInv
  <1>1. /\ pc' = [pc EXCEPT ![t] = "notify"]
        /\ flag' = ~flag /\ f' = f /\ hit_count' = init_count
    BY DEF NotifyAll, Rearm, Goto
  <1>2. TypeOK' /\ t \in Thread
    BY <1>1 DEF TypeOK
  <1>3. \A u \in team \ {t} :
            pc[u] \in {"wait", "woken"} /\ f[u] = flag /\ ~Released(u)
    BY DEF Arrived, Released, TypeOK
  <1>4. \A u \in team : Released(u)' /\ Passed(u)' = Passed(u) + 1
    BY <1>1, <1>2, <1>3 DEF Released, Passed, TypeOK
  <1>5. Arrived' = {}
    BY <1>4 DEF Arrived
  <1>6. \A u \in team : Passed(u) = left[t]
    BY DEF Passed, SameMeeting
  <1>7. HitCount'
    BY <1>1, <1>2, <1>5, FS_EmptySet DEF HitCount, Served, TypeOK
  <1>8. SameMeeting'
    BY <1>4 DEF SameMeeting
  <1>9. RunOnce'
    <2> SUFFICES ASSUME NEW u \in team, NEW r \in Single
                 PROVE  /\ r <= Passed(u)' => runs'[r] = 1
                        /\ r = Passed(u)' + 1 => runs'[r] = (IF FuncPending' THEN 0 ELSE 1)
                        /\ r > Passed(u)' + 1 => runs'[r] = 0
      BY DEF RunOnce
    <2>1. FuncPending' /\ Passed(u)' = left[t] + 1
      BY <1>4, <1>5, <1>6 DEF FuncPending
    <2>2. left[t] \in Nat /\ r \in Nat
      BY <1>2, RoundAssumption DEF TypeOK, RoundAssumption
    <2>3. QED
      BY <2>1, <2>2
  <1>10. TeamOnly' /\ OneFunc' /\ NoLostWakeup'
    BY <1>1, <1>2 DEF TeamOnly, OneFunc, NoLostWakeup, TypeOK
  <1>11. QED
    BY <1>2, <1>7, <1>8, <1>9, <1>10

(* A thread other than those that come: the flag, the counter and the set  *)
(* of arrived threads stay; only the released threads get out.             *)
LEMMA GetOut ==
    ASSUME IInv, NEW t \in team, Released(t),
           left' = [left EXCEPT ![t] = @ + 1],
           pc' \in [Thread -> PC], pc'[t] = "out",
           \A u \in Thread \ {t} :
               \/ pc'[u] = pc[u]
               \/ pc[u] = "wait" /\ pc'[u] = "woken",
           (\E u \in Thread \ {t} : pc'[u] = "wait" /\ Released(u)) =>
               \E u \in team : pc'[u] = "notify",
           UNCHANGED <<init_count, hit_count, flag, f, team, runs, teams>>
    PROVE  IInv'
  <1> USE DEF IInv
  <1>1. t \in Thread /\ left[t] < Rounds
    BY DEF TypeOK, TeamOnly, Released
  <1>2. TypeOK'
    <2>1. left[t] + 1 \in 0 .. Rounds
      BY <1>1, RoundAssumption DEF TypeOK, RoundAssumption
    <2>2. left' \in [Thread -> 0 .. Rounds]
      BY <1>1, <2>1 DEF TypeOK
    <2>3. QED
      BY <2>2 DEF TypeOK
  <1>3. /\ \A u \in Thread \ {t} : (Released(u)' <=> Released(u))
        /\ ~Released(t)'
    BY <1>1 DEF Released, TypeOK
  <1>4. \A u \in Thread : Passed(u)' = Passed(u)
    BY <1>1, <1>3 DEF Passed, TypeOK
  <1>5. t \notin Arrived /\ Arrived' = Arrived
    BY <1>1, <1>3 DEF Arrived, TypeOK
  <1>6. \A u \in Thread : pc'[u] = "func" <=> pc[u] = "func"
    BY DEF Released
  <1>7. \A u \in Arrived : left'[u] = left[u]
    BY <1>1, <1>5 DEF Arrived, TypeOK
  <1>8. HitCount'
    BY <1>5, <1>7 DEF HitCount, Served
  <1>9. RunOnce'
    BY <1>4, <1>5, <1>6, <1>1 DEF RunOnce, FuncPending, TypeOK
  <1>10. TeamOnly'
    BY <1>1 DEF TeamOnly, TypeOK
  <1>11. SameMeeting'
    BY <1>4 DEF SameMeeting, TypeOK
  <1>12. OneFunc'
    BY <1>1, <1>6 DEF OneFunc, TypeOK
  <1>13. NoLostWakeup'
    BY <1>1, <1>3 DEF NoLostWakeup
  <1>14. QED
    BY <1>2, <1>8, <1>9, <1>10, <1>11, <1>12, <1>13

(* Waking up, and going back to sleep, when nobody is released by it.      *)
LEMMA SleepOrWake ==
    ASSUME IInv, NEW t \in Thread,
           \/ pc[t] = "wait" /\ Goto(t, "woken")
           \/ pc[t] = "woken" /\ f[t] = flag /\ Goto(t, "wait"),
           UNCHANGED <<init_count, hit_count, flag, f, team, left, runs, teams>>
    PROVE  IInv'
  <1> USE DEF IInv
  <1>1. /\ pc' \in [Thread -> PC]
        /\ \/ pc[t] = "wait" /\ pc'[t] = "woken"
           \/ pc[t] = "woken" /\ pc'[t] = "wait" /\ f[t] = flag
        /\ \A u \in Thread \ {t} : pc'[u] = pc[u]
    BY DEF Goto, TypeOK
  <1>2. TypeOK'
    BY <1>1 DEF TypeOK
  <1>3. \A u \in Thread : Released(u)' <=> Released(u)
    BY <1>1 DEF Released
  <1>4. \A u \in Thread : Passed(u)' = Passed(u)
    BY <1>3 DEF Passed
  <1>5. \A u \in Thread :
            /\ pc'[u] = "func" <=> pc[u] = "func"
            /\ pc'[u] = "out" <=> pc[u] = "out"
            /\ pc'[u] = "notify" <=> pc[u] = "notify"
    BY <1>1
  <1>6. Arrived' = Arrived
    BY <1>3, <1>5 DEF Arrived, TypeOK
  <1>7. HitCount' /\ RunOnce'
    BY <1>4, <1>5, <1>6 DEF HitCount, Served, RunOnce, FuncPending, TypeOK
  <1>8. TeamOnly' /\ OneFunc'
    BY <1>5 DEF TeamOnly, OneFunc
  <1>9. SameMeeting'
    BY <1>4 DEF SameMeeting, TypeOK
  <1>10. NoLostWakeup'
    <2> SUFFICES ASSUME NEW u \in Thread, pc'[u] = "wait", Released(u)'
                 PROVE  \E v \in team : pc'[v] = "notify"
      BY DEF NoLostWakeup
    <2>1. u # t
      BY <1>1 DEF Released
    <2>2. QED
      BY <1>1, <1>3, <1>5, <2>1 DEF NoLostWakeup, TypeOK
  <1>11. QED
    BY <1>2, <1>7, <1>8, <1>9, <1>10

(* Each step under the mutex, the notification and a spurious wake-up keep *)
(* the invariant.                                                          *)
LEMMA StepIInv ==
    ASSUME IInv, NEW t \in Thread, Step(t) \/ SpuriousWakeup(t)
    PROVE  IInv'
  <1> USE DEF IInv
  <1>1. CASE CallBarrier(t)
    <2>1. /\ t \in team /\ pc[t] = "out" /\ left[t] < Rounds
          /\ left[t] + 1 \notin Single /\ left[t] \in Nat
      BY <1>1 DEF CallBarrier, Call, TypeOK
    <2>2. UNCHANGED <<init_count, team, left, runs, teams>>
      BY <1>1 DEF CallBarrier
    <2>3. hit_count > 0 /\ (hit_count = 1 => Arrived = team \ {t}) /\ hit_count \in Nat
      BY <2>1, ReadHitCount DEF TypeOK
    <2>4. CASE AllHit(hit_count - 1)
      <3>1. NotifyAll(t) /\ hit_count = 1
        BY <1>1, <2>3, <2>4 DEF CallBarrier, AllHit
      <3>2. ~Released(t) /\ Arrived = team \ {t}
        BY <2>1, <2>3, <3>1 DEF Released
      <3>3. \A u \in Thread \ {t} : pc[u] # "func"
        BY <2>1, <3>2 DEF OneFunc, TeamOnly, Arrived, SameMeeting, Passed
      <3>4. \A r \in Single : /\ r <= left[t] + 1 => runs[r] = 1
                              /\ r > left[t] + 1 => runs[r] = 0
        <4> SUFFICES ASSUME NEW r \in Single
                     PROVE  /\ r <= left[t] + 1 => runs[r] = 1
                            /\ r > left[t] + 1 => runs[r] = 0
          OBVIOUS
        <4>1. r \in Nat /\ r # left[t] + 1 /\ Passed(t) = left[t]
          BY <2>1, <3>2, RoundAssumption DEF RoundAssumption, Passed
        <4>2. QED
          BY <2>1, <4>1 DEF RunOnce
      <3>5. QED
        BY <2>1, <2>2, <3>1, <3>2, <3>3, <3>4, CompleteMeeting DEF TypeOK
    <2>5. CASE ~AllHit(hit_count - 1)
      BY <1>1, <2>1, <2>2, <2>3, <2>5, ComeAndWait DEF CallBarrier
    <2>6. QED
      BY <2>4, <2>5
  <1>2. CASE CallSingle(t)
    <2>1. /\ t \in team /\ pc[t] = "out" /\ left[t] < Rounds
          /\ left[t] + 1 \in Single /\ left[t] \in Nat
      BY <1>2 DEF CallSingle, Call, TypeOK
    <2>2. UNCHANGED <<init_count, team, left, runs, teams>>
      BY <1>2 DEF CallSingle
    <2>3. /\ t \notin Arrived /\ ~Released(t) /\ Passed(t) = left[t]
          /\ hit_count = init_count => Arrived = {}
          /\ hit_count = 0 => Served /\ Arrived = team \ {t}
          /\ hit_count \in Nat
      BY <2>1, ReadHitCount DEF TypeOK, Released
    <2>4. CASE IsFirst
      <3>1. /\ hit_count' = hit_count - 1 /\ pc' = [pc EXCEPT ![t] = "func"]
            /\ flag' = flag /\ f' = f
        BY <1>2, <2>4 DEF CallSingle, Goto
      <3>2. Arrived = {} /\ hit_count > 0
        BY <2>3, <2>4, ArrivedCount DEF IsFirst, TeamOnly
      <3>3. TypeOK'
        BY <3>1, <3>2, <2>2 DEF TypeOK
      <3>4. /\ \A u \in Thread : (Released(u)' <=> Released(u))
            /\ \A u \in Thread : Passed(u)' = Passed(u)
        BY <2>2, <2>3, <3>1 DEF Released, Passed, TypeOK
      <3>5. Arrived' = {t}
        BY <2>1, <2>2, <2>3, <3>1, <3>2, <3>4 DEF Arrived, TypeOK
      <3>6. \A u \in team : Passed(u) = left[t]
        BY <2>1, <2>3 DEF SameMeeting
      <3>7. runs[left[t] + 1] = 0 /\ FuncPending
        BY <2>1, <2>3, <3>2 DEF RunOnce, FuncPending
      <3>8. HitCount'
        <4>1. ~Served' /\ ~Served
          BY <2>2, <3>2, <3>5, <3>7 DEF Served
        <4>2. Cardinality(Arrived) = 0 /\ Cardinality(Arrived') = 1
          BY <3>2, <3>5, FS_EmptySet, FS_Singleton
        <4>3. QED
          BY <2>2, <3>1, <4>1, <4>2 DEF HitCount, TypeOK
      <3>9. RunOnce'
        <4>1. FuncPending'
          BY <2>1, <3>1 DEF FuncPending, TypeOK
        <4>2. QED
          BY <2>2, <3>4, <3>7, <4>1 DEF RunOnce, TypeOK
      <3>10. TeamOnly' /\ SameMeeting'
        BY <2>1, <2>2, <3>1, <3>4 DEF TeamOnly, SameMeeting, TypeOK
      <3>11. OneFunc'
        <4>1. \A u \in Thread : pc[u] # "func"
          BY <3>2 DEF Arrived, TeamOnly, Released
        <4>2. QED
          BY <2>1, <2>2, <3>1, <4>1 DEF OneFunc, TypeOK
      <3>12. NoLostWakeup'
        BY <2>1, <2>2, <2>3, <3>1, <3>4 DEF NoLostWakeup, TypeOK
      <3>13. QED
        BY <3>3, <3>8, <3>9, <3>10, <3>11, <3>12
    <2>5. CASE ~IsFirst /\ AllHitSingle(hit_count - 1)
      <3>1. NotifyAll(t) /\ hit_count = 0
        BY <1>2, <2>3, <2>5 DEF CallSingle, WaitOrNotify, AllHitSingle
      <3>2. Served /\ Arrived = team \ {t}
        BY <2>3, <3>1
      <3>3. ~FuncPending /\ \A u \in Thread \ {t} : pc[u] # "func"
        <4>1. PICK u \in Arrived : left[u] + 1 \in Single /\ runs[left[u] + 1] > 0
          BY <3>2 DEF Served
        <4>2. u \in team /\ Passed(u) = left[u]
          BY <4>1 DEF Arrived, Passed
        <4>3. ~FuncPending
          BY <4>1, <4>2 DEF RunOnce
        <4>4. QED
          BY <4>3 DEF FuncPending
      <3>4. \A r \in Single : /\ r <= left[t] + 1 => runs[r] = 1
                              /\ r > left[t] + 1 => runs[r] = 0
        <4> SUFFICES ASSUME NEW r \in Single
                     PROVE  /\ r <= left[t] + 1 => runs[r] = 1
                            /\ r > left[t] + 1 => runs[r] = 0
          OBVIOUS
        <4>1. r \in Nat
          BY RoundAssumption DEF RoundAssumption
        <4>2. QED
          BY <2>1, <2>3, <3>3, <4>1 DEF RunOnce
      <3>5. QED
        BY <2>1, <2>2, <2>3, <3>1, <3>2, <3>3, <3>4, CompleteMeeting DEF TypeOK
    <2>6. CASE ~IsFirst /\ ~AllHitSingle(hit_count - 1)
      <3>1. Wait(t, hit_count - 1) /\ hit_count > 0
        BY <1>2, <2>3, <2>6 DEF CallSingle, WaitOrNotify, AllHitSingle
      <3>2. Arrived # {}
        <4>1. SUFFICES ASSUME Arrived = {}
                       PROVE  FALSE
          OBVIOUS
        <4>2. ~Served /\ Cardinality(Arrived) = 0
          BY <4>1, FS_EmptySet DEF Served
        <4>3. QED
          BY <2>6, <4>2 DEF HitCount, IsFirst, TypeOK
      <3>3. QED
        BY <2>1, <2>2, <3>1, <3>2, ComeAndWait
    <2>7. QED
      BY <2>4, <2>5, <2>6
  <1>3. CASE FinishFunc(t)
    <2>1. /\ pc[t] = "func" /\ t \in Arrived /\ t \in team /\ Passed(t) = left[t]
          /\ left[t] < Rounds /\ left[t] \in Nat /\ left[t] + 1 \in Single
          /\ ~Released(t)
      BY <1>3 DEF FinishFunc, Arrived, TeamOnly, Released, Passed, OneFunc, TypeOK
    <2>2. \A u \in team : Passed(u) = left[t]
      BY <2>1 DEF SameMeeting
    <2>3. FuncPending /\ runs[left[t] + 1] = 0
      BY <2>1 DEF FuncPending, RunOnce
    <2>4. ~Served
      BY <2>2, <2>3 DEF Served, Arrived, Passed
    <2>5. /\ hit_count = Cardinality(team) - Cardinality(Arrived)
          /\ hit_count \in Nat
      BY <2>4, ArrivedCount DEF HitCount, TeamOnly, TypeOK
    <2>6. /\ UNCHANGED <<init_count, team, left, teams>>
          /\ runs' = [runs EXCEPT ![left[t] + 1] = @ + 1]
          /\ WaitOrNotify(t)
      BY <1>3 DEF FinishFunc
    <2>7. /\ runs' \in [1 .. Rounds -> Nat] /\ runs'[left[t] + 1] = 1
          /\ \A r \in Single \ {left[t] + 1} : runs'[r] = runs[r]
      BY <2>1, <2>3, <2>6, RoundAssumption DEF TypeOK, RoundAssumption
    <2>8. \A u \in Thread \ {t} : pc[u] # "func"
      BY <2>1 DEF OneFunc
    <2>9. \A r \in Single : /\ r <= left[t] + 1 => runs'[r] = 1
                            /\ r > left[t] + 1 => runs'[r] = 0
      <3> SUFFICES ASSUME NEW r \in Single
                   PROVE  /\ r <= left[t] + 1 => runs'[r] = 1
                          /\ r > left[t] + 1 => runs'[r] = 0
        OBVIOUS
      <3>1. r \in Nat
        BY RoundAssumption DEF RoundAssumption
      <3>2. QED
        BY <2>1, <2>7, <3>1 DEF RunOnce
    <2>10. CASE AllHitSingle(hit_count - 1)
      <3>1. NotifyAll(t) /\ Cardinality(Arrived) = Cardinality(team)
        BY <2>5, <2>6, <2>10, ArrivedCount DEF WaitOrNotify, AllHitSingle
      <3>2. Arrived = team
        BY <3>1, ArrivedCount
      <3>3. QED
        BY <2>1, <2>6, <2>7, <2>8, <2>9, <3>1, <3>2, CompleteMeeting
    <2>11. CASE ~AllHitSingle(hit_count - 1)
      <3>1. /\ hit_count' = hit_count - 1 /\ hit_count > 0
            /\ pc' = [pc EXCEPT ![t] = "wait"]
            /\ f' = [f EXCEPT ![t] = flag] /\ flag' = flag
        BY <2>5, <2>6, <2>11 DEF WaitOrNotify, AllHitSingle, Wait, Goto
      <3>2. TypeOK'
        BY <2>6, <2>7, <3>1 DEF TypeOK
      <3>3. /\ \A u \in Thread : (Released(u)' <=> Released(u))
            /\ \A u \in Thread : Passed(u)' = Passed(u)
        BY <2>1, <2>6, <3>1 DEF Released, Passed, TypeOK
      <3>4. Arrived' = Arrived
        BY <2>1, <2>6, <3>1, <3>3 DEF Arrived, TypeOK
      <3>5. Served'
        BY <2>1, <2>6, <2>7, <3>4 DEF Served
      <3>6. HitCount'
        BY <2>4, <2>5, <2>6, <3>1, <3>4, <3>5, ArrivedCount DEF HitCount, TeamOnly
      <3>7. ~FuncPending'
        BY <2>1, <2>8, <3>1, <3>4 DEF FuncPending, TypeOK
      <3>8. RunOnce'
        <4> SUFFICES ASSUME NEW u \in team, NEW r \in Single
                     PROVE  /\ r <= Passed(u)' => runs'[r] = 1
                            /\ r = Passed(u)' + 1 => runs'[r] = (IF FuncPending' THEN 0 ELSE 1)
                            /\ r > Passed(u)' + 1 => runs'[r] = 0
          BY <2>6 DEF RunOnce
        <4>1. Passed(u)' = left[t] /\ r \in Nat
          BY <2>2, <3>3, RoundAssumption DEF TypeOK, RoundAssumption
        <4>2. QED
          BY <2>1, <2>9, <3>7, <4>1
      <3>9. TeamOnly' /\ SameMeeting'
        BY <2>1, <2>6, <3>1, <3>3 DEF TeamOnly, SameMeeting, TypeOK
      <3>10. OneFunc'
        BY <2>1, <2>6, <2>8, <3>1 DEF OneFunc, TypeOK
      <3>11. NoLostWakeup'
        BY <2>1, <2>6, <3>1, <3>3 DEF NoLostWakeup, TypeOK
      <3>12. QED
        BY <3>2, <3>6, <3>8, <3>9, <3>10, <3>11
    <2>12. QED
      BY <2>10, <2>11
  <1>4. CASE Notify(t)
    <2>1. t \in team /\ Released(t)
      BY <1>4 DEF Notify, Released, TeamOnly
    <2>2. /\ pc' \in [Thread -> PC] /\ pc'[t] = "out"
          /\ \A u \in Thread \ {t} :
                /\ \/ pc'[u] = pc[u]
                   \/ pc[u] = "wait" /\ pc'[u] = "woken"
                /\ pc'[u] # "wait"
      BY <1>4 DEF Notify, WakeAll, TypeOK
    <2>3. QED
      BY <1>4, <2>1, <2>2, GetOut DEF Notify
  <1>5. CASE Recheck(t)
    <2>1. CASE FlagFlipped(t)
      <3>1. t \in team /\ Released(t) /\ Goto(t, "out")
        BY <1>5, <2>1 DEF Recheck, FlagFlipped, Released, TeamOnly
      <3>2. /\ pc' \in [Thread -> PC] /\ pc'[t] = "out"
            /\ \A u \in Thread \ {t} : pc'[u] = pc[u]
        BY <3>1 DEF Goto, TypeOK
      <3>3. ASSUME NEW u \in Thread \ {t}, pc'[u] = "wait", Released(u)
            PROVE  \E v \in team : pc'[v] = "notify"
        BY <1>5, <3>2, <3>3 DEF NoLostWakeup, Recheck, TypeOK
      <3>4. QED
        BY <1>5, <2>1, <3>1, <3>2, <3>3, GetOut DEF Recheck
    <2>2. CASE ~FlagFlipped(t)
      BY <1>5, <2>2, SleepOrWake DEF Recheck, FlagFlipped
    <2>3. QED
      BY <2>1, <2>2
  <1>6. CASE SpuriousWakeup(t)
    BY <1>6, SleepOrWake DEF SpuriousWakeup
  <1>7. QED
    BY <1>1, <1>2, <1>3, <1>4, <1>5, <1>6 DEF Step

(* So does a change of the team between rounds.                            *)
LEMMA NextIInv ==
    ASSUME IInv, [Next]_vars
    PROVE  IInv'
  <1>1. CASE \E t \in Thread : Step(t) \/ SpuriousWakeup(t)
    BY <1>1, StepIInv
  <1>2. ASSUME NEW new \in (SUBSET Thread) \ {{}}, SetNumThreads(new)
        PROVE  IInv'
    <2>1. /\ team' = new /\ init_count' = Cardinality(new) /\ hit_count' = Cardinality(new)
          /\ left' = [t \in Thread |-> 0] /\ runs' = [r \in 1 .. Rounds |-> 0]
          /\ UNCHANGED <<flag, pc, f>> /\ teams' = teams + 1
          /\ \A t \in Thread : pc[t] = "out"
      BY <1>2 DEF SetNumThreads, SetCounts
    <2>2. Cardinality(new) \in Nat
      BY ThreadAssumption, FS_Subset, FS_CardinalityType DEF ThreadAssumption
    <2>3. left' \in [Thread -> 0 .. Rounds]
      BY <2>1, RoundAssumption DEF RoundAssumption
    <2>4. TypeOK'
      <3>1. /\ init_count' \in Nat /\ hit_count' \in 0 .. init_count'
            /\ team' \in (SUBSET Thread) \ {{}}
        BY <2>1, <2>2
      <3>2. runs' \in [1 .. Rounds -> Nat]
        BY <2>1
      <3>3. teams' \in Nat
        BY <2>1 DEF IInv, TypeOK
      <3>4. QED
        BY <2>1, <2>3, <3>1, <3>2, <3>3 DEF IInv, TypeOK
    <2>5. Arrived' = {} /\ \A t \in Thread : Passed(t)' = 0
      BY <2>1 DEF Arrived, Passed, Released
    <2>6. HitCount'
      BY <2>1, <2>2, <2>5, FS_EmptySet DEF HitCount, Served
    <2>7. RunOnce'
      BY <2>1, <2>5, RoundAssumption DEF RunOnce, FuncPending, RoundAssumption
    <2>8. TeamOnly' /\ SameMeeting' /\ OneFunc' /\ NoLostWakeup'
      BY <2>1, <2>5 DEF TeamOnly, SameMeeting, OneFunc, NoLostWakeup
    <2>9. QED
      BY <2>4, <2>6, <2>7, <2>8 DEF IInv
  <1>3. CASE UNCHANGED vars
    BY <1>3 DEF vars, IInv, TypeOK, TeamOnly, SameMeeting, Passed, OneFunc, RunOnce,
                FuncPending, HitCount, Served, NoLostWakeup, Arrived, Released
  <1>4. QED
    BY <1>1, <1>2, <1>3 DEF Next, Terminated

(* The invariant holds throughout.                                         *)
LEMMA Invariance == Spec => []IInv
  BY InitIInv, NextIInv, PTL DEF Spec

-----------------------------------------------------------------------------
(* Type correctness: hit_count_ stays between 0 and init_count_, also for  *)
(* the thread that hits twice in single().                                 *)
THEOREM TypeCorrect == Spec => []TypeOK
  <1>1. IInv => TypeOK
    BY DEF IInv
  <1>2. QED
    BY <1>1, Invariance, PTL

(* At every step hit_count_ is what is missing of the current meeting,     *)
(* whoever is still on the way out of the one before.                      *)
THEOREM HitCountRight == Spec => []HitCount
  <1>1. IInv => HitCount
    BY DEF IInv
  <1>2. QED
    BY <1>1, Invariance, PTL

(* No thread is ever two meetings ahead of another one of the team, so the *)
(* one bit of flag_ tells a sleeping thread all it needs.                  *)
THEOREM NoThreadLaps == Spec => []NoLapping
  <1>1. IInv => NoLapping
    BY DEF IInv, NoLapping, SameMeeting, Passed, TypeOK
  <1>2. QED
    BY <1>1, Invariance, PTL

(* Although notify_all() comes after the unlock, and wake-ups may be       *)
(* spurious, a thread that sleeps on a flipped flag has its notification   *)
(* to come.                                                                *)
THEOREM WakeupComes == Spec => []NoLostWakeup
  <1>1. IInv => NoLostWakeup
    BY DEF IInv
  <1>2. QED
    BY <1>1, Invariance, PTL

-----------------------------------------------------------------------------
(* Refinement: inside is the set of threads in barrier() or single().      *)
Inside == {t \in Thread : pc[t] # "out"}

(* The start of Barrier is the start of Rendezvous.                        *)
LEMMA InitMeetings == Init => Meetings!Init
  BY DEF Init, Meetings!Init

(* A call brings the thread inside, and nothing else.                      *)
LEMMA CallIsCome ==
    ASSUME IInv, NEW t \in Thread, CallBarrier(t) \/ CallSingle(t)
    PROVE  Meetings!Come(t)
  <1>1. /\ t \in team /\ pc[t] = "out" /\ left[t] < Rounds
        /\ UNCHANGED <<team, left, runs>>
    BY DEF CallBarrier, CallSingle, Call
  <1>2. \E l \in {"notify", "wait", "func"} : pc' = [pc EXCEPT ![t] = l]
    BY DEF CallBarrier, CallSingle, WaitOrNotify, NotifyAll, Wait, Goto
  <1>3. Inside' = Inside \cup {t}
    BY <1>2 DEF Inside, IInv, TypeOK
  <1>4. QED
    BY <1>1, <1>3 DEF Inside, Meetings!Come, Meetings!Same

(* func has not run before in this meeting.                                *)
LEMMA FinishIsRun ==
    ASSUME IInv, NEW t \in Thread, FinishFunc(t)
    PROVE  Meetings!Run(t)
  <1>1. /\ pc[t] = "func" /\ UNCHANGED <<team, left>>
        /\ runs' = [runs EXCEPT ![left[t] + 1] = @ + 1]
    BY DEF FinishFunc
  <1>2. \E l \in {"notify", "wait"} : pc' = [pc EXCEPT ![t] = l]
    BY DEF FinishFunc, WaitOrNotify, NotifyAll, Wait, Goto
  <1>3. Inside' = Inside
    BY <1>1, <1>2 DEF Inside, IInv, TypeOK
  <1>4. t \in team /\ Passed(t) = left[t] /\ left[t] + 1 \in Single
    BY <1>1 DEF IInv, TeamOnly, OneFunc, Passed, Released
  <1>5. runs[left[t] + 1] = 0
    BY <1>1, <1>4 DEF IInv, RunOnce, FuncPending
  <1>6. QED
    BY <1>1, <1>3, <1>4, <1>5 DEF Inside, Meetings!Run, Meetings!Meeting

(* A released thread leaves a meeting to which the whole team has come.    *)
LEMMA GetOutIsLeave ==
    ASSUME IInv, NEW t \in Thread, Released(t),
           left' = [left EXCEPT ![t] = @ + 1],
           Inside' = Inside \ {t},
           UNCHANGED <<team, runs>>
    PROVE  Meetings!Leave(t)
  <1>1. t \in team /\ t \in Inside /\ left[t] \in Nat /\ Passed(t) = left[t] + 1
    BY DEF IInv, TeamOnly, TypeOK, Released, Inside, Passed
  <1>2. ASSUME NEW u \in team
        PROVE  left[u] > left[t] \/ (left[u] = left[t] /\ u \in Inside)
    <2>1. Passed(u) = left[t] + 1
      BY <1>1 DEF IInv, SameMeeting
    <2>2. QED
      BY <1>1, <2>1 DEF Passed, Released, Inside, IInv, TypeOK
  <1>3. left[t] + 1 \in Single => runs[left[t] + 1] = 1
    BY <1>1 DEF IInv, RunOnce
  <1>4. QED
    BY <1>1, <1>2, <1>3 DEF Inside, Meetings!Leave, Meetings!HasCome, Meetings!Meeting,
                            Meetings!Same

(* Each step of Barrier is a step of Rendezvous or changes nothing of it.  *)
LEMMA NextMeetings ==
    ASSUME IInv, [Next]_vars
    PROVE  [Meetings!Next]_Meetings!vars
  <1>1. ASSUME NEW t \in Thread, CallBarrier(t) \/ CallSingle(t)
        PROVE  Meetings!Next
    BY <1>1, CallIsCome DEF Meetings!Next
  <1>2. ASSUME NEW t \in Thread, FinishFunc(t)
        PROVE  Meetings!Next
    BY <1>2, FinishIsRun DEF Meetings!Next
  <1>3. ASSUME NEW t \in Thread, Notify(t)
        PROVE  Meetings!Next
    <2>1. Released(t) /\ Inside' = Inside \ {t}
      BY <1>3 DEF Notify, WakeAll, Released, Inside
    <2>2. QED
      BY <1>3, <2>1, GetOutIsLeave DEF Notify, Meetings!Next
  <1>4. ASSUME NEW t \in Thread, Recheck(t), FlagFlipped(t)
        PROVE  Meetings!Next
    <2>1. Released(t) /\ Inside' = Inside \ {t}
      BY <1>4 DEF Recheck, FlagFlipped, Goto, Released, Inside, IInv, TypeOK
    <2>2. QED
      BY <1>4, <2>1, GetOutIsLeave DEF Recheck, Meetings!Next
  <1>5. ASSUME NEW t \in Thread, SpuriousWakeup(t) \/ (Recheck(t) /\ ~FlagFlipped(t))
        PROVE  UNCHANGED Meetings!vars
    <2>1. Inside' = Inside
      BY <1>5 DEF SpuriousWakeup, Recheck, Goto, Inside, IInv, TypeOK
    <2>2. QED
      BY <1>5, <2>1 DEF SpuriousWakeup, Recheck, Inside, Meetings!vars
  <1>6. ASSUME NEW new \in (SUBSET Thread) \ {{}}, SetNumThreads(new)
        PROVE  Meetings!Next
    <2>1. Inside = {} /\ Inside' = Inside
      BY <1>6 DEF SetNumThreads, Inside
    <2>2. QED
      BY <1>6, <2>1 DEF SetNumThreads, Inside, Meetings!Next, Meetings!ChangeTeam
  <1>7. CASE UNCHANGED vars
    BY <1>7 DEF vars, Meetings!vars
  <1>8. QED
    BY <1>1, <1>2, <1>3, <1>4, <1>5, <1>6, <1>7 DEF Next, Step, Terminated

(* The barrier implements Rendezvous: nobody leaves barrier() or single()  *)
(* before the whole team has come and, in single(), one thread has run the *)
(* function, exactly once.                                                 *)
THEOREM BarrierImplementsMeetings == Spec => ImplementsMeetings
  BY InitMeetings, NextMeetings, Invariance, PTL DEF Spec, ImplementsMeetings, Meetings!Spec
=============================================================================
