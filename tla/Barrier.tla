------------------------------ MODULE Barrier ------------------------------
(***************************************************************************)
(* Barrier of synchronization.hpp, with its mutex and condition variable.  *)
(*                                                                         *)
(* A section under mutex_ is one action.  cv_.wait(lk, pred) tests pred    *)
(* under the lock, sleeps, and tests again under the lock when it is woken *)
(* by notify_all or spuriously; cv_.notify_all() runs after the unlock, so *)
(* it is a step of its own and may come late.  single()'s function runs    *)
(* between two locked sections.                                            *)
(*                                                                         *)
(* A team of threads makes the same calls in the same order (partition()   *)
(* does); the owner of the thread pool changes the team between two jobs   *)
(* with setNumThreads.                                                     *)
(***************************************************************************)
EXTENDS Integers, FiniteSets

CONSTANTS
    Thread,     \* threads that may use the barrier
    Rounds,     \* bound: calls a team makes before setNumThreads
    Single,     \* the calls that are single(func); the others are barrier()
    MaxTeams    \* bound: teams one after the other

ASSUME ThreadAssumption == IsFiniteSet(Thread)

ASSUME RoundAssumption == Rounds \in Nat /\ Single \subseteq 1 .. Rounds

ASSUME BoundAssumption == MaxTeams \in Nat

VARIABLES
    init_count,
    hit_count,
    flag,
    pc,         \* pc[t]: where t is in barrier() or single()
    f,          \* f[t]: the value of flag_ captured by t's wait
    team,       \* history: the threads meant by setNumThreads
    left,       \* history: left[t] counts the calls t has returned from
    runs,       \* history: runs[r] counts the executions of func in call r
    teams       \* history: number of teams so far

vars == <<init_count, hit_count, flag, pc, f, team, left, runs, teams>>

PC == {"out", "func", "wait", "woken", "notify"}

\* setNumThreads, and the constructor.
SetCounts(n) == init_count' = n /\ hit_count' = n

Init ==
    /\ team \in (SUBSET Thread) \ {{}}
    /\ init_count = Cardinality(team)
    /\ hit_count = Cardinality(team)
    /\ flag = FALSE
    /\ pc = [t \in Thread |-> "out"]
    /\ f = [t \in Thread |-> FALSE]
    /\ left = [t \in Thread |-> 0]
    /\ runs = [r \in 1 .. Rounds |-> 0]
    /\ teams = 1

Goto(t, l) == pc' = [pc EXCEPT ![t] = l]

-----------------------------------------------------------------------------
(* The three ways out of a locked section.                                 *)

\* notify_all(lk), up to its unlock.
V_KeepCount == hit_count' = 0 /\ flag' = ~flag
V_KeepFlag  == hit_count' = init_count /\ flag' = flag
Rearm       == hit_count' = init_count /\ flag' = ~flag

NotifyAll(t) ==
    /\ Rearm
    /\ Goto(t, "notify")
    /\ UNCHANGED f

\* cv_.wait: f = flag_ is captured, so the predicate is false at once.
Wait(t, hits) ==
    /\ hit_count' = hits
    /\ f' = [f EXCEPT ![t] = flag]
    /\ Goto(t, "wait")
    /\ UNCHANGED flag

Call(t, r) ==
    /\ t \in team
    /\ pc[t] = "out"
    /\ left[t] < Rounds
    /\ left[t] + 1 = r

AllHit(hits) == hits = 0

CallBarrier(t) ==
    /\ \E r \in (1 .. Rounds) \ Single : Call(t, r)
    /\ IF AllHit(hit_count - 1)
         THEN NotifyAll(t)
         ELSE Wait(t, hit_count - 1)
    /\ UNCHANGED <<init_count, team, left, runs, teams>>

\* In single(), the thread that runs func hits twice: the last one sees -1.
V_FuncHitsOnce(hits) == hits <= 0
AllHitSingle(hits) == hits < 0

V_AnyRuns == TRUE
IsFirst == hit_count = init_count

WaitOrNotify(t) ==
    IF AllHitSingle(hit_count - 1)
      THEN NotifyAll(t)
      ELSE Wait(t, hit_count - 1)

CallSingle(t) ==
    /\ \E r \in Single : Call(t, r)
    /\ IF IsFirst
         THEN /\ hit_count' = hit_count - 1
              /\ Goto(t, "func")
              /\ UNCHANGED <<flag, f>>
         ELSE WaitOrNotify(t)
    /\ UNCHANGED <<init_count, team, left, runs, teams>>

\* func() has run without the lock; the thread locks again and hits again.
FinishFunc(t) ==
    /\ pc[t] = "func"
    /\ runs' = [runs EXCEPT ![left[t] + 1] = @ + 1]
    /\ WaitOrNotify(t)
    /\ UNCHANGED <<init_count, team, left, teams>>

-----------------------------------------------------------------------------
\* cv_.notify_all() and the return from barrier() or single().
V_NotifyOne(t) ==
    \/ /\ \A u \in Thread : pc[u] # "wait"
       /\ Goto(t, "out")
    \/ \E u \in Thread :
          /\ pc[u] = "wait"
          /\ pc' = [pc EXCEPT ![t] = "out", ![u] = "woken"]
WakeAll(t) ==
    pc' = [u \in Thread |-> IF u = t THEN "out"
                            ELSE IF pc[u] = "wait" THEN "woken" ELSE pc[u]]

Notify(t) ==
    /\ pc[t] = "notify"
    /\ WakeAll(t)
    /\ left' = [left EXCEPT ![t] = @ + 1]
    /\ UNCHANGED <<init_count, hit_count, flag, f, team, runs, teams>>

SpuriousWakeup(t) ==
    /\ pc[t] = "wait"
    /\ Goto(t, "woken")
    /\ UNCHANGED <<init_count, hit_count, flag, f, team, left, runs, teams>>

\* The predicate of cv_.wait, under the lock again.
V_NoPredicate(t) == TRUE
FlagFlipped(t) == f[t] # flag

Recheck(t) ==
    /\ pc[t] = "woken"
    /\ IF FlagFlipped(t)
         THEN Goto(t, "out") /\ left' = [left EXCEPT ![t] = @ + 1]
         ELSE Goto(t, "wait") /\ UNCHANGED left
    /\ UNCHANGED <<init_count, hit_count, flag, f, team, runs, teams>>

\* run() of the next job: the last one has returned, on every thread.
SetNumThreads(new) ==
    /\ \A t \in Thread : pc[t] = "out"
    /\ \A t \in team : left[t] = Rounds
    /\ teams < MaxTeams
    /\ teams' = teams + 1
    /\ team' = new
    /\ SetCounts(Cardinality(new))
    /\ left' = [t \in Thread |-> 0]
    /\ runs' = [r \in 1 .. Rounds |-> 0]
    /\ UNCHANGED <<flag, pc, f>>

Terminated ==
    /\ \A t \in Thread : pc[t] = "out"
    /\ \A t \in team : left[t] = Rounds
    /\ teams = MaxTeams
    /\ UNCHANGED vars

Step(t) ==
    \/ CallBarrier(t) \/ CallSingle(t) \/ FinishFunc(t)
    \/ Notify(t)      \/ Recheck(t)

Next ==
    \/ \E t \in Thread : Step(t) \/ SpuriousWakeup(t)
    \/ \E new \in (SUBSET Thread) \ {{}} : SetNumThreads(new)
    \/ Terminated

Spec == Init /\ [][Next]_vars

(* Every thread keeps running, makes all the calls of its team's job, and  *)
(* func terminates.  A sleeping thread relies on being woken.              *)
FairSpec == Spec /\ \A t \in Thread : WF_vars(Step(t))

-----------------------------------------------------------------------------
TypeOK ==
    /\ init_count \in Nat
    /\ hit_count \in 0 .. init_count
    /\ flag \in BOOLEAN
    /\ pc \in [Thread -> PC]
    /\ f \in [Thread -> BOOLEAN]
    /\ team \in (SUBSET Thread) \ {{}}
    /\ left \in [Thread -> 0 .. Rounds]
    /\ runs \in [1 .. Rounds -> Nat]
    /\ teams \in Nat

(* The meeting a thread is at has been released: it has only to get out.   *)
Released(t) == pc[t] = "notify" \/ (pc[t] \in {"wait", "woken"} /\ f[t] # flag)

(* The threads that have hit the barrier since it was last rearmed.        *)
Arrived == {t \in team : pc[t] # "out" /\ ~Released(t)}

(* The function of the single() that is being met for has run.             *)
Served ==
    \E t \in Arrived : left[t] + 1 \in Single /\ runs[left[t] + 1] > 0

(* hit_count_ is what is missing of the current meeting, and one less once *)
(* single()'s function has run; late leavers of the meeting before do not  *)
(* count in it.  So the count is whole when setNumThreads overwrites it,   *)
(* although setNumThreads takes no lock.                                   *)
HitCount ==
    hit_count = init_count - Cardinality(Arrived) - (IF Served THEN 1 ELSE 0)

(* The one-bit flag cannot be mistaken for that of an earlier meeting: a   *)
(* thread that sleeps with a flipped flag is one meeting behind, never     *)
(* two, because the next meeting needs it.                                 *)
NoLapping ==
    \A t, u \in team : left[t] <= left[u] + 1

(* No thread sleeps through its release: whoever sleeps with the flag      *)
(* flipped will still be notified by the thread that flipped it.           *)
NoLostWakeup ==
    \A t \in Thread : pc[t] = "wait" /\ Released(t) =>
        \E u \in team : pc[u] = "notify"

(* The barrier implements the meetings of a team.                          *)
Meetings == INSTANCE Rendezvous WITH
    inside <- {t \in Thread : pc[t] # "out"}
ImplementsMeetings == Meetings!Spec

(* Whoever calls barrier() or single() returns from it.                    *)
EveryCallReturns == \A t \in Thread : pc[t] # "out" ~> pc[t] = "out"
=============================================================================
