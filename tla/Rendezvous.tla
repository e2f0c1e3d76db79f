----------------------------- MODULE Rendezvous -----------------------------
(***************************************************************************)
(* What Barrier (synchronization.hpp) promises: a team of threads meets    *)
(* again and again.  Nobody leaves a meeting before the whole team has     *)
(* come, and a function handed to single() has been run, by one thread,    *)
(* exactly once, before anybody leaves.  Counting, flags, locks and        *)
(* wake-ups belong to the implementation.                                  *)
(***************************************************************************)
EXTENDS Naturals

CONSTANTS
    Thread,     \* threads that may use the barrier
    Rounds,     \* bound: meetings of one team
    Single      \* the rounds that are single(func) calls

VARIABLES
    team,       \* the threads the barrier is set for
    left,       \* left[t]: meetings t has left
    inside,     \* threads that have come to a meeting and not left it
    runs        \* runs[r]: executions of func finished in meeting r

vars == <<team, left, inside, runs>>

Init ==
    /\ team \in (SUBSET Thread) \ {{}}
    /\ left = [t \in Thread |-> 0]
    /\ inside = {}
    /\ runs = [r \in 1 .. Rounds |-> 0]

\* Not UNCHANGED: a module with a fixed team substitutes constants here.
Same == team' = team /\ runs' = runs

Come(t) ==
    /\ t \in team \ inside
    /\ left[t] < Rounds
    /\ inside' = inside \cup {t}
    /\ left' = left
    /\ Same

\* The meeting t is at, or will come to next.
Meeting(t) == left[t] + 1

Run(t) ==
    /\ t \in inside
    /\ Meeting(t) \in Single
    /\ runs[Meeting(t)] = 0
    /\ runs' = [runs EXCEPT ![Meeting(t)] = 1]
    /\ UNCHANGED <<team, left, inside>>

\* u is at t's meeting, or has already left it.
HasCome(u, t) == left[u] > left[t] \/ (left[u] = left[t] /\ u \in inside)

Leave(t) ==
    /\ t \in inside
    /\ \A u \in team : HasCome(u, t)
    /\ Meeting(t) \in Single => runs[Meeting(t)] = 1
    /\ left' = [left EXCEPT ![t] = @ + 1]
    /\ inside' = inside \ {t}
    /\ Same

\* setNumThreads: "No thread must currently be waiting at this barrier."
ChangeTeam ==
    /\ inside = {}
    /\ \A t \in team : left[t] = Rounds
    /\ team' \in (SUBSET Thread) \ {{}}
    /\ left' = [t \in Thread |-> 0]
    /\ runs' = [r \in 1 .. Rounds |-> 0]
    /\ UNCHANGED inside

Next ==
    \/ \E t \in Thread : Come(t) \/ Run(t) \/ Leave(t)
    \/ ChangeTeam

Spec == Init /\ [][Next]_vars
=============================================================================
