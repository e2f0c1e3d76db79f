----------------------------- MODULE MCBarrier -----------------------------
(* Teams of up to four threads; single(), single(), then barrier(), so     *)
(* that each kind of call follows each kind, across teams as well.         *)
EXTENDS Barrier

MCSingle == {1, 2}
=============================================================================
