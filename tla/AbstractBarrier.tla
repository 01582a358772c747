-------------------------- MODULE AbstractBarrier --------------------------
(***************************************************************************)
(* What harc_rt::Barrier promises: "all participants advance together".    *)
(* A call of wait() joins a round and returns only when every participant  *)
(* has joined that round.                                                  *)
(***************************************************************************)
EXTENDS Integers

CONSTANTS Threads, MaxRounds

VARIABLES
    arrived,   \* rounds a thread has joined
    left       \* rounds a thread has been let out of

vars == <<arrived, left>>

Init ==
    /\ arrived = [t \in Threads |-> 0]
    /\ left = [t \in Threads |-> 0]

Join(t) ==
    /\ arrived[t] = left[t]
    /\ left[t] < MaxRounds
    /\ arrived' = [arrived EXCEPT ![t] = @ + 1]
    /\ UNCHANGED left

Return(t) ==
    /\ left[t] < arrived[t]
    /\ \A u \in Threads : arrived[u] >= arrived[t]
    /\ left' = [left EXCEPT ![t] = @ + 1]
    /\ UNCHANGED arrived

Next == \E t \in Threads : Join(t) \/ Return(t)

\* Once everybody has joined, everybody is let out.
Fairness == \A t \in Threads : WF_vars(Join(t)) /\ WF_vars(Return(t))

Safe == Init /\ [][Next]_vars

Spec == Safe /\ Fairness
=============================================================================
