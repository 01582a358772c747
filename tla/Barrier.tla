------------------------------ MODULE Barrier ------------------------------
(***************************************************************************)
(* harc_rt::Barrier (runtime/harc_thread_rt.h): the spinning barrier that  *)
(* the emitted `--mt` drive loop uses twice per clock cycle.  A call of    *)
(* wait() is four atomic accesses, each of them an action here:            *)
(*                                                                         *)
(*   Load     gen = generation.load()                                      *)
(*   Arrive   count.fetch_add(1) + 1 == target ?                           *)
(*   Reset    count.store(0)                  (the last arrival only)      *)
(*   Release  generation.fetch_add(1)         (the last arrival only)      *)
(*   Leave    generation.load() != gen        (everybody else, spinning)   *)
(*                                                                         *)
(* generation is a uint32_t; it is modelled modulo GenMod, so the wrap     *)
(* around happens in every model that makes more than GenMod rounds.       *)
(* arrived and left count the calls of wait() a thread has joined and      *)
(* returned from; they are history variables, the code has no such field.  *)
(***************************************************************************)
EXTENDS Integers, FiniteSets

CONSTANTS
    Threads,    \* the participants; target = Cardinality(Threads)
    GenMod,     \* generation counts modulo this (2^32 in the code)
    MaxRounds   \* bound: calls of wait() a thread makes

ASSUME ThreadsAssumption == IsFiniteSet(Threads) /\ Threads # {}
ASSUME GenModAssumption == GenMod \in Nat /\ GenMod > 1
ASSUME MaxRoundsAssumption == MaxRounds \in Nat

VARIABLES
    count,        \* Barrier::count
    generation,   \* Barrier::generation
    gen,          \* the local `gen` of each thread's call of wait()
    pc,           \* where each thread is in wait(); "out" when not in a call
    arrived,      \* history: calls of wait() whose fetch_add is done
    left          \* history: calls of wait() that returned

vars == <<count, generation, gen, pc, arrived, left>>

target == Cardinality(Threads)

Stages == {"out", "arrive", "reset", "release", "spin"}

TypeOK ==
    /\ count \in 0 .. target
    /\ generation \in 0 .. GenMod - 1
    /\ gen \in [Threads -> 0 .. GenMod - 1]
    /\ pc \in [Threads -> Stages]
    /\ arrived \in [Threads -> Nat]
    /\ left \in [Threads -> Nat]

Init ==
    /\ count = 0
    /\ generation = 0
    /\ gen = [t \in Threads |-> 0]
    /\ pc = [t \in Threads |-> "out"]
    /\ arrived = [t \in Threads |-> 0]
    /\ left = [t \in Threads |-> 0]

-----------------------------------------------------------------------------

\* Mutant of Load: the local copy of generation is not re-read on entry.
LoadOnce(t) ==
    /\ pc[t] = "out"
    /\ left[t] < MaxRounds
    /\ pc' = [pc EXCEPT ![t] = "arrive"]
    /\ UNCHANGED <<count, generation, gen, arrived, left>>

Load(t) ==
    /\ pc[t] = "out"
    /\ left[t] < MaxRounds
    /\ gen' = [gen EXCEPT ![t] = generation]
    /\ pc' = [pc EXCEPT ![t] = "arrive"]
    /\ UNCHANGED <<count, generation, arrived, left>>

Arrive(t) ==
    /\ pc[t] = "arrive"
    /\ count' = count + 1
    /\ pc' = [pc EXCEPT ![t] = IF count + 1 = target THEN "reset" ELSE "spin"]
    /\ arrived' = [arrived EXCEPT ![t] = @ + 1]
    /\ UNCHANGED <<generation, gen, left>>

Reset(t) ==
    /\ pc[t] = "reset"
    /\ count' = 0
    /\ pc' = [pc EXCEPT ![t] = "release"]
    /\ UNCHANGED <<generation, gen, arrived, left>>

Release(t) ==
    /\ pc[t] = "release"
    /\ generation' = (generation + 1) % GenMod
    /\ pc' = [pc EXCEPT ![t] = "out"]
    /\ left' = [left EXCEPT ![t] = @ + 1]
    /\ UNCHANGED <<count, gen, arrived>>

Leave(t) ==
    /\ pc[t] = "spin"
    /\ generation # gen[t]
    /\ pc' = [pc EXCEPT ![t] = "out"]
    /\ left' = [left EXCEPT ![t] = @ + 1]
    /\ UNCHANGED <<count, generation, gen, arrived>>

Finished ==
    /\ \A t \in Threads : pc[t] = "out" /\ left[t] = MaxRounds
    /\ UNCHANGED vars

Step(t) == Load(t) \/ Arrive(t) \/ Reset(t) \/ Release(t) \/ Leave(t)

Next == Finished \/ \E t \in Threads : Step(t)

\* A spinning thread yields after 100000 iterations and is never blocked by
\* the scheduler of the operating system for ever: every thread keeps running.
Spec == Init /\ [][Next]_vars /\ \A t \in Threads : WF_vars(Step(t))
-----------------------------------------------------------------------------

\* Threads that have joined the round `generation` names and are held in it.
Held == {t \in Threads : \/ pc[t] \in {"reset", "release"}
                         \/ pc[t] = "spin" /\ gen[t] = generation}

\* Threads whose round is over but whose spin loop has not noticed yet.
Stale == {t \in Threads : pc[t] = "spin" /\ gen[t] # generation}

\* The rounds that are over, as thread t's own counters tell it.
RoundsOver(t) == left[t] + IF t \in Stale THEN 1 ELSE 0

\* No call of wait() returns before every participant has joined its round:
\* a thread that is through its k-th wait() finds k arrivals of each other
\* thread, whatever accesses of count and generation interleave, and across
\* the wrap-around of generation.
NoEarlyReturn == \A t, u \in Threads : left[t] <= arrived[u]

\* count never mixes two rounds: between the last arrival's fetch_add and its
\* generation.fetch_add nobody is outside, and otherwise count is the number
\* of threads held in the open round, so that the threads still leaving the
\* previous round (their spin has not re-read generation yet) are not counted.
CountIsHeld ==
    \/ \E t \in Threads :
          /\ pc[t] \in {"reset", "release"}
          /\ count = IF pc[t] = "reset" THEN target ELSE 0
          /\ \A u \in Threads \ {t} : pc[u] = "spin" /\ gen[u] = generation
    \/ /\ \A t \in Threads : pc[t] \notin {"reset", "release"}
       /\ count = Cardinality(Held)

\* The rest of the inductive invariant: a thread about to arrive still holds
\* the open round's generation, a call in progress is exactly one arrival
\* ahead of its returns, all threads agree on how many rounds are over, and a
\* round never stays full without a last arrival.
RoundsAgree ==
    /\ \A t \in Threads : pc[t] = "arrive" => gen[t] = generation
    /\ \A t \in Threads : pc[t] # "out" => left[t] < MaxRounds
    /\ \A t \in Threads :
          arrived[t] = left[t] + IF pc[t] \in {"out", "arrive"} THEN 0 ELSE 1
    /\ \A t, u \in Threads : RoundsOver(t) = RoundsOver(u)
    /\ (\A t \in Threads : pc[t] \notin {"reset", "release"}) => Held # Threads

IInv == TypeOK /\ CountIsHeld /\ RoundsAgree

\* Barrier implements the abstract barrier, with its liveness: the fetch_add is
\* the Join of a round, the return from wait() is its Return.
Abstract == INSTANCE AbstractBarrier

AbstractSpec == Abstract!Spec

AbstractSafe == Abstract!Safe
=============================================================================
