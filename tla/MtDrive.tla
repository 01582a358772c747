------------------------------ MODULE MtDrive ------------------------------
(***************************************************************************)
(* The drive loop that `--mt` emits, with the worker threads that tick the *)
(* actors' schedulers.  The main thread and the workers meet in a start    *)
(* and an end barrier once per primary clock cycle; both barriers are      *)
(* instances of AbstractBarrier, which Barrier is proved to implement.     *)
(*                                                                         *)
(* The TB-IR layouts have one worker for all actors, the native backend    *)
(* has one worker per actor.  A wait() is two steps, the arrival and the   *)
(* return, so "start" is before the start barrier and "started" in it.     *)
(***************************************************************************)
EXTENDS Integers

CONSTANTS
    Main,          \* the main thread
    Workers,       \* the actor worker threads
    Qualified,     \* TRUE: the test has a `wait N cycles on clk`
    MaxCycles      \* bound: primary clock cycles until the run completes

ASSUME ThreadsAssumption == Main \notin Workers
ASSUME QualifiedAssumption == Qualified \in BOOLEAN
ASSUME MaxCyclesAssumption == MaxCycles \in Nat

VARIABLES
    common,     \* TRUE: the common layout, no actor tick after the run completed
    main,       \* where the main thread is
    back,       \* where _harc_advance_actors() returns to
    wpc,        \* where each worker is
    due,        \* _harc_actor_tick_due
    over,       \* _fatal, or the run slot is Done (run_complete)
    shutdown,   \* _shutdown
    sArrived, sLeft, eArrived, eLeft,   \* the start and the end barrier
    cycles,     \* cycle_count: primary rising edges
    ticks       \* history: ticks of each worker's schedulers

barriers == <<sArrived, sLeft, eArrived, eLeft>>
vars == <<common, main, back, wpc, due, over, shutdown, barriers, cycles, ticks>>

Threads == Workers \cup {Main}

\* main waits once more on the start barrier to shut the workers down.
Start == INSTANCE AbstractBarrier
            WITH arrived <- sArrived, left <- sLeft, MaxRounds <- MaxCycles + 1
End == INSTANCE AbstractBarrier
            WITH arrived <- eArrived, left <- eLeft, MaxRounds <- MaxCycles + 1

MainStages == {"loop", "run", "qualified", "gate", "start", "started", "end", "ended",
               "checkers", "final", "finaled", "join", "done"}
WorkerStages == {"start", "started", "check", "tick", "end", "ended", "gone"}

TypeOK ==
    /\ common \in BOOLEAN
    /\ main \in MainStages
    /\ back \in {"qualified", "checkers"}
    /\ wpc \in [Workers -> WorkerStages]
    /\ due \in BOOLEAN /\ over \in BOOLEAN /\ shutdown \in BOOLEAN
    /\ sArrived \in [Threads -> Nat] /\ sLeft \in [Threads -> Nat]
    /\ eArrived \in [Threads -> Nat] /\ eLeft \in [Threads -> Nat]
    /\ cycles \in Nat
    /\ ticks \in [Workers -> Nat]

Init ==
    /\ common \in BOOLEAN
    /\ main = "loop" /\ back = "checkers"
    /\ wpc = [w \in Workers |-> "start"]
    /\ due = FALSE /\ over \in BOOLEAN /\ shutdown = FALSE
    /\ Start!Init /\ End!Init
    /\ cycles = 0
    /\ ticks = [w \in Workers |-> 0]

-----------------------------------------------------------------------------
\* The main thread.  Whoever runs user code may raise a fatal error.

MayEnd == over' \in {over, TRUE}

\* The loop head and the edges of one primary period.
LoopEdge ==
    /\ main = "loop" /\ ~ over /\ cycles < MaxCycles
    /\ cycles' = cycles + 1
    /\ due' = TRUE
    /\ MayEnd
    /\ main' = "run"
    /\ UNCHANGED <<common, back, wpc, shutdown, barriers, ticks>>

\* sched.tick() resumes the run coroutine, which suspends, completes or aborts.
RunEnd ==
    /\ main = "run"
    /\ MayEnd
    /\ cycles = MaxCycles => over'
    /\ main' = "gate"
    /\ UNCHANGED <<common, back, wpc, due, shutdown, barriers, cycles, ticks>>

Advance(ret) == main' = "start" /\ back' = ret /\ due' = FALSE

\* The run coroutine enters a clock-qualified wait: the actors' tick of the
\* current cycle is made up for first.
QualifiedEnter ==
    /\ main = "run" /\ Qualified
    /\ IF due THEN Advance("qualified")
       ELSE main' = "qualified" /\ UNCHANGED <<back, due>>
    /\ UNCHANGED <<common, wpc, over, shutdown, barriers, cycles, ticks>>

\* A primary edge inside the wait: the actors are advanced.
QualifiedEdge ==
    /\ main = "qualified" /\ ~ over /\ cycles < MaxCycles
    /\ cycles' = cycles + 1
    /\ MayEnd
    /\ Advance("qualified")
    /\ UNCHANGED <<common, wpc, shutdown, barriers, ticks>>

\* The wait is complete, or a fatal aborts it with edges still owed.
QualifiedEnd ==
    /\ main = "qualified"
    /\ main' \in {"run"} \cup {g \in {"gate"} : over}
    /\ UNCHANGED <<common, back, wpc, due, over, shutdown, barriers, cycles, ticks>>

\* Mutant: the loop ignores that the wait has ticked the actors already.
GateAlways ==
    /\ main = "gate"
    /\ Advance("checkers")
    /\ UNCHANGED <<common, wpc, over, shutdown, barriers, cycles, ticks>>
Gate ==
    /\ main = "gate"
    /\ IF due /\ (common => ~ over)
       THEN Advance("checkers")
       ELSE main' = "checkers" /\ UNCHANGED <<back, due>>
    /\ UNCHANGED <<common, wpc, over, shutdown, barriers, cycles, ticks>>

\* _start_barrier.wait(); _end_barrier.wait();
StartJoin ==
    /\ main = "start" /\ Start!Join(Main)
    /\ main' = "started"
    /\ UNCHANGED <<common, back, wpc, due, over, shutdown, eArrived, eLeft, cycles, ticks>>
StartReturn ==
    /\ main = "started" /\ Start!Return(Main)
    /\ main' = "end"
    /\ UNCHANGED <<common, back, wpc, due, over, shutdown, eArrived, eLeft, cycles, ticks>>
EndJoin ==
    /\ main = "end" /\ End!Join(Main)
    /\ main' = "ended"
    /\ UNCHANGED <<common, back, wpc, due, over, shutdown, sArrived, sLeft, cycles, ticks>>
EndReturn ==
    /\ main = "ended" /\ End!Return(Main)
    /\ main' = back
    /\ UNCHANGED <<common, back, wpc, due, over, shutdown, sArrived, sLeft, cycles, ticks>>

Checkers ==
    /\ main = "checkers"
    /\ MayEnd
    /\ main' = "loop"
    /\ UNCHANGED <<common, back, wpc, due, shutdown, barriers, cycles, ticks>>

\* After the loop: _shutdown.store(true), _start_barrier.wait(), join().
\* Mutant: the flag is set after the workers are let go.
StopLate ==
    /\ main = "loop" /\ over
    /\ main' = "final"
    /\ UNCHANGED <<common, back, wpc, due, over, shutdown, barriers, cycles, ticks>>
Stop ==
    /\ main = "loop" /\ over
    /\ shutdown' = TRUE
    /\ main' = "final"
    /\ UNCHANGED <<common, back, wpc, due, over, barriers, cycles, ticks>>
FinalJoin ==
    /\ main = "final" /\ Start!Join(Main)
    /\ main' = "finaled"
    /\ UNCHANGED <<common, back, wpc, due, over, shutdown, eArrived, eLeft, cycles, ticks>>
FinalReturn ==
    /\ main = "finaled" /\ Start!Return(Main)
    /\ main' = "join"
    /\ UNCHANGED <<common, back, wpc, due, over, shutdown, eArrived, eLeft, cycles, ticks>>
JoinWorkers ==
    /\ main = "join" /\ \A w \in Workers : wpc[w] = "gone"
    /\ main' = "done"
    /\ UNCHANGED <<common, back, wpc, due, over, shutdown, barriers, cycles, ticks>>

MainStep ==
    \/ LoopEdge \/ RunEnd \/ QualifiedEnter \/ QualifiedEdge \/ QualifiedEnd \/ Gate
    \/ StartJoin \/ StartReturn \/ EndJoin \/ EndReturn \/ Checkers
    \/ Stop \/ FinalJoin \/ FinalReturn \/ JoinWorkers

-----------------------------------------------------------------------------
\* A worker: while (true) { start.wait(); if (shutdown) break; tick; end.wait(); }

Goto(w, s) == wpc' = [wpc EXCEPT ![w] = s]

WorkerStartJoin(w) ==
    /\ wpc[w] = "start" /\ Start!Join(w) /\ Goto(w, "started")
    /\ UNCHANGED <<common, main, back, due, over, shutdown, eArrived, eLeft, cycles, ticks>>
WorkerStartReturn(w) ==
    /\ wpc[w] = "started" /\ Start!Return(w) /\ Goto(w, "check")
    /\ UNCHANGED <<common, main, back, due, over, shutdown, eArrived, eLeft, cycles, ticks>>
\* Mutant: the flag is not looked at.
WorkerCheckBlind(w) ==
    /\ wpc[w] = "check" /\ Goto(w, "tick")
    /\ UNCHANGED <<common, main, back, due, over, shutdown, barriers, cycles, ticks>>
WorkerCheck(w) ==
    /\ wpc[w] = "check" /\ Goto(w, IF shutdown THEN "gone" ELSE "tick")
    /\ UNCHANGED <<common, main, back, due, over, shutdown, barriers, cycles, ticks>>
WorkerTick(w) ==
    /\ wpc[w] = "tick" /\ Goto(w, "end")
    /\ ticks' = [ticks EXCEPT ![w] = @ + 1]
    /\ MayEnd
    /\ UNCHANGED <<common, main, back, due, shutdown, barriers, cycles>>
WorkerEndJoin(w) ==
    /\ wpc[w] = "end" /\ End!Join(w) /\ Goto(w, "ended")
    /\ UNCHANGED <<common, main, back, due, over, shutdown, sArrived, sLeft, cycles, ticks>>
WorkerEndReturn(w) ==
    /\ wpc[w] = "ended" /\ End!Return(w) /\ Goto(w, "start")
    /\ UNCHANGED <<common, main, back, due, over, shutdown, sArrived, sLeft, cycles, ticks>>

WorkerStep(w) ==
    \/ WorkerStartJoin(w) \/ WorkerStartReturn(w) \/ WorkerCheck(w)
    \/ WorkerTick(w) \/ WorkerEndJoin(w) \/ WorkerEndReturn(w)

Over == main = "done" /\ UNCHANGED vars

Next == MainStep \/ (\E w \in Workers : WorkerStep(w)) \/ Over

\* Every thread keeps running, and the run coroutine does not run for ever
\* without suspending.
Spec ==
    /\ Init /\ [][Next]_vars
    /\ WF_vars(MainStep) /\ SF_vars(RunEnd)
    /\ \A w \in Workers : WF_vars(WorkerStep(w))

-----------------------------------------------------------------------------
\* While a worker ticks actors, the main thread is inside the two barriers: the
\* run coroutine, the DUT and the checkers share state with the actors without
\* a lock, and nothing but the barriers keeps them apart.
MainApart ==
    \A w \in Workers : wpc[w] = "tick" => main \in {"started", "end", "ended"}

\* Actors keep pace with the primary clock, whatever mixture of loop cycles and
\* clock-qualified waits passes the time: they are never more than one tick
\* behind and never ahead, and at the head of a loop that goes on every worker
\* has ticked exactly once per rising edge.
ActorsKeepPace ==
    \A w \in Workers :
        /\ ticks[w] \in {cycles - 1, cycles}
        /\ main = "loop" /\ ~ over => ticks[w] = cycles

\* Once shut down, no worker ticks again: the DUT is torn down after the join.
NoTickAfterShutdown == shutdown => \A w \in Workers : wpc[w] # "tick"

\* The run completes: no cycle of barrier waits blocks main and workers, every
\* worker sees the flag and ends without entering the end barrier, and the join
\* returns.
RunCompletes == <>(main = "done" /\ \A w \in Workers : wpc[w] = "gone")

-----------------------------------------------------------------------------
\* The inductive invariant.  Each thread's four counters follow from where it
\* is; the barriers' own promise relates the counters of different threads.

One(b) == IF b THEN 1 ELSE 0

MainCounts ==
    /\ sArrived[Main] = sLeft[Main] + One(main \in {"started", "finaled"})
    /\ eArrived[Main] = eLeft[Main] + One(main = "ended")
    /\ sLeft[Main] = eLeft[Main] + One(main \in {"end", "ended", "join", "done"})
    /\ shutdown <=> main \in {"final", "finaled", "join", "done"}

WorkerCounts ==
    \A w \in Workers :
        /\ sArrived[w] = sLeft[w] + One(wpc[w] = "started")
        /\ eArrived[w] = eLeft[w] + One(wpc[w] = "ended")
        /\ sLeft[w] = eLeft[w] + One(wpc[w] \in {"check", "tick", "end", "ended", "gone"})
        /\ ticks[w] = eArrived[w] + One(wpc[w] = "end")
        /\ wpc[w] = "gone" => shutdown
        /\ shutdown => eArrived[w] = eLeft[Main] /\ wpc[w] \notin {"tick", "end"}

BarriersKept ==
    \A t, u \in Threads : sLeft[t] <= sArrived[u] /\ eLeft[t] <= eArrived[u]

\* The edges the actors have not been advanced for, by the main thread's place.
EdgesOwed ==
    LET owed == cycles - eLeft[Main]
    IN  /\ main \in {"run", "gate"} => owed = One(due)
        /\ main = "qualified" => owed = 0 /\ ~ due
        /\ main \in {"start", "started", "end", "ended"} => owed = 1 /\ ~ due
        /\ main \in {"checkers", "loop"} =>
              /\ owed \in {0, 1} /\ (owed = 1 => over)
        /\ main \in {"final", "finaled", "join", "done"} => owed \in {0, 1} /\ over

IInv == TypeOK /\ MainCounts /\ WorkerCounts /\ BarriersKept /\ EdgesOwed
=============================================================================
