--------------------------- MODULE MtDriveProofs ---------------------------
(***************************************************************************)
(* The threads of a `--mt` test.                                           *)
(*                                                                         *)
(* The drive loop, for every set of workers and every layout: IInv is      *)
(* inductive, and from it follow that main thread and workers never touch  *)
(* shared state at the same time (MainApart), that the actors' ticks match *)
(* the primary clock's edges (ActorsKeepPace), and that nothing ticks      *)
(* after the shutdown flag is set (NoTickAfterShutdown). Steps that write  *)
(* a Boolean get the five conjuncts of IInv one by one, with the Boolean   *)
(* facts established first; the others are one step.                       *)
(*                                                                         *)
(* The barrier that the loop passes twice per cycle, for any finite set of *)
(* threads, any number of rounds and any modulus of the generation counter *)
(* above one: it lets nobody through early (BarrierSafety) and implements  *)
(* the AbstractBarrier that the drive loop is built on                     *)
(* (BarrierRefinement).                                                    *)
(***************************************************************************)
EXTENDS MtDrive, FiniteSetTheorems, TLAPS

USE ThreadsAssumption, QualifiedAssumption, MaxCyclesAssumption

\* The invariant holds before the first cycle, with the workers just started.
LEMMA InitInv == Init => IInv
<1> SUFFICES ASSUME Init PROVE IInv
  OBVIOUS
<1> USE DEF Init, Start!Init, End!Init, Threads, One
<1>1. TypeOK
  BY Zenon DEF TypeOK, MainStages, WorkerStages
<1>2. MainCounts
  BY DEF MainCounts
<1>3. WorkerCounts
  BY DEF WorkerCounts
<1>4. BarriersKept
  BY DEF BarriersKept
<1>5. EdgesOwed
  BY DEF EdgesOwed
<1> QED
  BY <1>1, <1>2, <1>3, <1>4, <1>5 DEF IInv

-----------------------------------------------------------------------------
\* Steps of the main thread outside the barriers.

\* The edges of one loop iteration owe the actors one tick.
LEMMA LoopEdgeInv == IInv /\ LoopEdge => IInv'
<1> SUFFICES ASSUME IInv, LoopEdge PROVE IInv'
  OBVIOUS
<1> USE DEF LoopEdge, MayEnd, IInv, barriers
<1>0. due' \in BOOLEAN /\ over' \in BOOLEAN
  BY Zenon DEF TypeOK
<1>1. TypeOK'
  BY <1>0 DEF TypeOK, MainStages
<1>2. MainCounts' /\ WorkerCounts'
  BY DEF MainCounts, WorkerCounts, One
<1>3. BarriersKept'
  BY DEF BarriersKept
<1>4. EdgesOwed'
  BY DEF TypeOK, EdgesOwed, One, Threads
<1> QED
  BY <1>1, <1>2, <1>3, <1>4

\* Resuming the run coroutine changes no counter.
LEMMA RunEndInv == IInv /\ RunEnd => IInv'
<1> SUFFICES ASSUME IInv, RunEnd PROVE IInv'
  OBVIOUS
<1> USE DEF RunEnd, MayEnd, IInv, barriers
<1>0. due' \in BOOLEAN /\ over' \in BOOLEAN
  BY Zenon DEF TypeOK
<1>1. TypeOK'
  BY <1>0 DEF TypeOK, MainStages
<1>2. MainCounts' /\ WorkerCounts'
  BY DEF MainCounts, WorkerCounts, One
<1>3. BarriersKept'
  BY DEF BarriersKept
<1>4. EdgesOwed'
  BY DEF TypeOK, EdgesOwed, One, Threads
<1> QED
  BY <1>1, <1>2, <1>3, <1>4

\* Entering a qualified wait makes up for the tick that is due.
LEMMA QualifiedEnterInv == IInv /\ QualifiedEnter => IInv'
<1> SUFFICES ASSUME IInv, QualifiedEnter PROVE IInv'
  OBVIOUS
<1> USE DEF QualifiedEnter, Advance, IInv, barriers
<1>0. due' \in BOOLEAN /\ over' \in BOOLEAN
  BY Zenon DEF TypeOK
<1>1. TypeOK'
  BY <1>0 DEF TypeOK, MainStages
<1>2. MainCounts' /\ WorkerCounts'
  BY DEF MainCounts, WorkerCounts, One
<1>3. BarriersKept'
  BY DEF BarriersKept
<1>4. EdgesOwed'
  BY DEF TypeOK, EdgesOwed, One, Threads
<1> QED
  BY <1>1, <1>2, <1>3, <1>4

\* A primary edge inside a qualified wait is followed by an advance.
LEMMA QualifiedEdgeInv == IInv /\ QualifiedEdge => IInv'
<1> SUFFICES ASSUME IInv, QualifiedEdge PROVE IInv'
  OBVIOUS
<1> USE DEF QualifiedEdge, MayEnd, Advance, IInv, barriers
<1>0. due' \in BOOLEAN /\ over' \in BOOLEAN
  BY Zenon DEF TypeOK
<1>1. TypeOK'
  BY <1>0 DEF TypeOK, MainStages
<1>2. MainCounts' /\ WorkerCounts'
  BY DEF MainCounts, WorkerCounts, One
<1>3. BarriersKept'
  BY DEF BarriersKept
<1>4. EdgesOwed'
  BY DEF TypeOK, EdgesOwed, One, Threads
<1> QED
  BY <1>1, <1>2, <1>3, <1>4

\* The loop advances the actors exactly when their tick is still due.
LEMMA GateInv == IInv /\ Gate => IInv'
<1> SUFFICES ASSUME IInv, Gate PROVE IInv'
  OBVIOUS
<1> USE DEF Gate, Advance, IInv, barriers
<1>0. due' \in BOOLEAN /\ over' \in BOOLEAN
  BY Zenon DEF TypeOK
<1>1. TypeOK'
  BY <1>0 DEF TypeOK, MainStages
<1>2. MainCounts' /\ WorkerCounts'
  BY DEF MainCounts, WorkerCounts, One
<1>3. BarriersKept'
  BY DEF BarriersKept
<1>4. EdgesOwed'
  BY DEF TypeOK, EdgesOwed, One, Threads
<1> QED
  BY <1>1, <1>2, <1>3, <1>4

\* The checkers change no counter.
LEMMA CheckersInv == IInv /\ Checkers => IInv'
<1> SUFFICES ASSUME IInv, Checkers PROVE IInv'
  OBVIOUS
<1> USE DEF Checkers, MayEnd, IInv, barriers
<1>0. due' \in BOOLEAN /\ over' \in BOOLEAN
  BY Zenon DEF TypeOK
<1>1. TypeOK'
  BY <1>0 DEF TypeOK, MainStages
<1>2. MainCounts' /\ WorkerCounts'
  BY DEF MainCounts, WorkerCounts, One
<1>3. BarriersKept'
  BY DEF BarriersKept
<1>4. EdgesOwed'
  BY Zenon DEF TypeOK, EdgesOwed, One, Threads
<1> QED
  BY <1>1, <1>2, <1>3, <1>4

\* The end of a qualified wait leaves no edge owed.
LEMMA QualifiedEndInv == IInv /\ QualifiedEnd => IInv'
  BY SMTT(30)
  DEF QualifiedEnd, IInv, TypeOK, MainCounts, WorkerCounts, BarriersKept, EdgesOwed, One,
      Threads, MainStages, WorkerStages, barriers

\* When the loop is left, BarriersKept squeezes every worker between its last
\* end barrier and the next start barrier.
LEMMA StopInv == IInv /\ Stop => IInv'
  BY SMTT(30)
  DEF Stop, IInv, TypeOK, MainCounts, WorkerCounts, BarriersKept, EdgesOwed, One,
      Threads, MainStages, WorkerStages, barriers

\* Joining the workers changes no counter.
LEMMA JoinWorkersInv == IInv /\ JoinWorkers => IInv'
  BY SMTT(30)
  DEF JoinWorkers, IInv, TypeOK, MainCounts, WorkerCounts, BarriersKept, EdgesOwed, One,
      Threads, MainStages, WorkerStages, barriers

-----------------------------------------------------------------------------
\* The main thread at the barriers.

\* The main thread's arrival at the start barrier.
LEMMA StartJoinInv == IInv /\ StartJoin => IInv'
  BY SMTT(30)
  DEF StartJoin, Start!Join, IInv, TypeOK, MainCounts, WorkerCounts, BarriersKept,
      EdgesOwed, One,
      Threads, MainStages, WorkerStages, barriers

\* The main thread's return from the start barrier.
LEMMA StartReturnInv == IInv /\ StartReturn => IInv'
  BY SMTT(30)
  DEF StartReturn, Start!Return, IInv, TypeOK, MainCounts, WorkerCounts, BarriersKept,
      EdgesOwed, One,
      Threads, MainStages, WorkerStages, barriers

\* The main thread's arrival at the end barrier.
LEMMA EndJoinInv == IInv /\ EndJoin => IInv'
  BY SMTT(30)
  DEF EndJoin, End!Join, IInv, TypeOK, MainCounts, WorkerCounts, BarriersKept,
      EdgesOwed, One,
      Threads, MainStages, WorkerStages, barriers

\* The main thread's return from the end barrier pays the edge that was owed.
LEMMA EndReturnInv == IInv /\ EndReturn => IInv'
<1> SUFFICES ASSUME IInv, EndReturn PROVE IInv'
  OBVIOUS
<1> USE DEF EndReturn, End!Return, barriers
<1>1. TypeOK'
  BY DEF IInv, TypeOK, Threads, MainStages
<1>2. /\ main = "ended" /\ main' = back /\ back \in {"qualified", "checkers"}
      /\ eLeft[Main] \in Nat /\ eLeft'[Main] = eLeft[Main] + 1
      /\ \A u \in Threads : eLeft'[Main] <= eArrived[u]
      /\ \A u \in Threads : u # Main => eLeft'[u] = eLeft[u]
  BY DEF IInv, TypeOK, MainCounts, Threads, One
<1>3. MainCounts'
  BY <1>2 DEF IInv, TypeOK, MainCounts, Threads, One
<1>4. WorkerCounts'
  BY <1>2, ThreadsAssumption DEF IInv, WorkerCounts, MainCounts, Threads, One
<1>5. BarriersKept'
  BY <1>2 DEF IInv, BarriersKept
<1>6. EdgesOwed'
  BY <1>2 DEF IInv, TypeOK, EdgesOwed
<1> QED
  BY <1>1, <1>3, <1>4, <1>5, <1>6 DEF IInv

\* The arrival that lets the workers see the shutdown flag.
LEMMA FinalJoinInv == IInv /\ FinalJoin => IInv'
  BY SMTT(30)
  DEF FinalJoin, Start!Join, IInv, TypeOK, MainCounts, WorkerCounts, BarriersKept,
      EdgesOwed, One,
      Threads, MainStages, WorkerStages, barriers

\* The return from the last start barrier.
LEMMA FinalReturnInv == IInv /\ FinalReturn => IInv'
  BY SMTT(30)
  DEF FinalReturn, Start!Return, IInv, TypeOK, MainCounts, WorkerCounts, BarriersKept,
      EdgesOwed, One,
      Threads, MainStages, WorkerStages, barriers

-----------------------------------------------------------------------------
\* Steps of a worker.

\* A worker's arrival at the start barrier.
LEMMA WorkerStartJoinInv == ASSUME NEW w \in Workers, IInv, WorkerStartJoin(w) PROVE IInv'
<1> USE DEF WorkerStartJoin, Start!Join, Goto, IInv, barriers, Threads, One
<1>0. due' \in BOOLEAN /\ over' \in BOOLEAN
  BY Zenon DEF TypeOK
<1>1. TypeOK'
  BY <1>0 DEF TypeOK, WorkerStages
<1>2. MainCounts' /\ EdgesOwed'
  BY DEF TypeOK, MainCounts, EdgesOwed
<1>3. WorkerCounts'
  BY DEF TypeOK, MainCounts, WorkerCounts, BarriersKept, WorkerStages
<1>4. BarriersKept'
  BY DEF TypeOK, BarriersKept, WorkerCounts
<1> QED
  BY <1>1, <1>2, <1>3, <1>4

\* A worker's return from the start barrier.
LEMMA WorkerStartReturnInv == ASSUME NEW w \in Workers, IInv, WorkerStartReturn(w) PROVE IInv'
<1> USE DEF WorkerStartReturn, Start!Return, Goto, IInv, barriers, Threads, One
<1>0. due' \in BOOLEAN /\ over' \in BOOLEAN
  BY Zenon DEF TypeOK
<1>1. TypeOK'
  BY <1>0 DEF TypeOK, WorkerStages
<1>2. MainCounts' /\ EdgesOwed'
  BY DEF TypeOK, MainCounts, EdgesOwed
<1>3. WorkerCounts'
  BY DEF TypeOK, MainCounts, WorkerCounts, BarriersKept, WorkerStages
<1>4. BarriersKept'
  BY DEF TypeOK, BarriersKept, WorkerCounts
<1> QED
  BY <1>1, <1>2, <1>3, <1>4

\* A worker that sees the flag ends without having ticked.
LEMMA WorkerCheckInv == ASSUME NEW w \in Workers, IInv, WorkerCheck(w) PROVE IInv'
<1> USE DEF WorkerCheck, Goto, IInv, barriers, Threads, One
<1>0. due' \in BOOLEAN /\ over' \in BOOLEAN
  BY Zenon DEF TypeOK
<1>1. TypeOK'
  BY <1>0 DEF TypeOK, WorkerStages
<1>2. MainCounts' /\ EdgesOwed'
  BY DEF TypeOK, MainCounts, EdgesOwed
<1>3. WorkerCounts'
  BY DEF TypeOK, MainCounts, WorkerCounts, BarriersKept, WorkerStages
<1>4. BarriersKept'
  BY DEF TypeOK, BarriersKept, WorkerCounts
<1> QED
  BY <1>1, <1>2, <1>3, <1>4

\* A tick happens between a worker's start and end barrier.
LEMMA WorkerTickInv == ASSUME NEW w \in Workers, IInv, WorkerTick(w) PROVE IInv'
<1> USE DEF WorkerTick, Goto, MayEnd, IInv, barriers, Threads, One
<1>0. due' \in BOOLEAN /\ over' \in BOOLEAN
  BY Zenon DEF TypeOK
<1>1. TypeOK'
  BY <1>0 DEF TypeOK, WorkerStages
<1>2. MainCounts' /\ EdgesOwed'
  BY Zenon DEF TypeOK, MainCounts, EdgesOwed
<1>3. WorkerCounts'
  BY DEF TypeOK, MainCounts, WorkerCounts, BarriersKept, WorkerStages
<1>4. BarriersKept'
  BY DEF TypeOK, BarriersKept, WorkerCounts
<1> QED
  BY <1>1, <1>2, <1>3, <1>4

\* A worker's arrival at the end barrier.
LEMMA WorkerEndJoinInv == ASSUME NEW w \in Workers, IInv, WorkerEndJoin(w) PROVE IInv'
<1> USE DEF WorkerEndJoin, End!Join, Goto, IInv, barriers, Threads, One
<1>0. due' \in BOOLEAN /\ over' \in BOOLEAN
  BY Zenon DEF TypeOK
<1>1. TypeOK'
  BY <1>0 DEF TypeOK, WorkerStages
<1>2. MainCounts' /\ EdgesOwed'
  BY DEF TypeOK, MainCounts, EdgesOwed
<1>3. WorkerCounts'
  BY DEF TypeOK, MainCounts, WorkerCounts, BarriersKept, WorkerStages
<1>4. BarriersKept'
  BY DEF TypeOK, BarriersKept, WorkerCounts
<1> QED
  BY <1>1, <1>2, <1>3, <1>4

\* A worker's return from the end barrier.
LEMMA WorkerEndReturnInv == ASSUME NEW w \in Workers, IInv, WorkerEndReturn(w) PROVE IInv'
<1> USE DEF WorkerEndReturn, End!Return, Goto, IInv, barriers, Threads, One
<1>0. due' \in BOOLEAN /\ over' \in BOOLEAN
  BY Zenon DEF TypeOK
<1>1. TypeOK'
  BY <1>0 DEF TypeOK, WorkerStages
<1>2. MainCounts' /\ EdgesOwed'
  BY DEF TypeOK, MainCounts, EdgesOwed
<1>3. WorkerCounts'
  BY DEF TypeOK, MainCounts, WorkerCounts, BarriersKept, WorkerStages
<1>4. BarriersKept'
  BY DEF TypeOK, BarriersKept, WorkerCounts
<1> QED
  BY <1>1, <1>2, <1>3, <1>4

\* Stuttering steps.
LEMMA StutterInv == IInv /\ UNCHANGED vars => IInv'
  BY DEF IInv, TypeOK, MainCounts, WorkerCounts, BarriersKept, EdgesOwed, One,
      Threads, MainStages, WorkerStages, barriers, vars

-----------------------------------------------------------------------------
\* IInv, which includes the type invariant, holds in every reachable state.
THEOREM Invariance == Spec => []IInv
<1>1. ASSUME IInv, [Next]_vars PROVE IInv'
  <2>1. CASE MainStep
    BY <1>1, <2>1, LoopEdgeInv, RunEndInv, QualifiedEnterInv, QualifiedEdgeInv, QualifiedEndInv,
       GateInv, StartJoinInv, StartReturnInv, EndJoinInv, EndReturnInv,
       CheckersInv, StopInv, FinalJoinInv, FinalReturnInv, JoinWorkersInv DEF MainStep
  <2>2. ASSUME NEW w \in Workers, WorkerStep(w) PROVE IInv'
    BY <1>1, <2>2, WorkerStartJoinInv, WorkerStartReturnInv, WorkerCheckInv,
       WorkerTickInv, WorkerEndJoinInv, WorkerEndReturnInv DEF WorkerStep
  <2>3. CASE UNCHANGED vars
    BY <1>1, <2>3, StutterInv
  <2> QED
    BY <1>1, <2>1, <2>2, <2>3 DEF Next, Over
<1> QED
  BY InitInv, <1>1, PTL DEF Spec

\* What the invariant says of a worker that is between the barriers.
LEMMA Consequences == IInv => MainApart /\ ActorsKeepPace /\ NoTickAfterShutdown
<1> SUFFICES ASSUME IInv, NEW w \in Workers
             PROVE  /\ wpc[w] = "tick" => main \in {"started", "end", "ended"}
                    /\ ticks[w] \in {cycles - 1, cycles}
                    /\ main = "loop" /\ ~ over => ticks[w] = cycles
                    /\ shutdown => wpc[w] # "tick"
  BY DEF MainApart, ActorsKeepPace, NoTickAfterShutdown
<1> QED
  BY SMTT(30) DEF IInv, TypeOK, MainCounts, WorkerCounts, BarriersKept, EdgesOwed, One,
      Threads, MainStages, WorkerStages, barriers

\* A worker ticks actors only while the main thread is inside the barriers.
THEOREM Apart == Spec => []MainApart
  BY Invariance, Consequences, PTL

\* Every worker ticks exactly once per primary edge.
THEOREM KeepPace == Spec => []ActorsKeepPace
  BY Invariance, Consequences, PTL

\* No actor is ticked once the shutdown flag is set.
THEOREM ShutdownIsFinal == Spec => []NoTickAfterShutdown
  BY Invariance, Consequences, PTL

-----------------------------------------------------------------------------
\* The barriers themselves: what MtDrive takes for one step of joining or
\* leaving a round is the code of harc_rt::Barrier, for any participants, any
\* number of rounds and any modulus of the generation counter above one.

CONSTANTS Parties, GenMod, Rounds
VARIABLES count, generation, gen, pc, arrived, left

Spin == INSTANCE Barrier WITH Threads <- Parties, MaxRounds <- Rounds

\* What Barrier assumes of its constants.
PartiesFinite == IsFiniteSet(Parties) /\ Parties # {}
SpinConstants == PartiesFinite /\ GenMod \in Nat /\ GenMod > 1 /\ Rounds \in Nat

\* Barrier's Cardinality is the one the theorems about finite sets speak of.
LEMMA SpinCardinality == ASSUME NEW S PROVE Spin!Cardinality(S) = Cardinality(S)
  BY DEF Spin!Cardinality, Cardinality

\* The bound of the barrier, the number of its participants, is a positive
\* number, and the threads held in a round are a finite set no larger.
LEMMA HeldCardinality ==
    ASSUME PartiesFinite
    PROVE  /\ Spin!target \in Nat /\ Spin!target > 0
           /\ IsFiniteSet(Spin!Held) /\ Cardinality(Spin!Held) \in 0 .. Spin!target
           /\ Cardinality(Spin!Held) = Spin!target => Spin!Held = Parties
<1> USE DEF PartiesFinite
<1>1. Spin!target \in Nat /\ Spin!target > 0
  BY SpinCardinality, FS_CardinalityType, FS_EmptySet DEF Spin!target
<1>2. Spin!Held \in SUBSET Parties
  BY DEF Spin!Held
<1> QED
  BY <1>1, <1>2, FS_Subset, FS_CardinalityType, SpinCardinality DEF Spin!target

\* A fetch_add that makes count reach target is the arrival of the only thread
\* that was not yet held.
LEMMA LastArrival ==
    ASSUME PartiesFinite, NEW t \in Parties, t \notin Spin!Held,
           Cardinality(Spin!Held) + 1 = Spin!target
    PROVE  Parties \ {t} \subseteq Spin!Held
<1> USE DEF PartiesFinite
<1>1. Spin!Held \in SUBSET (Parties \ {t}) /\ IsFiniteSet(Parties \ {t})
  BY FS_RemoveElement DEF Spin!Held
<1>2. Cardinality(Parties \ {t}) = Spin!target - 1
  BY FS_RemoveElement, FS_CardinalityType, SpinCardinality DEF Spin!target
<1>3. Cardinality(Spin!Held) = Cardinality(Parties \ {t})
  BY <1>2, HeldCardinality
<1> QED
  BY <1>1, <1>3, FS_Subset

\* Before the first call of wait() nobody is held and no round is over.
LEMMA BarrierInit == ASSUME SpinConstants, Spin!Init PROVE Spin!IInv
<1> USE DEF SpinConstants
<1>1. Spin!Held = {} /\ Spin!Stale = {}
  BY DEF Spin!Init, Spin!Held, Spin!Stale
<1>2. Spin!TypeOK
  BY HeldCardinality DEF Spin!Init, Spin!TypeOK, Spin!Stages
<1>3. Spin!CountIsHeld
  BY <1>1, FS_EmptySet, SpinCardinality DEF Spin!Init, Spin!CountIsHeld
<1>4. Spin!RoundsAgree
  BY <1>1 DEF PartiesFinite, Spin!Init, Spin!RoundsAgree, Spin!RoundsOver
<1> QED
  BY <1>2, <1>3, <1>4 DEF Spin!IInv

\* Reading generation on entry changes no round.
LEMMA BarrierLoad ==
    ASSUME SpinConstants, NEW t \in Parties, Spin!IInv, Spin!Load(t) PROVE Spin!IInv'
<1> USE DEF SpinConstants, Spin!IInv
<1>1. Spin!Held' = Spin!Held /\ Spin!Stale' = Spin!Stale
  BY DEF Spin!Load, Spin!Held, Spin!Stale, Spin!TypeOK
<1>2. Spin!TypeOK'
  BY DEF Spin!Load, Spin!TypeOK, Spin!Stages
<1>3. Spin!CountIsHeld'
  BY <1>1 DEF Spin!Load, Spin!CountIsHeld, Spin!TypeOK
<1>4. Spin!RoundsAgree'
  BY <1>1 DEF Spin!Load, Spin!RoundsAgree, Spin!RoundsOver, Spin!TypeOK
<1> QED
  BY <1>2, <1>3, <1>4

\* An arrival joins the open round; the one that fills it finds all others held.
LEMMA BarrierArrive ==
    ASSUME SpinConstants, NEW t \in Parties, Spin!IInv, Spin!Arrive(t) PROVE Spin!IInv'
<1> USE DEF SpinConstants, Spin!IInv
<1>1. /\ pc[t] = "arrive" /\ gen[t] = generation
      /\ t \notin Spin!Held /\ t \notin Spin!Stale
      /\ gen' = gen /\ generation' = generation /\ left' = left
      /\ pc' = [pc EXCEPT ![t] = IF count + 1 = Spin!target THEN "reset" ELSE "spin"]
  BY DEF Spin!Arrive, Spin!Held, Spin!Stale, Spin!RoundsAgree, Spin!TypeOK
<1>2. /\ \A u \in Parties : pc[u] \notin {"reset", "release"}
      /\ count = Cardinality(Spin!Held)
  BY <1>1, SpinCardinality DEF Spin!CountIsHeld
<1>3. Spin!Held' = Spin!Held \cup {t} /\ Spin!Stale' = Spin!Stale
  BY <1>1 DEF Spin!Held, Spin!Stale, Spin!TypeOK
<1>4. Cardinality(Spin!Held') = count + 1
  BY Zenon, <1>1, <1>2, <1>3, HeldCardinality, FS_AddElement
<1>5. count + 1 <= Spin!target
  BY <1>1, <1>2, HeldCardinality, ~(Spin!Held = Parties)
<1>6. Spin!TypeOK'
  BY <1>1, <1>5 DEF Spin!Arrive, Spin!TypeOK, Spin!Stages
<1>7. CASE count + 1 = Spin!target
  <2>1. \A u \in Parties \ {t} : pc[u] = "spin" /\ gen[u] = generation
    BY <1>1, <1>2, <1>7, LastArrival DEF Spin!Held
  <2>2. Spin!CountIsHeld'
    BY <1>1, <1>7, <2>1 DEF Spin!Arrive, Spin!CountIsHeld, Spin!TypeOK
  <2>3. Spin!RoundsAgree'
    BY <1>1, <1>3, <1>7 DEF Spin!Arrive, Spin!RoundsAgree, Spin!RoundsOver, Spin!TypeOK
  <2> QED
    BY <1>6, <2>2, <2>3
<1>8. CASE count + 1 # Spin!target
  <2>1. Spin!CountIsHeld'
    BY <1>1, <1>2, <1>4, <1>8, SpinCardinality DEF Spin!Arrive, Spin!CountIsHeld,
                                                   Spin!TypeOK
  <2>2. Spin!Held' # Parties
    BY <1>4, <1>8, SpinCardinality DEF Spin!target
  <2>3. Spin!RoundsAgree'
    BY <1>1, <1>3, <1>8, <2>2 DEF Spin!Arrive, Spin!RoundsAgree, Spin!RoundsOver,
                                  Spin!TypeOK
  <2> QED
    BY <1>6, <2>1, <2>3
<1> QED
  BY <1>7, <1>8

\* count.store(0) happens while every other thread is still held.
LEMMA BarrierReset ==
    ASSUME SpinConstants, NEW t \in Parties, Spin!IInv, Spin!Reset(t) PROVE Spin!IInv'
<1> USE DEF SpinConstants, Spin!IInv
<1>1. Spin!Held' = Spin!Held /\ Spin!Stale' = Spin!Stale
  BY DEF Spin!Reset, Spin!Held, Spin!Stale, Spin!TypeOK
<1>2. Spin!TypeOK'
  BY HeldCardinality DEF Spin!Reset, Spin!TypeOK, Spin!Stages
<1>3. Spin!CountIsHeld'
  BY DEF Spin!Reset, Spin!CountIsHeld, Spin!TypeOK
<1>4. Spin!RoundsAgree'
  BY <1>1 DEF Spin!Reset, Spin!RoundsAgree, Spin!RoundsOver, Spin!TypeOK
<1> QED
  BY <1>2, <1>3, <1>4

\* Counting one up modulo GenMod gives another generation.
LEMMA NextGeneration ==
    ASSUME GenMod \in Nat, GenMod > 1, NEW g \in 0 .. GenMod - 1
    PROVE  (g + 1) % GenMod \in 0 .. GenMod - 1 /\ (g + 1) % GenMod # g
<1>1. CASE g + 1 = GenMod
  BY <1>1
<1>2. CASE g + 1 < GenMod
  BY <1>2
<1> QED
  BY <1>1, <1>2

\* generation.fetch_add(1) ends the round of every held thread at once.
LEMMA BarrierRelease ==
    ASSUME SpinConstants, NEW t \in Parties, Spin!IInv, Spin!Release(t) PROVE Spin!IInv'
<1> USE DEF SpinConstants, Spin!IInv
<1>1. /\ pc[t] = "release" /\ count = 0
      /\ \A u \in Parties \ {t} : pc[u] = "spin" /\ gen[u] = generation
  BY DEF Spin!Release, Spin!CountIsHeld
<1>2. generation' \in 0 .. GenMod - 1 /\ generation' # generation
  BY Zenon, NextGeneration DEF Spin!Release, Spin!TypeOK
<1>3. Spin!Held' = {} /\ Spin!Stale' = Parties \ {t} /\ Spin!Stale = {}
  BY <1>1, <1>2 DEF Spin!Release, Spin!Held, Spin!Stale, Spin!TypeOK
<1>4. Spin!TypeOK'
  BY <1>2 DEF Spin!Release, Spin!TypeOK, Spin!Stages
<1>5. Spin!CountIsHeld'
  BY <1>1, <1>3, FS_EmptySet, SpinCardinality DEF Spin!Release, Spin!CountIsHeld,
                                                  Spin!TypeOK
<1>6. Spin!RoundsAgree'
  BY <1>1, <1>3 DEF Spin!Release, Spin!RoundsAgree, Spin!RoundsOver, Spin!TypeOK
<1> QED
  BY <1>4, <1>5, <1>6

\* A spinning thread that sees another generation leaves a round that is over.
LEMMA BarrierLeave ==
    ASSUME SpinConstants, NEW t \in Parties, Spin!IInv, Spin!Leave(t) PROVE Spin!IInv'
<1> USE DEF SpinConstants, Spin!IInv
<1>1. /\ \A u \in Parties : pc[u] \notin {"reset", "release"}
      /\ count = Cardinality(Spin!Held)
  BY SpinCardinality DEF Spin!Leave, Spin!CountIsHeld
<1>2. Spin!Held' = Spin!Held /\ Spin!Stale' = Spin!Stale \ {t} /\ t \in Spin!Stale
  BY DEF Spin!Leave, Spin!Held, Spin!Stale, Spin!TypeOK
<1>3. Spin!TypeOK'
  BY DEF Spin!Leave, Spin!TypeOK, Spin!Stages
<1>4. Spin!CountIsHeld'
  BY <1>1, <1>2, SpinCardinality DEF Spin!Leave, Spin!CountIsHeld, Spin!TypeOK
<1>5. Spin!RoundsAgree'
  BY <1>1, <1>2 DEF Spin!Leave, Spin!RoundsAgree, Spin!RoundsOver, Spin!TypeOK
<1> QED
  BY <1>3, <1>4, <1>5

\* The inductive invariant holds in every reachable state.
THEOREM BarrierInvariance == ASSUME SpinConstants PROVE Spin!Spec => []Spin!IInv
<1>1. Spin!IInv /\ [Spin!Next]_(Spin!vars) => Spin!IInv'
  <2> SUFFICES ASSUME Spin!IInv, [Spin!Next]_(Spin!vars) PROVE Spin!IInv'
    OBVIOUS
  <2>1. CASE UNCHANGED Spin!vars
    BY <2>1 DEF Spin!vars, Spin!IInv, Spin!TypeOK, Spin!CountIsHeld, Spin!RoundsAgree,
                Spin!RoundsOver, Spin!Held, Spin!Stale
  <2>2. ASSUME NEW t \in Parties, Spin!Step(t) PROVE Spin!IInv'
    BY <2>2, BarrierLoad, BarrierArrive, BarrierReset, BarrierRelease, BarrierLeave
       DEF Spin!Step
  <2> QED
    BY <2>1, <2>2 DEF Spin!Next, Spin!Finished
<1> QED
  BY BarrierInit, <1>1, PTL DEF Spin!Spec

\* Whoever is through its k-th wait() finds k arrivals of every participant.
THEOREM BarrierSafety == ASSUME SpinConstants PROVE Spin!Spec => []Spin!NoEarlyReturn
<1>1. Spin!IInv => Spin!NoEarlyReturn
  BY DEF Spin!IInv, Spin!TypeOK, Spin!RoundsAgree, Spin!RoundsOver, Spin!Stale,
         Spin!NoEarlyReturn
<1> QED
  BY BarrierInvariance, <1>1, PTL

\* The accesses of count and generation implement joining and leaving a round:
\* Arrive joins, Release and Leave return, the other accesses are invisible.
THEOREM BarrierRefinement == ASSUME SpinConstants PROVE Spin!Spec => Spin!AbstractSafe
<1> USE DEF Spin!IInv
<1>1. Spin!Init => Spin!Abstract!Init
  BY DEF Spin!Init, Spin!Abstract!Init
<1>2. ASSUME Spin!IInv, [Spin!Next]_(Spin!vars) PROVE [Spin!Abstract!Next]_(Spin!Abstract!vars)
  <2>1. CASE UNCHANGED Spin!vars
    BY <2>1 DEF Spin!vars, Spin!Abstract!vars
  <2>2. ASSUME NEW t \in Parties, Spin!Step(t)
        PROVE  [Spin!Abstract!Next]_(Spin!Abstract!vars)
    <3>1. CASE Spin!Load(t) \/ Spin!Reset(t)
      BY <3>1 DEF Spin!Load, Spin!Reset, Spin!Abstract!vars
    <3>2. CASE Spin!Arrive(t)
      <4>1. Spin!Abstract!Join(t)
        BY <1>2, <3>2 DEF Spin!Arrive, Spin!Abstract!Join, Spin!RoundsAgree, Spin!TypeOK
      <4> QED
        BY <4>1 DEF Spin!Abstract!Next
    <3>3. CASE Spin!Release(t)
      <4>1. \A u \in Parties : arrived[u] >= arrived[t]
        BY <1>2, <3>3 DEF Spin!Release, Spin!CountIsHeld, Spin!RoundsAgree,
                          Spin!RoundsOver, Spin!Stale, Spin!TypeOK
      <4>2. Spin!Abstract!Return(t)
        BY <1>2, <3>3, <4>1 DEF Spin!Release, Spin!Abstract!Return, Spin!RoundsAgree,
                                Spin!TypeOK
      <4> QED
        BY <4>2 DEF Spin!Abstract!Next
    <3>4. CASE Spin!Leave(t)
      <4>1. t \in Spin!Stale
        BY <3>4 DEF Spin!Leave, Spin!Stale
      <4>2. \A u \in Parties : arrived[u] >= arrived[t]
        BY <1>2, <3>4, <4>1 DEF Spin!Leave, Spin!RoundsAgree, Spin!RoundsOver,
                                Spin!Stale, Spin!TypeOK
      <4>3. Spin!Abstract!Return(t)
        BY <1>2, <3>4, <4>2 DEF Spin!Leave, Spin!Abstract!Return, Spin!RoundsAgree,
                                Spin!TypeOK
      <4> QED
        BY <4>3 DEF Spin!Abstract!Next
    <3> QED
      BY <2>2, <3>1, <3>2, <3>3, <3>4 DEF Spin!Step
  <2> QED
    BY <1>2, <2>1, <2>2 DEF Spin!Next, Spin!Finished
<1> QED
  BY BarrierInvariance, <1>1, <1>2, PTL DEF Spin!Spec, Spin!AbstractSafe,
                                            Spin!Abstract!Safe
=============================================================================
