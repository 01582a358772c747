-------------------------- MODULE ClockedRunProofs --------------------------
(* Proofs about simulated time, for every set of clocks and every sequence of *)
(* waits.                                                                     *)
EXTENDS ClockedRun, FiniteSetTheorems, TLAPS

\* A non-empty set of natural numbers has a minimum, and Min is it.
LEMMA MinNat ==
  ASSUME NEW S, S \subseteq Nat, S # {}
  PROVE  Min(S) \in S /\ \A y \in S : Min(S) <= y
<1> DEFINE T == {0 .. s : s \in S}
<1>1. T \subseteq FiniteSubsetsOf(Nat) /\ T # {}
  <2>1. \A s \in S : IsFiniteSet(0 .. s) /\ 0 .. s \subseteq Nat
    BY FS_Interval
  <2>2. T # {}
    BY Zenon
  <2>3. \A i \in T : IsFiniteSet(i) /\ i \subseteq Nat
    BY Zenon, <2>1
  <2> HIDE DEF T
  <2> QED
    BY Zenon, <2>2, <2>3 DEF FiniteSubsetsOf
<1>2. PICK i \in T : \A j \in T : ~ (<<j, i>> \in StrictSubsetOrdering(Nat))
  <2> HIDE DEF T
  <2> QED
    BY <1>1, WFMin, FS_StrictSubsetOrderingWellFounded, Zenon
<1>3. PICK x \in S : i = 0 .. x
  OBVIOUS
<1>4. ASSUME NEW y \in S, y < x PROVE FALSE
  <2>1. 0 .. y \subseteq 0 .. x /\ x \in 0 .. x /\ x \notin 0 .. y
    BY <1>4
  <2>2. <<0 .. y, i>> \in StrictSubsetOrdering(Nat)
    BY <2>1, <1>3 DEF StrictSubsetOrdering
  <2> QED
    BY Zenon, <2>2, <1>2
<1>5. \A y \in S : x <= y
  BY <1>4
<1> QED
  BY Zenon, <1>5 DEF Min

\* The primary clock is a clock, and every half period is positive.
LEMMA HalfType == 1 \in Clocks /\ Half \in [Clocks -> Nat \ {0}]
  BY HalfAssumption DEF Clocks

\* An instant lies after now, not after the target, and not after any edge; it is
\* the target or the time of an edge.
LEMMA InstantFacts ==
  ASSUME TypeOK, Ahead, now_ps < target
  PROVE  /\ Instant(target) \in Nat
         /\ now_ps < Instant(target) /\ Instant(target) <= target
         /\ \A c \in Clocks : Instant(target) <= next_edge_ps[c]
         /\ Instant(target) = target \/ \E c \in Clocks : Instant(target) = next_edge_ps[c]
<1> DEFINE S == {target} \cup {next_edge_ps[c] : c \in Clocks}
<1>1. S \subseteq Nat /\ S # {} /\ \A x \in S : now_ps < x
  BY Zenon DEF TypeOK, Ahead
<1>2. Min(S) \in S /\ \A y \in S : Min(S) <= y
  <2> HIDE DEF S
  <2> QED
    BY Zenon, <1>1, MinNat
<1>3. Instant(target) = Min(S)
  BY Zenon DEF Instant
<1>4. /\ target \in S /\ \A c \in Clocks : next_edge_ps[c] \in S
      /\ \A x \in S : x = target \/ \E c \in Clocks : x = next_edge_ps[c]
  BY Zenon
<1> HIDE DEF S
<1> QED
  BY Zenon, <1>1, <1>2, <1>3, <1>4

\* The next edge of any clock is a time, and no clock has an earlier one.
LEMMA NextEdgeType ==
  ASSUME TypeOK
  PROVE  NextEdge \in Nat /\ \A c \in Clocks : NextEdge <= next_edge_ps[c]
<1> DEFINE S == {next_edge_ps[c] : c \in Clocks}
<1>1. S \subseteq Nat /\ S # {}
  BY HalfType DEF TypeOK
<1>2. Min(S) \in S /\ \A y \in S : Min(S) <= y
  <2> HIDE DEF S
  <2> QED
    BY Zenon, <1>1, MinNat
<1> QED
  BY Zenon, <1>1, <1>2 DEF NextEdge

\* What one instant of eval_clocks_until does, in terms of the time it reaches.
LEMMA InstantEffect ==
  ASSUME IInv, EvalInstant
  PROVE  /\ now_ps' \in Nat /\ now_ps < now_ps' /\ now_ps' <= target
         /\ \A c \in Clocks : now_ps' <= next_edge_ps[c]
         /\ now_ps' = target \/ \E c \in Clocks : now_ps' = next_edge_ps[c]
         /\ pc = "eval" /\ ~ fatal
         /\ level' =
              [c \in Clocks |-> IF next_edge_ps[c] = now_ps' THEN 1 - level[c] ELSE level[c]]
         /\ next_edge_ps' =
              [c \in Clocks |->
                 next_edge_ps[c] + IF next_edge_ps[c] = now_ps' THEN Half[c] ELSE 0]
         /\ rising_count' =
              [c \in Clocks |->
                 rising_count[c]
                   + IF next_edge_ps[c] = now_ps' /\ level[c] = 0 THEN 1 ELSE 0]
         /\ cycle_count' =
              cycle_count + IF next_edge_ps[1] = now_ps' /\ level[1] = 0 THEN 1 ELSE 0
         /\ UNCHANGED <<pc, boot, done, sleep, wait, target, before, goal>>
<1>1. now_ps' = Instant(target)
  BY Zenon DEF EvalInstant
<1>2. /\ now_ps' \in Nat /\ now_ps < now_ps' /\ now_ps' <= target
      /\ \A c \in Clocks : now_ps' <= next_edge_ps[c]
      /\ now_ps' = target \/ \E c \in Clocks : now_ps' = next_edge_ps[c]
  BY Zenon, <1>1, InstantFacts DEF IInv, EvalInstant, Running
<1> QED
  BY Zenon, <1>1, <1>2, HalfType DEF EvalInstant, Edges, Running, call

\* One instant of eval_clocks_until preserves the invariant: the rising edge of
\* the primary clock moves from ahead to counted when its time comes.
LEMMA EvalInstantStep == IInv /\ EvalInstant => IInv'
<1> SUFFICES ASSUME IInv, EvalInstant PROVE IInv'
  OBVIOUS
<1> DEFINE t == now_ps'
<1>1. /\ t \in Nat /\ now_ps < t /\ t <= target
      /\ \A c \in Clocks : t <= next_edge_ps[c]
  BY Zenon, InstantEffect
<1>2. /\ pc = "eval" /\ now_ps' = t /\ ~ fatal
      /\ level' = [c \in Clocks |-> IF next_edge_ps[c] = t THEN 1 - level[c] ELSE level[c]]
      /\ next_edge_ps' =
           [c \in Clocks |-> next_edge_ps[c] + IF next_edge_ps[c] = t THEN Half[c] ELSE 0]
      /\ rising_count' =
           [c \in Clocks |->
              rising_count[c] + IF next_edge_ps[c] = t /\ level[c] = 0 THEN 1 ELSE 0]
      /\ cycle_count' =
           cycle_count + IF next_edge_ps[1] = t /\ level[1] = 0 THEN 1 ELSE 0
      /\ UNCHANGED <<pc, boot, done, sleep, wait, target, before, goal>>
  BY Zenon, InstantEffect
<1>3. fatal' \in BOOLEAN /\ redumped' \in BOOLEAN
  <2>1. fatal' \in BOOLEAN
    BY Zenon DEF EvalInstant
  <2>2. redumped' \in BOOLEAN
    BY Zenon DEF EvalInstant, Dump
  <2> QED
    BY Zenon, <2>1, <2>2
<1>4. fatal' => next_edge_ps[1] = t /\ level[1] = 0
  BY Zenon, <1>3 DEF EvalInstant, Edges
<1>5. dumped' = t
  BY Zenon DEF EvalInstant, Dump
<1> HIDE DEF t
<1>6. TypeOK'
  <2>1. level' \in [Clocks -> {0, 1}]
    BY <1>2 DEF IInv, TypeOK
  <2>2. next_edge_ps' \in [Clocks -> Nat] /\ rising_count' \in [Clocks -> Nat]
    BY <1>2, HalfType DEF IInv, TypeOK
  <2> QED
    BY <1>1, <1>2, <1>3, <1>5, <2>1, <2>2 DEF IInv, TypeOK
<1>7. Control'
  BY Zenon, <1>2 DEF IInv, Control, NoWait
<1>8. Ahead'
  <2> SUFFICES ASSUME NEW c \in Clocks
               PROVE  now_ps' < next_edge_ps'[c] /\ next_edge_ps'[c] <= now_ps' + Half[c]
    BY Zenon DEF Ahead
  <2>1. next_edge_ps[c] \in Nat /\ now_ps \in Nat /\ Half[c] \in Nat \ {0}
    BY Zenon, HalfType DEF IInv, TypeOK
  <2>2. t <= next_edge_ps[c] /\ next_edge_ps[c] <= now_ps + Half[c]
    BY Zenon, <1>1 DEF IInv, Ahead
  <2>3. next_edge_ps'[c] = next_edge_ps[c] + IF next_edge_ps[c] = t THEN Half[c] ELSE 0
    BY Zenon, <1>2
  <2> QED
    BY <1>1, <1>2, <2>1, <2>2, <2>3
<1>9. InWindow'
  <2>1. CASE next_edge_ps[1] = t /\ level[1] = 0
    BY <2>1, <1>1, <1>2, HalfType DEF IInv, TypeOK, Ahead, InWindow, NextRise
  <2>2. CASE ~ (next_edge_ps[1] = t /\ level[1] = 0)
    BY <2>2, <1>1, <1>2, <1>3, <1>4, HalfType DEF IInv, TypeOK, Ahead, InWindow, NextRise
  <2> QED
    BY Zenon, <2>1, <2>2
<1> QED
  BY Zenon, <1>6, <1>7, <1>8, <1>9 DEF IInv

\* The wait that is none.
LEMMA NoWaitType ==
  NoWait \in [kind : Kinds, clock : Clocks, left : Nat, hook : BOOLEAN] /\ NoWait.kind = "loop"
  BY Zenon, HalfType DEF NoWait, Kinds

\* The outcomes of a wait: its successor runs, or the body is Done.
LEMMA Outcome ==
  Succeed \/ Abort \/ Interrupted =>
     /\ wait' = NoWait
     /\ \/ pc' = "segment" /\ done' = done
        \/ pc' \in {"settle", "checkers"} /\ done' = TRUE
  BY Zenon DEF Succeed, Abort, Interrupted, Yield

\* A step that leaves the clocks alone leaves every next edge ahead.
LEMMA QuietAhead == Ahead /\ UNCHANGED clocks => Ahead'
  BY Zenon DEF Ahead, clocks

\* A window that starts now contains the next rise, not yet counted.
LEMMA WindowStart ==
  ASSUME IInv, ~ fatal, UNCHANGED clocks, fatal' = fatal,
         target' = Window, before' = cycle_count
  PROVE  InWindow'
  BY HalfType DEF IInv, TypeOK, Ahead, InWindow, NextRise, Window, clocks

\* Suspend preserves the invariant.
LEMMA SuspendStep == IInv /\ Suspend => IInv'
<1> SUFFICES ASSUME IInv, Suspend PROVE IInv'
  OBVIOUS
<1> USE DEF Suspend, Yield, NoWait, clocks, call, wave
<1>1. fatal' \in BOOLEAN /\ boot' \in BOOLEAN /\ done' \in BOOLEAN /\ redumped' \in BOOLEAN
  BY Zenon DEF IInv, TypeOK
<1>2. TypeOK'
  BY <1>1, HalfType, BoundsAssumption DEF IInv, TypeOK, Control, Kinds
<1>3. Control'
  BY <1>1 DEF IInv, TypeOK, Control
<1>4. Ahead'
  BY Zenon, QuietAhead DEF IInv
<1>5. InWindow'
  BY Zenon, <1>1 DEF IInv, InWindow, NextRise
<1> QED
  BY Zenon, <1>2, <1>3, <1>4, <1>5 DEF IInv

\* Finish preserves the invariant.
LEMMA FinishStep == IInv /\ Finish => IInv'
<1> SUFFICES ASSUME IInv, Finish PROVE IInv'
  OBVIOUS
<1> USE DEF Finish, Yield, NoWait, clocks, call, wave
<1>1. fatal' \in BOOLEAN /\ boot' \in BOOLEAN /\ done' \in BOOLEAN /\ redumped' \in BOOLEAN
  BY Zenon DEF IInv, TypeOK
<1>2. TypeOK'
  BY Zenon, <1>1, HalfType, BoundsAssumption DEF IInv, TypeOK, Control, Kinds
<1>3. Control'
  BY <1>1 DEF IInv, TypeOK, Control
<1>4. Ahead'
  BY Zenon, QuietAhead DEF IInv
<1>5. InWindow'
  BY Zenon, <1>1 DEF IInv, InWindow, NextRise
<1> QED
  BY Zenon, <1>2, <1>3, <1>4, <1>5 DEF IInv

\* RaiseFatal preserves the invariant.
LEMMA RaiseFatalStep == IInv /\ RaiseFatal => IInv'
<1> SUFFICES ASSUME IInv, RaiseFatal PROVE IInv'
  OBVIOUS
<1> USE DEF RaiseFatal, NoWait, clocks, call, wave
<1>1. fatal' \in BOOLEAN /\ boot' \in BOOLEAN /\ done' \in BOOLEAN /\ redumped' \in BOOLEAN
  BY Zenon DEF IInv, TypeOK
<1>2. TypeOK'
  BY Zenon, <1>1, HalfType, BoundsAssumption DEF IInv, TypeOK, Control, Kinds
<1>3. Control'
  BY Zenon, <1>1 DEF IInv, TypeOK, Control
<1>4. Ahead'
  BY Zenon, QuietAhead DEF IInv
<1>5. InWindow'
  BY Zenon, <1>1 DEF IInv, InWindow, NextRise
<1> QED
  BY Zenon, <1>2, <1>3, <1>4, <1>5 DEF IInv

\* StartWall preserves the invariant.
LEMMA StartWallStep == IInv /\ StartWall => IInv'
<1> SUFFICES ASSUME IInv, StartWall PROVE IInv'
  OBVIOUS
<1> USE DEF clocks, wave
<1>0. PICK ps \in 1 .. MaxWait, hook \in BOOLEAN :
        IF fatal /\ ~ hook
        THEN Abort /\ UNCHANGED <<target, before, goal>>
        ELSE /\ Call([NoWait EXCEPT !.kind = "wall", !.hook = hook], now_ps + ps, 0)
             /\ goal' = now_ps + ps
             /\ UNCHANGED done
  BY Zenon DEF StartWall
<1>1. UNCHANGED <<clocks, fatal, boot, sleep, wave>>
  BY Zenon DEF StartWall
<1>2. CASE fatal /\ ~ hook
  <2>1. /\ wait' = NoWait /\ done' = TRUE /\ pc' \in {"settle", "checkers"}
        /\ UNCHANGED <<target, before, goal>>
    BY Zenon, <1>0, <1>2 DEF Abort, Yield
  <2>2. TypeOK' /\ Control' /\ InWindow'
    BY Zenon, <1>1, <2>1, NoWaitType DEF IInv, TypeOK, Control, InWindow
  <2> QED
    BY Zenon, <1>1, <2>2, QuietAhead DEF IInv
<1>3. CASE ~ (fatal /\ ~ hook)
  <2>1. /\ wait' = [NoWait EXCEPT !.kind = "wall", !.hook = hook]
        /\ target' = now_ps + ps /\ before' = 0 /\ goal' = now_ps + ps
        /\ pc' = "eval" /\ done' = done
    BY Zenon, <1>0, <1>3 DEF Call
  <2>2. /\ wait' \in [kind : Kinds, clock : Clocks, left : Nat, hook : BOOLEAN]
        /\ wait'.kind = "wall"
    BY Zenon, <2>1, NoWaitType DEF Kinds
  <2>3. TypeOK' /\ Control' /\ InWindow'
    BY <1>1, <2>1, <2>2, BoundsAssumption DEF IInv, TypeOK, Control, InWindow
  <2> QED
    BY Zenon, <1>1, <2>3, QuietAhead DEF IInv
<1> QED
  BY SMTT(30), <1>2, <1>3

\* WallEnd preserves the invariant.
LEMMA WallEndStep == IInv /\ WallEnd => IInv'
<1> SUFFICES ASSUME IInv, WallEnd PROVE IInv'
  OBVIOUS
<1> USE DEF clocks, wave
<1>1. UNCHANGED <<clocks, fatal, boot, sleep, target, before, goal, wave>>
  BY Zenon DEF WallEnd
<1>2. /\ wait' = NoWait
      /\ \/ pc' = "segment" /\ done' = done
         \/ pc' \in {"settle", "checkers"} /\ done' = TRUE
  BY Zenon, Outcome DEF WallEnd
<1>3. TypeOK' /\ Control' /\ InWindow'
  BY Zenon, <1>1, <1>2, NoWaitType DEF IInv, TypeOK, Control, InWindow
<1> QED
  BY Zenon, <1>1, <1>3, QuietAhead DEF IInv

\* StartSync preserves the invariant.
LEMMA StartSyncStep == IInv /\ StartSync => IInv'
<1> SUFFICES ASSUME IInv, StartSync PROVE IInv'
  OBVIOUS
<1> USE DEF clocks, wave
<1>1. UNCHANGED <<clocks, fatal, boot, done, sleep, target, before, wave>> /\ pc' = "wait"
  BY Zenon DEF StartSync
<1>2. PICK kind \in {"sync", "poll"}, n \in 1 .. MaxWait, hook \in BOOLEAN :
        /\ wait' = [NoWait EXCEPT !.kind = kind, !.left = n, !.hook = hook]
        /\ goal' = cycle_count + n
  BY Zenon DEF StartSync
<1>3. /\ wait' \in [kind : Kinds, clock : Clocks, left : Nat, hook : BOOLEAN]
      /\ wait'.kind \in {"sync", "poll"}
  <2>1. wait' = [kind |-> kind, clock |-> 1, left |-> n, hook |-> hook]
    BY Zenon, <1>2 DEF NoWait
  <2> QED
    BY <2>1, HalfType, BoundsAssumption DEF Kinds
<1>4. TypeOK' /\ Control' /\ InWindow'
  BY <1>1, <1>2, <1>3, BoundsAssumption DEF IInv, TypeOK, Control, InWindow
<1> QED
  BY Zenon, <1>1, <1>4, QuietAhead DEF IInv

\* SyncTicked preserves the invariant.
LEMMA SyncTickedStep == IInv /\ SyncTicked => IInv'
<1> SUFFICES ASSUME IInv, SyncTicked PROVE IInv'
  OBVIOUS
<1> USE DEF SyncTicked, NoWait, clocks, call, wave
<1>1. fatal' \in BOOLEAN /\ boot' \in BOOLEAN /\ done' \in BOOLEAN /\ redumped' \in BOOLEAN
  BY Zenon DEF IInv, TypeOK
<1>2. TypeOK'
  BY <1>1, HalfType, BoundsAssumption DEF IInv, TypeOK, Control, Kinds
<1>3. Control'
  BY Zenon, <1>1 DEF IInv, TypeOK, Control
<1>4. Ahead'
  BY Zenon, QuietAhead DEF IInv
<1>5. InWindow'
  BY Zenon, <1>1 DEF IInv, InWindow, NextRise
<1> QED
  BY Zenon, <1>2, <1>3, <1>4, <1>5 DEF IInv

\* StartQualified preserves the invariant.
LEMMA StartQualifiedStep == IInv /\ StartQualified => IInv'
<1> SUFFICES ASSUME IInv, StartQualified PROVE IInv'
  OBVIOUS
<1> USE DEF StartQualified, NoWait, clocks, call, wave
<1>1. fatal' \in BOOLEAN /\ boot' \in BOOLEAN /\ done' \in BOOLEAN /\ redumped' \in BOOLEAN
  BY Zenon DEF IInv, TypeOK
<1>2. TypeOK'
  BY <1>1, HalfType, BoundsAssumption DEF IInv, TypeOK, Control, Kinds
<1>3. Control'
  BY <1>1 DEF IInv, TypeOK, Control
<1>4. Ahead'
  BY Zenon, QuietAhead DEF IInv
<1>5. InWindow'
  BY Zenon, <1>1 DEF IInv, InWindow, NextRise
<1> QED
  BY Zenon, <1>2, <1>3, <1>4, <1>5 DEF IInv

\* QualifiedTurn preserves the invariant.
LEMMA QualifiedTurnStep == IInv /\ QualifiedTurn => IInv'
<1> SUFFICES ASSUME IInv, QualifiedTurn PROVE IInv'
  OBVIOUS
<1> USE DEF QualifiedTurn, NoWait, clocks, call, wave
<1>1. fatal' \in BOOLEAN /\ boot' \in BOOLEAN /\ done' \in BOOLEAN /\ redumped' \in BOOLEAN
  BY Zenon DEF IInv, TypeOK
<1>2. TypeOK'
  BY <1>1, HalfType, BoundsAssumption DEF IInv, TypeOK, Control, Kinds
<1>3. Control'
  BY Zenon, <1>1 DEF IInv, TypeOK, Control
<1>4. Ahead'
  BY Zenon, QuietAhead DEF IInv
<1>5. InWindow'
  BY Zenon, <1>1 DEF IInv, InWindow, NextRise
<1> QED
  BY Zenon, <1>2, <1>3, <1>4, <1>5 DEF IInv

\* Settle preserves the invariant.
LEMMA SettleStep == IInv /\ Settle => IInv'
<1> SUFFICES ASSUME IInv, Settle PROVE IInv'
  OBVIOUS
<1> USE DEF Settle, Dump, NoWait, clocks, call, wave
<1>1. fatal' \in BOOLEAN /\ boot' \in BOOLEAN /\ done' \in BOOLEAN /\ redumped' \in BOOLEAN
  BY Zenon DEF IInv, TypeOK
<1>2. TypeOK'
  BY <1>1, HalfType, BoundsAssumption DEF IInv, TypeOK, Control, Kinds
<1>3. Control'
  BY Zenon, <1>1 DEF IInv, TypeOK, Control
<1>4. Ahead'
  BY Zenon, QuietAhead DEF IInv
<1>5. InWindow'
  BY Zenon, <1>1 DEF IInv, InWindow, NextRise
<1> QED
  BY Zenon, <1>2, <1>3, <1>4, <1>5 DEF IInv

\* LoopWindowEnd preserves the invariant.
LEMMA LoopWindowEndStep == IInv /\ LoopWindowEnd => IInv'
<1> SUFFICES ASSUME IInv, LoopWindowEnd PROVE IInv'
  OBVIOUS
<1> USE DEF LoopWindowEnd, NoWait, clocks, call, wave
<1>1. fatal' \in BOOLEAN /\ boot' \in BOOLEAN /\ done' \in BOOLEAN /\ redumped' \in BOOLEAN
  BY Zenon DEF IInv, TypeOK
<1>2. TypeOK'
  BY Zenon, <1>1, HalfType, BoundsAssumption DEF IInv, TypeOK, Control, Kinds
<1>3. Control'
  BY Zenon, <1>1 DEF IInv, TypeOK, Control
<1>4. Ahead'
  BY Zenon, QuietAhead DEF IInv
<1>5. InWindow'
  BY Zenon, <1>1 DEF IInv, InWindow, NextRise
<1> QED
  BY Zenon, <1>2, <1>3, <1>4, <1>5 DEF IInv

\* SchedTick preserves the invariant.
LEMMA SchedTickStep == IInv /\ SchedTick => IInv'
<1> SUFFICES ASSUME IInv, SchedTick PROVE IInv'
  OBVIOUS
<1> USE DEF SchedTick, NoWait, clocks, call, wave
<1>1. fatal' \in BOOLEAN /\ boot' \in BOOLEAN /\ done' \in BOOLEAN /\ redumped' \in BOOLEAN
  BY Zenon DEF IInv, TypeOK
<1>2. TypeOK'
  BY <1>1, HalfType, BoundsAssumption DEF IInv, TypeOK, Control, Kinds
<1>3. Control'
  BY <1>1 DEF IInv, TypeOK, Control
<1>4. Ahead'
  BY Zenon, QuietAhead DEF IInv
<1>5. InWindow'
  BY Zenon, <1>1 DEF IInv, InWindow, NextRise
<1> QED
  BY Zenon, <1>2, <1>3, <1>4, <1>5 DEF IInv

\* Checkers preserves the invariant.
LEMMA CheckersStep == IInv /\ Checkers => IInv'
<1> SUFFICES ASSUME IInv, Checkers PROVE IInv'
  OBVIOUS
<1> USE DEF clocks, wave
<1>1. UNCHANGED <<clocks, boot, sleep, target, before, goal, wave>> /\ pc = "checkers"
  BY Zenon DEF Checkers
<1>2. fatal' \in BOOLEAN
  BY Zenon DEF Checkers, IInv, TypeOK
<1>3. \/ wait.kind = "loop" /\ pc' = "top" /\ UNCHANGED <<wait, done>>
      \/ wait.kind \in {"sync", "poll"} /\ pc' = "wait" /\ UNCHANGED <<wait, done>>
      \/ wait' = NoWait /\ pc' = "segment" /\ done' = done
      \/ wait' = NoWait /\ pc' \in {"settle", "checkers"} /\ done' = TRUE
  BY Zenon, Outcome DEF Checkers, AfterQualifiedCheckers
<1>4. TypeOK'
  <2>1. wait' \in [kind : Kinds, clock : Clocks, left : Nat, hook : BOOLEAN]
    BY Zenon, <1>3, NoWaitType DEF IInv, TypeOK
  <2>2. done' \in BOOLEAN
    BY <1>3, Zenon DEF IInv, TypeOK
  <2> QED
    BY Zenon, <1>1, <1>2, <1>3, <2>1, <2>2 DEF IInv, TypeOK
<1>5. Control'
  BY Zenon, <1>1, <1>3, <1>4, NoWaitType DEF IInv, TypeOK, Control
<1>6. InWindow'
  BY Zenon, <1>3 DEF InWindow
<1> QED
  BY Zenon, <1>1, <1>4, <1>5, <1>6, QuietAhead DEF IInv

\* Sync preserves the invariant: a tick starts a window.
LEMMA SyncStep == IInv /\ Sync => IInv'
<1> SUFFICES ASSUME IInv, Sync PROVE IInv'
  OBVIOUS
<1> USE DEF clocks, wave
<1>1. UNCHANGED <<clocks, fatal, boot, sleep, goal, wave>> /\ pc = "wait"
  BY Zenon DEF Sync
<1>2. CASE (Succeed \/ Interrupted) /\ UNCHANGED <<target, before>>
  <2>1. /\ wait' = NoWait
        /\ \/ pc' = "segment" /\ done' = done
           \/ pc' \in {"settle", "checkers"} /\ done' = TRUE
    BY Zenon, <1>2, Outcome
  <2>2. TypeOK' /\ Control' /\ InWindow'
    BY Zenon, <1>1, <1>2, <2>1, NoWaitType DEF IInv, TypeOK, Control, InWindow
  <2> QED
    BY Zenon, <1>1, <2>2, QuietAhead DEF IInv
<1>3. CASE /\ wait.kind \in {"sync", "poll"} /\ (wait.kind = "sync" => wait.left > 0)
           /\ ~ fatal /\ Call(wait, Window, cycle_count) /\ UNCHANGED done
  <2>1. InWindow'
    BY Zenon, <1>1, <1>3, WindowStart DEF Call
  <2>2. Window \in Nat
    BY HalfType DEF Window, IInv, TypeOK
  <2>3. TypeOK' /\ Control'
    BY Zenon, <1>1, <1>3, <2>2 DEF IInv, TypeOK, Control, Call
  <2> QED
    BY Zenon, <1>1, <2>1, <2>3, QuietAhead DEF IInv
<1> QED
  BY Zenon, <1>2, <1>3 DEF Sync

\* Qualified preserves the invariant.
LEMMA QualifiedStep == IInv /\ Qualified => IInv'
<1> SUFFICES ASSUME IInv, Qualified PROVE IInv'
  OBVIOUS
<1> USE DEF clocks, wave
<1>1. UNCHANGED <<clocks, fatal, boot, done, sleep, goal, wave>> /\ wait.kind = "qualified"
  BY Zenon DEF Qualified
<1>2. /\ wait' = wait
      /\ \/ pc' = "checkers" /\ UNCHANGED <<target, before>>
         \/ pc' = "eval" /\ target' = NextEdge /\ before' = rising_count[wait.clock]
  BY Zenon DEF Qualified, Call
<1>3. rising_count[wait.clock] \in Nat /\ NextEdge \in Nat
  BY Zenon, NextEdgeType DEF IInv, TypeOK
<1>4. TypeOK' /\ Control' /\ InWindow'
  BY Zenon, <1>1, <1>2, <1>3 DEF IInv, TypeOK, Control, InWindow
<1> QED
  BY Zenon, <1>1, <1>4, QuietAhead DEF IInv

\* Top preserves the invariant: a turn of the drive loop starts a window.
LEMMA TopStep == IInv /\ Top => IInv'
<1> SUFFICES ASSUME IInv, Top PROVE IInv'
  OBVIOUS
<1> USE DEF clocks, wave
<1>1. UNCHANGED <<clocks, fatal, boot, done, sleep, goal, wave>> /\ pc = "top"
  BY Zenon DEF Top
<1>2. CASE pc' = "over" /\ UNCHANGED <<wait, target, before>>
  <2>1. TypeOK' /\ Control' /\ InWindow'
    BY Zenon, <1>1, <1>2 DEF IInv, TypeOK, Control, InWindow
  <2> QED
    BY Zenon, <1>1, <2>1, QuietAhead DEF IInv
<1>3. CASE ~ done /\ ~ fatal /\ Call(NoWait, Window, cycle_count)
  <2>1. InWindow'
    BY Zenon, <1>1, <1>3, WindowStart DEF Call
  <2>2. Window \in Nat
    BY HalfType DEF Window, IInv, TypeOK
  <2>3. TypeOK' /\ Control'
    BY SMTT(30), <1>1, <1>3, <2>2, NoWaitType DEF IInv, TypeOK, Control, Call
  <2> QED
    BY Zenon, <1>1, <2>1, <2>3, QuietAhead DEF IInv
<1> QED
  BY Zenon, <1>2, <1>3 DEF Top

\* The invariant is inductive: the next edge of every clock is ahead and within
\* half a period, and a window holds one rising edge of the primary clock.
THEOREM Invariance == Spec => []IInv
<1>1. Init => IInv
  <2> SUFFICES ASSUME Init PROVE IInv
    OBVIOUS
  <2>1. fatal \in BOOLEAN /\ boot \in BOOLEAN /\ done \in BOOLEAN /\ redumped \in BOOLEAN
    BY Zenon DEF Init
  <2>2. TypeOK
    BY <2>1, HalfType, NoWaitType DEF Init, TypeOK
  <2>3. Control /\ Ahead /\ InWindow
    BY HalfType DEF Init, Control, Ahead, InWindow
  <2> QED
    BY Zenon, <2>2, <2>3 DEF IInv
<1>2. IInv /\ [Next]_vars => IInv'
  <2> SUFFICES ASSUME IInv, [Next]_vars PROVE IInv'
    OBVIOUS
  <2>1. CASE UNCHANGED vars
    BY <2>1 DEF vars, clocks, call, wave, IInv, TypeOK, Control, Ahead, InWindow, NextRise
  <2>2. CASE Segment
    BY Zenon, <2>2, SuspendStep, FinishStep, RaiseFatalStep, StartWallStep, StartSyncStep,
       StartQualifiedStep DEF Segment
  <2>3. CASE Step
    BY Zenon, <2>3, EvalInstantStep, WallEndStep, SyncStep, SyncTickedStep, QualifiedStep,
       QualifiedTurnStep, CheckersStep, SettleStep, TopStep, LoopWindowEndStep,
       SchedTickStep DEF Step
  <2> QED
    BY Zenon, <2>1, <2>2, <2>3 DEF Next, Over
<1> QED
  BY <1>1, <1>2, PTL DEF Spec

\* A window that has ended contains one rising edge of the primary clock.
LEMMA WindowEnd == IInv => OnePrimaryEdge
  BY HalfType DEF IInv, TypeOK, Ahead, InWindow, NextRise, OnePrimaryEdge, Running

\* One turn of the drive loop, and one tick(), is one cycle of the primary clock.
THEOREM OneCycle == Spec => []OnePrimaryEdge
  BY WindowEnd, Invariance, PTL

\* Once a fatal is raised, no step advances simulated time.
THEOREM FatalIsFinal == Spec => FatalStopsTime
<1>1. [Next]_vars => [fatal => now_ps' = now_ps]_vars
  <2> SUFFICES ASSUME Next, fatal PROVE now_ps' = now_ps
    OBVIOUS
  <2> USE DEF clocks, vars
  <2>1. CASE Segment
    BY Zenon, <2>1 DEF Segment, Suspend, Finish, RaiseFatal, StartWall, StartSync, StartQualified
  <2>2. CASE Step
    BY Zenon, <2>2 DEF Step, EvalInstant, Running, WallEnd, Sync, SyncTicked, Qualified,
                QualifiedTurn, Checkers, Settle, Top, LoopWindowEnd, SchedTick
  <2> QED
    BY Zenon, <2>1, <2>2 DEF Next, Over
<1> QED
  BY <1>1, PTL DEF Spec, FatalStopsTime

-----------------------------------------------------------------------------
\* Every clock is where its period puts it.

\* The quotient is the only k with k * h <= n < (k + 1) * h.
LEMMA DivUnique ==
  ASSUME NEW n \in Nat, NEW h \in Nat \ {0}, NEW k \in Nat, k * h <= n, n < (k + 1) * h
  PROVE  n \div h = k
<1> DEFINE q == n \div h
<1>1. q \in Nat /\ q * h <= n /\ n < (q + 1) * h
  OBVIOUS
<1>2. \A i, j \in Nat : i < j => (i + 1) * h <= j * h
  OBVIOUS
<1> HIDE DEF q
<1>3. ~ (q < k) /\ ~ (k < q)
  BY <1>1, <1>2
<1>4. q = k
  BY <1>1, <1>3
<1> QED
  BY <1>4 DEF q

\* An edge more: the level turns, and every second edge is a rising one.
LEMMA Alternation ==
  ASSUME NEW e \in Nat
  PROVE  /\ (e + 1) % 2 = 1 - (e % 2)
         /\ (e + 2) \div 2 = ((e + 1) \div 2) + IF e % 2 = 0 THEN 1 ELSE 0
  OBVIOUS

\* One clock whose next edge is at x, at a time t after n and not after x.
LEMMA OneClock ==
  ASSUME NEW n \in Nat, NEW h \in Nat \ {0}, NEW t \in Nat, NEW x,
         x = ((n \div h) + 1) * h, n < t, t <= x
  PROVE  /\ x = t => t \div h = (n \div h) + 1
         /\ x # t => t \div h = n \div h
<1> DEFINE e == n \div h
<1>1. e \in Nat /\ e * h <= n /\ x = (e + 1) * h
  OBVIOUS
<1> HIDE DEF e
<1>2. CASE x = t
  <2>1. (e + 1) * h <= t /\ t < ((e + 1) + 1) * h
    BY <1>1, <1>2
  <2>2. t \div h = e + 1
    BY <1>1, <2>1, DivUnique
  <2> QED
    BY <1>2, <2>2 DEF e
<1>3. CASE x # t
  <2>1. e * h <= t /\ t < (e + 1) * h
    BY <1>1, <1>3
  <2>2. t \div h = e
    BY <1>1, <2>1, DivUnique
  <2> QED
    BY <1>1, <1>3, <2>2 DEF e
<1> QED
  BY <1>2, <1>3

\* One instant takes every clock from its nominal place to its nominal place.
LEMMA NominalInstant == IInv /\ NominalClocks /\ EvalInstant => NominalClocks'
<1> SUFFICES ASSUME IInv, NominalClocks, EvalInstant, NEW c \in Clocks
             PROVE  LET edges == now_ps' \div Half[c]
                    IN  /\ next_edge_ps'[c] = (edges + 1) * Half[c]
                        /\ level'[c] = edges % 2
                        /\ rising_count'[c] = (edges + 1) \div 2
  BY Zenon DEF NominalClocks
<1> DEFINE e == now_ps \div Half[c]
           t == now_ps'
           hit == next_edge_ps[c] = t
<1>1. now_ps \in Nat /\ Half[c] \in Nat \ {0} /\ t \in Nat /\ now_ps < t /\ t <= next_edge_ps[c]
  BY Zenon, InstantEffect, HalfType DEF IInv, TypeOK
<1>2. /\ next_edge_ps[c] = (e + 1) * Half[c]
      /\ level[c] = e % 2
      /\ rising_count[c] = (e + 1) \div 2
  BY Zenon DEF NominalClocks
<1>3. e \in Nat
  BY <1>1
<1>4. /\ level'[c] = IF hit THEN 1 - level[c] ELSE level[c]
      /\ next_edge_ps'[c] = next_edge_ps[c] + IF hit THEN Half[c] ELSE 0
      /\ rising_count'[c] = rising_count[c] + IF hit /\ level[c] = 0 THEN 1 ELSE 0
  BY Zenon, InstantEffect
<1>5. /\ hit => t \div Half[c] = e + 1
      /\ ~ hit => t \div Half[c] = e
  <2>1. next_edge_ps[c] = (e + 1) * Half[c]
    BY Zenon, <1>2
  <2> QED
    BY Zenon, <1>1, <2>1, OneClock
<1> HIDE DEF e, t, hit
<1>6. CASE hit
  <2>1. t \div Half[c] = e + 1
    BY Zenon, <1>5, <1>6
  <2>2. level'[c] = (e + 1) % 2
    BY <1>2, <1>3, <1>4, <1>6, Alternation
  <2>3. next_edge_ps'[c] = ((e + 1) + 1) * Half[c]
    BY <1>1, <1>2, <1>3, <1>4, <1>6
  <2>4. rising_count'[c] = ((e + 1) + 1) \div 2
    BY <1>2, <1>3, <1>4, <1>6, Alternation
  <2> QED
    BY Zenon, <2>1, <2>2, <2>3, <2>4 DEF t
<1>7. CASE ~ hit
  <2>1. t \div Half[c] = e
    BY Zenon, <1>5, <1>7
  <2>2. /\ level'[c] = level[c] /\ rising_count'[c] = rising_count[c]
        /\ next_edge_ps'[c] = next_edge_ps[c]
    BY <1>1, <1>2, <1>3, <1>4, <1>7
  <2> QED
    BY Zenon, <1>2, <2>1, <2>2 DEF t
<1> QED
  BY Zenon, <1>6, <1>7

\* Only an instant of eval_clocks_until moves a clock.
LEMMA ClocksMove == [Next]_vars => EvalInstant \/ UNCHANGED clocks
<1> SUFFICES ASSUME [Next]_vars, ~ EvalInstant PROVE UNCHANGED clocks
  OBVIOUS
<1>1. CASE Segment
  BY Zenon, <1>1 DEF Segment, Suspend, Finish, RaiseFatal, StartWall, StartSync, StartQualified
<1>2. CASE Step
  BY Zenon, <1>2 DEF Step, WallEnd, Sync, SyncTicked, Qualified, QualifiedTurn, Checkers,
     Settle, Top, LoopWindowEnd, SchedTick
<1>3. CASE UNCHANGED vars
  BY Zenon, <1>3 DEF vars
<1> QED
  BY Zenon, <1>1, <1>2, <1>3 DEF Next, Over

\* Whatever mixture of windows and waits advances time, and however the edges of
\* the clocks coincide, every declared clock has had exactly the edges that its
\* half period gives it at now_ps.
THEOREM Nominal == Spec => []NominalClocks
<1>1. Init => NominalClocks
  <2> SUFFICES ASSUME Init, NEW c \in Clocks
               PROVE  LET edges == now_ps \div Half[c]
                      IN  /\ next_edge_ps[c] = (edges + 1) * Half[c]
                          /\ level[c] = edges % 2
                          /\ rising_count[c] = (edges + 1) \div 2
    BY Zenon DEF NominalClocks
  <2>1. /\ now_ps = 0 /\ next_edge_ps[c] = Half[c] /\ level[c] = 0 /\ rising_count[c] = 0
        /\ Half[c] \in Nat \ {0}
    BY Zenon, HalfType DEF Init
  <2>2. now_ps \div Half[c] = 0
    BY <2>1, DivUnique
  <2> QED
    BY <2>1, <2>2
<1>2. IInv /\ NominalClocks /\ [Next]_vars => NominalClocks'
  <2> SUFFICES ASSUME IInv, NominalClocks, [Next]_vars PROVE NominalClocks'
    OBVIOUS
  <2>1. CASE EvalInstant
    BY Zenon, <2>1, NominalInstant
  <2>2. CASE UNCHANGED clocks
    BY Zenon, <2>2 DEF clocks, NominalClocks
  <2> QED
    BY Zenon, <2>1, <2>2, ClocksMove
<1> QED
  BY <1>1, <1>2, Invariance, PTL DEF Spec

-----------------------------------------------------------------------------
\* The waits of the run coroutine end when they have elapsed.

\* Between waits there is nothing to track.
LEMMA NothingWaited == wait'.kind \in {"loop", "poll"} => Tracked'
  BY Zenon DEF Tracked, Sited, WallTracked, SyncTracked, QualifiedTracked

\* An outcome of a wait leaves no wait.
LEMMA OutcomeTracked == Succeed \/ Abort \/ Interrupted => Tracked'
  BY Zenon, Outcome, NoWaitType, NothingWaited

\* The steps between waits keep track.
LEMMA IdleTracked ==
  ASSUME IInv,
         Suspend \/ Finish \/ RaiseFatal \/ Settle \/ Top \/ LoopWindowEnd \/ SchedTick
  PROVE  Tracked'
<1>1. wait.kind = "loop"
  BY Zenon, NoWaitType
  DEF IInv, Control, Suspend, Finish, RaiseFatal, Settle, Top, LoopWindowEnd, SchedTick
<1>2. wait' = wait \/ wait' = NoWait
  BY Zenon DEF Suspend, Finish, RaiseFatal, Settle, Top, LoopWindowEnd, SchedTick, Call, call
<1> QED
  BY Zenon, <1>1, <1>2, NoWaitType, NothingWaited

\* A wall-clock wait starts a call that ends at its goal.
LEMMA StartWallTracked == IInv /\ StartWall => Tracked'
<1> SUFFICES ASSUME IInv, StartWall PROVE Tracked'
  OBVIOUS
<1>1. PICK ps \in 1 .. MaxWait, hook \in BOOLEAN :
        \/ Abort
        \/ /\ Call([NoWait EXCEPT !.kind = "wall", !.hook = hook], now_ps + ps, 0)
           /\ goal' = now_ps + ps
  BY Zenon DEF StartWall
<1>2. CASE Abort
  BY Zenon, <1>2, OutcomeTracked
<1>3. CASE /\ Call([NoWait EXCEPT !.kind = "wall", !.hook = hook], now_ps + ps, 0)
           /\ goal' = now_ps + ps
  <2>1. /\ wait'.kind = "wall" /\ pc' = "eval" /\ target' = goal' /\ target' = now_ps + ps
        /\ now_ps' = now_ps
    BY Zenon, <1>3 DEF Call, NoWait, StartWall, clocks
  <2>2. now_ps' <= target'
    BY <2>1, BoundsAssumption DEF IInv, TypeOK
  <2> QED
    BY Zenon, <2>1, <2>2 DEF Tracked, Sited, WallTracked, SyncTracked, QualifiedTracked
<1> QED
  BY Zenon, <1>1, <1>2, <1>3

\* A synchronous wait starts with all its cycles left.
LEMMA StartSyncTracked == IInv /\ StartSync => Tracked'
<1> SUFFICES ASSUME IInv, StartSync PROVE Tracked'
  OBVIOUS
<1>1. PICK kind \in {"sync", "poll"}, n \in 1 .. MaxWait, hook \in BOOLEAN :
        /\ wait' = [NoWait EXCEPT !.kind = kind, !.left = n, !.hook = hook]
        /\ goal' = cycle_count + n
  BY Zenon DEF StartSync
<1>2. /\ wait'.kind \in {"sync", "poll"} /\ wait'.left = n /\ goal' = cycle_count + n
      /\ pc' = "wait" /\ cycle_count' = cycle_count
  BY Zenon, <1>1 DEF NoWait, StartSync, clocks
<1>3. goal' = wait'.left + cycle_count'
  BY <1>2, BoundsAssumption DEF IInv, TypeOK
<1> QED
  BY Zenon, <1>2, <1>3 DEF Tracked, Sited, WallTracked, SyncTracked, QualifiedTracked

\* A wait on a clock starts with all its edges left, at least one.
LEMMA StartQualifiedTracked == IInv /\ StartQualified => Tracked'
<1> SUFFICES ASSUME IInv, StartQualified PROVE Tracked'
  OBVIOUS
<1>1. PICK c \in Clocks, n \in 1 .. MaxWait, hook \in BOOLEAN :
        /\ wait' = [kind |-> "qualified", clock |-> c, left |-> n, hook |-> hook]
        /\ goal' = rising_count[c] + n
  BY Zenon DEF StartQualified
<1>2. /\ wait'.kind = "qualified" /\ wait'.clock = c /\ wait'.left = n
      /\ goal' = rising_count'[c] + n /\ pc' = "wait"
  BY Zenon, <1>1 DEF StartQualified, clocks
<1>3. n # 0
  BY BoundsAssumption
<1> QED
  BY Zenon, <1>2, <1>3 DEF Tracked, Sited, WallTracked, SyncTracked, QualifiedTracked

\* A wall-clock wait leaves nothing to track.
LEMMA WallEndTracked == WallEnd => Tracked'
  BY Zenon, OutcomeTracked DEF WallEnd

\* A tick() counts from the cycle it starts in.
LEMMA SyncStepTracked == IInv /\ Tracked /\ Sync => Tracked'
<1> SUFFICES ASSUME IInv, Tracked, Sync PROVE Tracked'
  OBVIOUS
<1>1. CASE Succeed \/ Interrupted
  BY Zenon, <1>1, OutcomeTracked
<1>2. CASE Call(wait, Window, cycle_count)
  <2>1. /\ wait' = wait /\ pc' = "eval" /\ before' = cycle_count /\ goal' = goal
        /\ pc = "wait" /\ wait.kind \in {"sync", "poll"}
    BY Zenon, <1>2 DEF Call, Sync
  <2> QED
    BY Zenon, <2>1 DEF Tracked, Sited, WallTracked, SyncTracked, QualifiedTracked
<1> QED
  BY Zenon, <1>1, <1>2 DEF Sync

\* A tick() passes exactly one cycle.
LEMMA SyncTickedTracked == IInv /\ Tracked /\ SyncTicked => Tracked'
<1> SUFFICES ASSUME IInv, Tracked, SyncTicked PROVE Tracked'
  OBVIOUS
<1>1. CASE wait.kind = "poll"
  <2>1. wait'.kind = "poll"
    BY Zenon, <1>1 DEF SyncTicked, IInv, TypeOK
  <2> QED
    BY Zenon, <2>1, NothingWaited
<1>2. CASE wait.kind = "sync"
  <2>1. /\ wait'.kind = "sync" /\ wait'.left = wait.left - 1 /\ pc' = "checkers"
        /\ goal' = goal /\ cycle_count' = cycle_count /\ pc = "eval"
    BY Zenon, <1>2 DEF SyncTicked, IInv, TypeOK, clocks
  <2>2. cycle_count = before + 1
    BY Zenon, <1>2, WindowEnd DEF SyncTicked, OnePrimaryEdge
  <2>3. goal = wait.left + before
    BY Zenon, <1>2, <2>1 DEF Tracked, SyncTracked
  <2>4. wait.left \in Nat /\ before \in Nat
    BY Zenon DEF IInv, TypeOK
  <2>5. goal' = wait'.left + cycle_count'
    BY <2>1, <2>2, <2>3, <2>4
  <2> QED
    BY Zenon, <2>1, <2>5 DEF Tracked, Sited, WallTracked, SyncTracked, QualifiedTracked
<1> QED
  BY Zenon, <1>1, <1>2 DEF SyncTicked

\* A turn of a wait on a clock goes to the first edge of any clock, and the wait
\* goes to the checkers with edges left only after a fatal.
LEMMA QualifiedStepTracked == IInv /\ Tracked /\ Qualified => Tracked'
<1> SUFFICES ASSUME IInv, Tracked, Qualified PROVE Tracked'
  OBVIOUS
<1> DEFINE c == wait.clock
<1>1. /\ wait' = wait /\ wait.kind = "qualified" /\ goal' = goal /\ pc = "wait"
      /\ UNCHANGED <<fatal, now_ps, next_edge_ps, rising_count>>
  BY Zenon DEF Qualified, Call, clocks
<1>2. goal = rising_count[c] + wait.left /\ (wait.left = 0 => next_edge_ps[c] = now_ps + Half[c])
  BY Zenon, <1>1 DEF Tracked, QualifiedTracked
<1>3. CASE wait.left > 0 /\ ~ fatal
  <2>1. pc' = "eval" /\ target' = NextEdge /\ before' = rising_count[c]
    BY Zenon, <1>3 DEF Qualified, Call
  <2>2. \A d \in Clocks : target' <= next_edge_ps'[d]
    BY Zenon, <1>1, <2>1, NextEdgeType DEF IInv
  <2>3. goal' = before' + wait'.left /\ wait'.left > 0 /\ rising_count'[wait'.clock] = before'
    BY Zenon, <1>1, <1>2, <1>3, <2>1
  <2> QED
    BY Zenon, <1>1, <2>1, <2>2, <2>3
    DEF Tracked, Sited, WallTracked, SyncTracked, QualifiedTracked
<1>4. CASE ~ (wait.left > 0 /\ ~ fatal)
  <2>1. pc' = "checkers"
    BY Zenon, <1>4 DEF Qualified
  <2>2. wait'.left > 0 => fatal'
    BY Zenon, <1>1, <1>4
  <2> QED
    BY Zenon, <1>1, <1>2, <2>1, <2>2
    DEF Tracked, Sited, WallTracked, SyncTracked, QualifiedTracked
<1> QED
  BY Zenon, <1>3, <1>4

\* What a turn has seen is taken off what is left; nothing is left at an edge of
\* the waited-for clock only.
LEMMA QualifiedTurnTracked == IInv /\ Tracked /\ QualifiedTurn => Tracked'
<1> SUFFICES ASSUME IInv, Tracked, QualifiedTurn PROVE Tracked'
  OBVIOUS
<1> DEFINE c == wait.clock
           advanced == rising_count[c] - before
           atEdge == next_edge_ps[c] = now_ps + Half[c]
<1>1. /\ wait.kind = "qualified" /\ pc = "eval" /\ pc' = "wait"
      /\ UNCHANGED <<goal, now_ps, next_edge_ps, rising_count>>
  BY Zenon DEF QualifiedTurn, clocks
<1>2. /\ wait'.kind = "qualified" /\ wait'.clock = c
      /\ wait'.left = IF advanced >= wait.left THEN 0 ELSE wait.left - advanced
  BY Zenon, <1>1 DEF QualifiedTurn, IInv, TypeOK
<1>3. /\ goal = before + wait.left /\ wait.left > 0
      /\ rising_count[c] = before \/ (rising_count[c] = before + 1 /\ atEdge)
  BY Zenon, <1>1 DEF Tracked, QualifiedTracked
<1>4. wait.left \in Nat /\ before \in Nat
  BY Zenon DEF IInv, TypeOK
<1> HIDE DEF atEdge
<1>5. goal' = rising_count[c] + wait'.left /\ (wait'.left = 0 => atEdge)
  BY <1>1, <1>2, <1>3, <1>4
<1> QED
  BY Zenon, <1>1, <1>2, <1>5
  DEF atEdge, Tracked, Sited, WallTracked, SyncTracked, QualifiedTracked

\* The checkers leave a cycle wait where it is.
LEMMA CheckersTracked == IInv /\ Tracked /\ Checkers => Tracked'
<1> SUFFICES ASSUME IInv, Tracked, Checkers PROVE Tracked'
  OBVIOUS
<1>1. CASE wait.kind = "loop" /\ wait' = wait
  BY Zenon, <1>1, NothingWaited
<1>2. CASE wait.kind \in {"sync", "poll"} /\ pc' = "wait" /\ wait' = wait
  BY Zenon, <1>2
  DEF Checkers, clocks, Tracked, Sited, WallTracked, SyncTracked, QualifiedTracked
<1>3. CASE AfterQualifiedCheckers
  BY Zenon, <1>3, OutcomeTracked DEF AfterQualifiedCheckers
<1> QED
  BY Zenon, <1>1, <1>2, <1>3 DEF Checkers

\* One instant: a wall-clock wait stays within its goal, and a turn of a wait on
\* a clock ends at the instant.
LEMMA EvalInstantTracked == IInv /\ Tracked /\ EvalInstant => Tracked'
<1> SUFFICES ASSUME IInv, Tracked, EvalInstant PROVE Tracked'
  OBVIOUS
<1>1. /\ pc = "eval" /\ pc' = "eval" /\ now_ps' <= target /\ now_ps < now_ps'
      /\ UNCHANGED <<wait, target, before, goal>>
  BY Zenon, InstantEffect
<1>2. Sited' /\ WallTracked' /\ SyncTracked'
  BY Zenon, <1>1 DEF Tracked, Sited, WallTracked, SyncTracked
<1>3. ASSUME wait.kind = "qualified" PROVE QualifiedTracked'
  <2> DEFINE c == wait.clock
             hit == next_edge_ps[c] = now_ps' /\ level[c] = 0
  <2>1. now_ps < target /\ now_ps \in Nat /\ target \in Nat /\ before \in Nat /\ c \in Clocks
    BY Zenon DEF EvalInstant, Running, IInv, TypeOK
  <2>2. now_ps # target
    BY <2>1
  <2>3. /\ goal = before + wait.left /\ wait.left > 0 /\ rising_count[c] = before
        /\ \A d \in Clocks : target <= next_edge_ps[d]
    BY Zenon, <1>1, <1>3, <2>2 DEF Tracked, QualifiedTracked
  <2>4. now_ps' = target
    <3>1. now_ps' \in Nat /\ (now_ps' = target \/ \E d \in Clocks : now_ps' = next_edge_ps[d])
      BY Zenon, InstantEffect
    <3> QED
      BY <1>1, <2>1, <2>3, <3>1
  <2>5. /\ rising_count'[c] = rising_count[c] + IF hit THEN 1 ELSE 0
        /\ next_edge_ps'[c] =
             next_edge_ps[c] + IF next_edge_ps[c] = now_ps' THEN Half[c] ELSE 0
    BY Zenon, <2>1, InstantEffect
  <2>6. \/ rising_count'[c] = before
        \/ rising_count'[c] = before + 1 /\ next_edge_ps'[c] = now_ps' + Half[c]
    BY <2>1, <2>3, <2>5
  <2> QED
    BY Zenon, <1>1, <2>3, <2>4, <2>6 DEF QualifiedTracked
<1>4. wait.kind # "qualified" => QualifiedTracked'
  BY Zenon, <1>1 DEF QualifiedTracked
<1> QED
  BY Zenon, <1>2, <1>3, <1>4 DEF Tracked

\* A wait's goal stays what is left of it away, in every reachable state.
THEOREM Tracking == Spec => []Tracked
<1>1. Init => Tracked
  BY Zenon, NoWaitType DEF Init, Tracked, Sited, WallTracked, SyncTracked, QualifiedTracked
<1>2. IInv /\ Tracked /\ [Next]_vars => Tracked'
  <2> SUFFICES ASSUME IInv, Tracked, [Next]_vars PROVE Tracked'
    OBVIOUS
  <2>1. CASE UNCHANGED vars
    BY Zenon, <2>1
    DEF vars, clocks, call, Tracked, Sited, WallTracked, SyncTracked, QualifiedTracked
  <2>2. CASE Segment
    BY Zenon, <2>2, IdleTracked, StartWallTracked, StartSyncTracked, StartQualifiedTracked
    DEF Segment
  <2>3. CASE Step
    BY Zenon, <2>3, IdleTracked, EvalInstantTracked, WallEndTracked, SyncStepTracked,
       SyncTickedTracked, QualifiedStepTracked, QualifiedTurnTracked, CheckersTracked DEF Step
  <2> QED
    BY Zenon, <2>1, <2>2, <2>3 DEF Next, Over
<1> QED
  BY <1>1, <1>2, Invariance, PTL DEF Spec

\* What a wait owes, kind by kind.
LEMMA OwingCases ==
  /\ wait.kind = "wall" => (Owing <=> now_ps < goal)
  /\ wait.kind = "sync" => (Owing <=> cycle_count < goal)
  /\ wait.kind = "qualified" => (Owing <=> rising_count[wait.clock] < goal)
  BY DEF Owing

\* A wait ends in one of three places.
LEMMA WaitEnds ==
  ASSUME IInv, Tracked, Next, wait.kind \in {"wall", "sync", "qualified"},
         pc' = "segment" \/ done' # done
  PROVE  WallEnd \/ Sync \/ Checkers
<1>1. pc \in {"wait", "eval", "checkers"}
  BY Zenon DEF Tracked, Sited
<1>2. pc \notin {"segment", "settle", "top", "tick", "over"} /\ wait.kind # "loop"
  BY <1>1
<1>3. ~ Segment
  BY Zenon, <1>2
  DEF Segment, Suspend, Finish, RaiseFatal, StartWall, StartSync, StartQualified
<1>4. ~ (Settle \/ Top \/ SchedTick \/ LoopWindowEnd \/ Over)
  BY Zenon, <1>2 DEF Settle, Top, SchedTick, LoopWindowEnd, Over
<1>5. EvalInstant => pc' = "eval" /\ done' = done
  BY Zenon, InstantEffect
<1>6. SyncTicked \/ Qualified \/ QualifiedTurn =>
        pc' \in {"checkers", "eval", "wait"} /\ done' = done
  BY Zenon DEF SyncTicked, Qualified, QualifiedTurn, Call
<1>7. Step
  BY Zenon, <1>3, <1>4 DEF Next
<1>8. ~ EvalInstant /\ ~ (SyncTicked \/ Qualified \/ QualifiedTurn)
  BY <1>5, <1>6
<1> QED
  BY Zenon, <1>4, <1>7, <1>8 DEF Step

\* What the two outcomes of a wait do to the body.
LEMMA Outcomes ==
  /\ Succeed => pc' = "segment" /\ done' = done
  /\ Interrupted => \/ wait.hook /\ pc' = "segment" /\ done' = done
                    \/ ~ wait.hook /\ pc' # "segment"
  BY Zenon DEF Succeed, Interrupted, Abort, Yield

\* The end of a wall-clock wait.
LEMMA WallEnds ==
  ASSUME IInv, Tracked, WallEnd
  PROVE  /\ wait.kind = "wall"
         /\ \/ Succeed /\ now_ps = goal
            \/ Interrupted /\ now_ps < goal /\ fatal'
<1>1. /\ wait.kind = "wall" /\ ~ Running /\ fatal' = fatal
      /\ IF fatal /\ now_ps < target THEN Interrupted ELSE Succeed
  BY Zenon DEF WallEnd
<1>2. target = goal /\ now_ps <= target
  BY Zenon, <1>1 DEF Tracked, WallTracked
<1>3. now_ps \in Nat /\ target \in Nat
  BY Zenon DEF IInv, TypeOK
<1>4. ~ (fatal /\ now_ps < target) => now_ps = goal
  BY <1>1, <1>2, <1>3 DEF Running
<1> QED
  BY Zenon, <1>1, <1>2, <1>4

\* The end of a synchronous wait for cycles.
LEMMA SyncEnds ==
  ASSUME IInv, Tracked, Sync, wait.kind = "sync"
  PROVE  \/ pc' = "eval" /\ done' = done
         \/ Succeed /\ cycle_count = goal
         \/ Interrupted /\ cycle_count < goal /\ fatal'
<1>1. /\ fatal' = fatal /\ pc = "wait"
      /\ \/ Succeed /\ wait.left = 0
         \/ Interrupted /\ fatal /\ wait.left > 0
         \/ pc' = "eval" /\ done' = done
  BY Zenon DEF Sync, Call
<1>2. goal = wait.left + cycle_count
  BY Zenon, <1>1 DEF Tracked, SyncTracked
<1>3. wait.left \in Nat /\ cycle_count \in Nat
  BY Zenon DEF IInv, TypeOK
<1>4. (wait.left = 0 => cycle_count = goal) /\ (wait.left > 0 => cycle_count < goal)
  BY <1>2, <1>3
<1> QED
  BY Zenon, <1>1, <1>4

\* The end of a wait on a named clock, after the checkers.
LEMMA QualifiedEnds ==
  ASSUME IInv, Tracked, Checkers, wait.kind = "qualified"
  PROVE  \/ /\ Succeed /\ rising_count[wait.clock] = goal
            /\ next_edge_ps[wait.clock] = now_ps + Half[wait.clock]
         \/ Interrupted /\ rising_count[wait.clock] < goal /\ fatal'
<1>1. pc = "checkers" /\ fatal' \in {fatal, TRUE} /\ AfterQualifiedCheckers
  BY Zenon DEF Checkers
<1>2. /\ goal = rising_count[wait.clock] + wait.left
      /\ wait.left = 0 => next_edge_ps[wait.clock] = now_ps + Half[wait.clock]
      /\ wait.left > 0 => fatal
  BY Zenon, <1>1 DEF Tracked, QualifiedTracked
<1>3. wait.left \in Nat /\ rising_count[wait.clock] \in Nat
  BY Zenon DEF IInv, TypeOK
<1>4. /\ ~ (wait.left > 0) => wait.left = 0 /\ rising_count[wait.clock] = goal
      /\ wait.left > 0 => rising_count[wait.clock] < goal
  BY <1>2, <1>3
<1>5. wait.left > 0 => fatal'
  BY Zenon, <1>1, <1>2
<1> QED
  BY Zenon, <1>1, <1>2, <1>4, <1>5 DEF AfterQualifiedCheckers

\* The statement after a wait runs exactly when the wait has elapsed, and a wait
\* that a fatal interrupts unwinds the body unless it is in a hook.
THEOREM Honoured == Spec => WaitsHonoured
<1> DEFINE A == wait.kind \in {"wall", "sync", "qualified"} =>
                  /\ pc' = "segment" => ~ Owing \/ (fatal' /\ wait.hook)
                  /\ done' # done => Owing /\ ~ wait.hook
<1>1. IInv /\ Tracked /\ [Next]_vars => [A]_vars
  <2> SUFFICES ASSUME IInv, Tracked, Next, wait.kind \in {"wall", "sync", "qualified"},
                      pc' = "segment" \/ done' # done
               PROVE  /\ pc' = "segment" => ~ Owing \/ (fatal' /\ wait.hook)
                      /\ done' # done => Owing /\ ~ wait.hook
    BY Zenon
  <2>1. CASE ~ Owing /\ Succeed
    BY Zenon, <2>1, Outcomes
  <2>2. CASE Owing /\ Interrupted /\ fatal'
    BY Zenon, <2>2, Outcomes
  <2>3. now_ps \in Nat /\ cycle_count \in Nat /\ rising_count[wait.clock] \in Nat
    BY Zenon DEF IInv, TypeOK
  <2>4. ~ (now_ps < now_ps) /\ ~ (cycle_count < cycle_count)
        /\ ~ (rising_count[wait.clock] < rising_count[wait.clock])
    BY <2>3
  <2>5. CASE WallEnd
    BY Zenon, <2>1, <2>2, <2>4, <2>5, WallEnds, OwingCases
  <2>6. CASE Sync
    <3>1. wait.kind = "sync"
      BY Zenon, <2>6 DEF Sync
    <3> QED
      BY Zenon, <2>1, <2>2, <2>4, <2>6, <3>1, SyncEnds, OwingCases
  <2>7. CASE Checkers /\ wait.kind = "qualified"
    BY Zenon, <2>1, <2>2, <2>4, <2>7, QualifiedEnds, OwingCases
  <2>8. CASE Checkers /\ wait.kind # "qualified"
    BY Zenon, <2>8 DEF Checkers
  <2> QED
    BY Zenon, <2>5, <2>6, <2>7, <2>8, WaitEnds
<1> QED
  BY <1>1, Invariance, Tracking, PTL DEF Spec, WaitsHonoured

\* Without a fatal, a wall-clock wait ends at its time, a synchronous wait in its
\* cycle, and a wait on a clock at the very edge it waits for.
THEOREM Exact == Spec => WaitsExact
<1> DEFINE A == pc' = "segment" /\ ~ fatal' =>
                  CASE wait.kind = "wall" -> now_ps = goal
                    [] wait.kind = "sync" -> cycle_count = goal
                    [] wait.kind = "qualified" ->
                         /\ rising_count[wait.clock] = goal
                         /\ next_edge_ps[wait.clock] = now_ps + Half[wait.clock]
                    [] OTHER -> TRUE
<1>1. IInv /\ Tracked /\ [Next]_vars => [A]_vars
  <2> SUFFICES ASSUME IInv, Tracked, Next, pc' = "segment", ~ fatal'
               PROVE  /\ wait.kind = "wall" => now_ps = goal
                      /\ wait.kind = "sync" => cycle_count = goal
                      /\ wait.kind = "qualified" =>
                           /\ rising_count[wait.clock] = goal
                           /\ next_edge_ps[wait.clock] = now_ps + Half[wait.clock]
    OBVIOUS
  <2>1. ASSUME wait.kind = "wall" PROVE now_ps = goal
    <3>1. WallEnd
      BY Zenon, <2>1, WaitEnds DEF Sync, IInv, Control, Checkers
    <3> QED
      BY Zenon, <3>1, WallEnds
  <2>2. ASSUME wait.kind = "sync" PROVE cycle_count = goal
    <3>1. Sync
      BY Zenon, <2>2, WaitEnds DEF WallEnd, Checkers
    <3> QED
      BY Zenon, <2>2, <3>1, SyncEnds
  <2>3. ASSUME wait.kind = "qualified"
        PROVE  /\ rising_count[wait.clock] = goal
               /\ next_edge_ps[wait.clock] = now_ps + Half[wait.clock]
    <3>1. Checkers
      BY Zenon, <2>3, WaitEnds DEF WallEnd, Sync
    <3> QED
      BY Zenon, <2>3, <3>1, QualifiedEnds
  <2> QED
    BY Zenon, <2>1, <2>2, <2>3
<1> QED
  BY <1>1, Invariance, Tracking, PTL DEF Spec, WaitsExact
=============================================================================
