------------------------- MODULE CosimBridgeProofs -------------------------
(* Proofs about the co-simulation bridge, for every half period and every    *)
(* number of settles and edges.                                              *)
EXTENDS CosimBridge, TLAPS

USE HalfPeriodAssumption, SettlesAssumption, EdgesAssumption

\* A request that is out is never negative: it cannot be taken for a verdict.
LEMMA RequestNotVerdict ==
  IInv /\ ~ turn_tb /\ ~ done /\ sim \in {"woken", "delay"} => request \in Nat
<1> SUFFICES ASSUME IInv, ~ turn_tb, ~ done, sim \in {"woken", "delay"}
             PROVE request \in Nat
  OBVIOUS
<1>1. tb \in {"asleep", "woken"}
  BY DEF IInv, TypeOK, TbStages, Control, TbRuns
<1> QED
  BY <1>1 DEF IInv, TypeOK, Timing, RC_SETTLE

\* CosimInit preserves the inductive invariant.
LEMMA CosimInitStep == IInv /\ CosimInit => IInv'
<1> SUFFICES ASSUME IInv, CosimInit PROVE IInv'
  OBVIOUS
<1> USE DEF CosimInit, handshake, clock, harness, RC_SETTLE, RC_DONE_PASS, RC_DONE_FAIL, KilledStatus
<1>1. turn_tb' \in BOOLEAN /\ started' \in BOOLEAN /\ done' \in BOOLEAN /\ body' \in BOOLEAN
  BY Zenon DEF IInv, TypeOK
<1>2. TypeOK'
  BY <1>1 DEF IInv, TypeOK, SimStages, TbStages, Timing
<1>3. Control'
  BY <1>2 DEF IInv, TypeOK, Control, Timing, TbRuns, HonestExit, DoneCode
<1>4. Timing'
  BY <1>2 DEF IInv, TypeOK, Control, Timing, TbRuns, YieldEnd
<1>5. Grid'
  BY <1>2 DEF IInv, TypeOK, Control, Timing, Grid, EdgesOnGrid
<1> QED
  BY <1>2, <1>3, <1>4, <1>5 DEF IInv

\* StepIdle preserves the inductive invariant.
LEMMA StepIdleStep == IInv /\ StepIdle => IInv'
<1> SUFFICES ASSUME IInv, StepIdle PROVE IInv'
  OBVIOUS
<1> USE DEF StepIdle, Returned, DoneCode, handshake, clock, harness, RC_SETTLE, RC_DONE_PASS, RC_DONE_FAIL, KilledStatus
<1>1. turn_tb' \in BOOLEAN /\ started' \in BOOLEAN /\ done' \in BOOLEAN /\ body' \in BOOLEAN
  BY Zenon DEF IInv, TypeOK
<1>2. TypeOK'
  BY <1>1 DEF IInv, TypeOK, SimStages, TbStages, Timing
<1>3. Control'
  BY <1>2 DEF IInv, TypeOK, Control, Timing, TbRuns, HonestExit, DoneCode
<1>4. Timing'
  BY <1>2 DEF IInv, TypeOK, Control, Timing, TbRuns, YieldEnd
<1>5. Grid'
  BY <1>2 DEF IInv, TypeOK, Control, Timing, Grid, EdgesOnGrid
<1> QED
  BY <1>2, <1>3, <1>4, <1>5 DEF IInv

\* Step preserves the inductive invariant.
LEMMA StepStep == IInv /\ Step => IInv'
<1> SUFFICES ASSUME IInv, Step PROVE IInv'
  OBVIOUS
<1> USE DEF Step, Notified, handshake, clock, harness, RC_SETTLE, RC_DONE_PASS, RC_DONE_FAIL, KilledStatus
<1>1. turn_tb' \in BOOLEAN /\ started' \in BOOLEAN /\ done' \in BOOLEAN /\ body' \in BOOLEAN
  BY Zenon DEF IInv, TypeOK
<1>2. TypeOK'
  BY <1>1 DEF IInv, TypeOK, SimStages, TbStages, Timing
<1>3. Control'
  BY <1>2 DEF IInv, TypeOK, Control, Timing, TbRuns, HonestExit, DoneCode
<1>4. Timing'
  BY <1>2 DEF IInv, TypeOK, Control, Timing, TbRuns, YieldEnd
<1>5. Grid'
  BY <1>2 DEF IInv, TypeOK, Control, Timing, Grid, EdgesOnGrid
<1> QED
  BY <1>2, <1>3, <1>4, <1>5 DEF IInv

\* SimWake preserves the inductive invariant.
LEMMA SimWakeStep == IInv /\ SimWake => IInv'
<1> SUFFICES ASSUME IInv, SimWake PROVE IInv'
  OBVIOUS
<1> USE DEF SimWake, Returned, handshake, clock, harness, RC_SETTLE, RC_DONE_PASS, RC_DONE_FAIL, KilledStatus
<1>0. ~ turn_tb /\ ~ done => request \in Nat
  BY RequestNotVerdict
<1>1. turn_tb' \in BOOLEAN /\ started' \in BOOLEAN /\ done' \in BOOLEAN /\ body' \in BOOLEAN
  BY Zenon DEF IInv, TypeOK
<1>2. TypeOK'
  BY <1>1 DEF IInv, TypeOK, SimStages, TbStages, Timing
<1>3. Control'
  BY <1>0, <1>2 DEF IInv, TypeOK, Control, Timing, TbRuns, HonestExit, DoneCode
<1>4. Timing'
  BY <1>2 DEF IInv, TypeOK, Control, Timing, TbRuns, YieldEnd
<1>5. Grid'
  BY <1>2 DEF IInv, TypeOK, Control, Timing, Grid, EdgesOnGrid
<1> QED
  BY <1>2, <1>3, <1>4, <1>5 DEF IInv

\* Join preserves the inductive invariant.
LEMMA JoinStep == IInv /\ Join => IInv'
<1> SUFFICES ASSUME IInv, Join PROVE IInv'
  OBVIOUS
<1> USE DEF Join, Returned, DoneCode, handshake, clock, harness, RC_SETTLE, RC_DONE_PASS, RC_DONE_FAIL, KilledStatus
<1>1. turn_tb' \in BOOLEAN /\ started' \in BOOLEAN /\ done' \in BOOLEAN /\ body' \in BOOLEAN
  BY Zenon DEF IInv, TypeOK
<1>2. TypeOK'
  BY <1>1 DEF IInv, TypeOK, SimStages, TbStages, Timing
<1>3. Control'
  BY <1>2 DEF IInv, TypeOK, Control, Timing, TbRuns, HonestExit, DoneCode
<1>4. Timing'
  BY <1>2 DEF IInv, TypeOK, Control, Timing, TbRuns, YieldEnd
<1>5. Grid'
  BY <1>2 DEF IInv, TypeOK, Control, Timing, Grid, EdgesOnGrid
<1> QED
  BY <1>2, <1>3, <1>4, <1>5 DEF IInv

\* Delay preserves the inductive invariant.
LEMMA DelayStep == IInv /\ Delay => IInv'
<1> SUFFICES ASSUME IInv, Delay PROVE IInv'
  OBVIOUS
<1> USE DEF Delay, handshake, clock, harness, RC_SETTLE, RC_DONE_PASS, RC_DONE_FAIL, KilledStatus
<1>0. rc \in Nat
  BY RequestNotVerdict DEF IInv, Control
<1>1. turn_tb' \in BOOLEAN /\ started' \in BOOLEAN /\ done' \in BOOLEAN /\ body' \in BOOLEAN
  BY Zenon DEF IInv, TypeOK
<1>2. TypeOK'
  BY <1>0, <1>1 DEF IInv, TypeOK, SimStages, TbStages, Timing
<1>3. Control'
  BY <1>0, <1>2 DEF IInv, TypeOK, Control, Timing, TbRuns, HonestExit, DoneCode
<1>4. Timing'
  BY <1>0, <1>2 DEF IInv, TypeOK, Control, Timing, TbRuns, YieldEnd
<1>5. Grid'
  BY <1>0, <1>2 DEF IInv, TypeOK, Control, Timing, TbRuns, YieldEnd, Grid, EdgesOnGrid
<1> QED
  BY <1>2, <1>3, <1>4, <1>5 DEF IInv

\* DutFinish preserves the inductive invariant.
LEMMA DutFinishStep == IInv /\ DutFinish => IInv'
<1> SUFFICES ASSUME IInv, DutFinish PROVE IInv'
  OBVIOUS
<1> USE DEF DutFinish, handshake, clock, harness, RC_SETTLE, RC_DONE_PASS, RC_DONE_FAIL, KilledStatus
<1>0. rc \in Nat
  BY RequestNotVerdict DEF IInv, Control
<1>1. turn_tb' \in BOOLEAN /\ started' \in BOOLEAN /\ done' \in BOOLEAN /\ body' \in BOOLEAN
  BY Zenon DEF IInv, TypeOK
<1>2. TypeOK'
  BY <1>0, <1>1 DEF IInv, TypeOK, SimStages, TbStages, Timing
<1>3. Control'
  BY <1>0, <1>2 DEF IInv, TypeOK, Control, Timing, TbRuns, HonestExit, DoneCode
<1>4. Timing'
  BY <1>0, <1>2 DEF IInv, TypeOK, Control, Timing, TbRuns, YieldEnd
<1>5. Grid'
  BY <1>0, <1>2 DEF IInv, TypeOK, Control, Timing, Grid, EdgesOnGrid
<1> QED
  BY <1>2, <1>3, <1>4, <1>5 DEF IInv

\* Shutdown preserves the inductive invariant.
LEMMA ShutdownStep == IInv /\ Shutdown => IInv'
<1> SUFFICES ASSUME IInv, Shutdown PROVE IInv'
  OBVIOUS
<1> USE DEF Shutdown, handshake, clock, harness, RC_SETTLE, RC_DONE_PASS, RC_DONE_FAIL, KilledStatus
<1>1. turn_tb' \in BOOLEAN /\ started' \in BOOLEAN /\ done' \in BOOLEAN /\ body' \in BOOLEAN
  BY Zenon DEF IInv, TypeOK
<1>2. TypeOK'
  BY <1>1 DEF IInv, TypeOK, SimStages, TbStages, Timing
<1>3. Control'
  BY <1>2 DEF IInv, TypeOK, Control, Timing, TbRuns, HonestExit, DoneCode
<1>4. Timing'
  BY <1>2 DEF IInv, TypeOK, Control, Timing, TbRuns, YieldEnd
<1>5. Grid'
  BY <1>2 DEF IInv, TypeOK, Control, Timing, Grid, EdgesOnGrid
<1> QED
  BY <1>2, <1>3, <1>4, <1>5 DEF IInv

\* SimSpurious preserves the inductive invariant.
LEMMA SimSpuriousStep == IInv /\ SimSpurious => IInv'
<1> SUFFICES ASSUME IInv, SimSpurious PROVE IInv'
  OBVIOUS
<1> USE DEF SimSpurious, handshake, clock, harness, RC_SETTLE, RC_DONE_PASS, RC_DONE_FAIL, KilledStatus
<1>1. turn_tb' \in BOOLEAN /\ started' \in BOOLEAN /\ done' \in BOOLEAN /\ body' \in BOOLEAN
  BY Zenon DEF IInv, TypeOK
<1>2. TypeOK'
  BY <1>1 DEF IInv, TypeOK, SimStages, TbStages, Timing
<1>3. Control'
  BY <1>2 DEF IInv, TypeOK, Control, Timing, TbRuns, HonestExit, DoneCode
<1>4. Timing'
  BY <1>2 DEF IInv, TypeOK, Control, Timing, TbRuns, YieldEnd
<1>5. Grid'
  BY <1>2 DEF IInv, TypeOK, Control, Timing, Grid, EdgesOnGrid
<1> QED
  BY <1>2, <1>3, <1>4, <1>5 DEF IInv

\* TbBoot preserves the inductive invariant.
LEMMA TbBootStep == IInv /\ TbBoot => IInv'
<1> SUFFICES ASSUME IInv, TbBoot PROVE IInv'
  OBVIOUS
<1> USE DEF TbBoot, handshake, clock, harness, RC_SETTLE, RC_DONE_PASS, RC_DONE_FAIL, KilledStatus
<1>1. turn_tb' \in BOOLEAN /\ started' \in BOOLEAN /\ done' \in BOOLEAN /\ body' \in BOOLEAN
  BY Zenon DEF IInv, TypeOK
<1>2. TypeOK'
  BY <1>1 DEF IInv, TypeOK, SimStages, TbStages, Timing
<1>3. Control'
  BY <1>2 DEF IInv, TypeOK, Control, Timing, TbRuns, HonestExit, DoneCode
<1>4. Timing'
  BY <1>2 DEF IInv, TypeOK, Control, Timing, TbRuns, YieldEnd
<1>5. Grid'
  BY <1>2 DEF IInv, TypeOK, Control, Timing, Grid, EdgesOnGrid
<1> QED
  BY <1>2, <1>3, <1>4, <1>5 DEF IInv

\* CallSettle preserves the inductive invariant.
LEMMA CallSettleStep == IInv /\ CallSettle => IInv'
<1> SUFFICES ASSUME IInv, CallSettle PROVE IInv'
  OBVIOUS
<1> USE DEF CallSettle, handshake, clock, harness, RC_SETTLE, RC_DONE_PASS, RC_DONE_FAIL, KilledStatus
<1>1. turn_tb' \in BOOLEAN /\ started' \in BOOLEAN /\ done' \in BOOLEAN /\ body' \in BOOLEAN
  BY Zenon DEF IInv, TypeOK
<1>2. TypeOK'
  BY <1>1 DEF IInv, TypeOK, SimStages, TbStages, Timing
<1>3. Control'
  BY <1>2 DEF IInv, TypeOK, Control, Timing, TbRuns, HonestExit, DoneCode
<1>4. Timing'
  BY <1>2 DEF IInv, TypeOK, Control, Timing, TbRuns, YieldEnd
<1>5. Grid'
  BY <1>2 DEF IInv, TypeOK, Control, Timing, Grid, EdgesOnGrid
<1> QED
  BY <1>2, <1>3, <1>4, <1>5 DEF IInv

\* CallEdge preserves the inductive invariant.
LEMMA CallEdgeStep == IInv /\ CallEdge => IInv'
<1> SUFFICES ASSUME IInv, CallEdge PROVE IInv'
  OBVIOUS
<1> USE DEF CallEdge, handshake, clock, harness, RC_SETTLE, RC_DONE_PASS, RC_DONE_FAIL, KilledStatus
<1>1. turn_tb' \in BOOLEAN /\ started' \in BOOLEAN /\ done' \in BOOLEAN /\ body' \in BOOLEAN
  BY Zenon DEF IInv, TypeOK
<1>2. TypeOK'
  BY <1>1 DEF IInv, TypeOK, SimStages, TbStages, Timing
<1>3. Control'
  BY <1>2 DEF IInv, TypeOK, Control, Timing, TbRuns, HonestExit, DoneCode
<1>4. Timing'
  BY <1>2 DEF IInv, TypeOK, Control, Timing, TbRuns, YieldEnd
<1>5. Grid'
  BY <1>2 DEF IInv, TypeOK, Control, Timing, TbRuns, YieldEnd, Grid, EdgesOnGrid
<1> QED
  BY <1>2, <1>3, <1>4, <1>5 DEF IInv

\* EdgeWrite preserves the inductive invariant.
LEMMA EdgeWriteStep == IInv /\ EdgeWrite => IInv'
<1> SUFFICES ASSUME IInv, EdgeWrite PROVE IInv'
  OBVIOUS
<1> USE DEF EdgeWrite, handshake, clock, harness, RC_SETTLE, RC_DONE_PASS, RC_DONE_FAIL, KilledStatus
<1>1. turn_tb' \in BOOLEAN /\ started' \in BOOLEAN /\ done' \in BOOLEAN /\ body' \in BOOLEAN
  BY Zenon DEF IInv, TypeOK
<1>2. TypeOK'
  BY <1>1 DEF IInv, TypeOK, SimStages, TbStages, Timing
<1>3. Control'
  BY <1>2 DEF IInv, TypeOK, Control, Timing, TbRuns, HonestExit, DoneCode
<1>4. Timing'
  BY <1>2 DEF IInv, TypeOK, Control, Timing, TbRuns, YieldEnd
<1>5. Grid'
  BY <1>2 DEF IInv, TypeOK, Control, Timing, Grid, EdgesOnGrid
<1> QED
  BY <1>2, <1>3, <1>4, <1>5 DEF IInv

\* TbYield preserves the inductive invariant.
LEMMA TbYieldStep == IInv /\ TbYield => IInv'
<1> SUFFICES ASSUME IInv, TbYield PROVE IInv'
  OBVIOUS
<1> USE DEF TbYield, Notified, handshake, clock, harness, RC_SETTLE, RC_DONE_PASS, RC_DONE_FAIL, KilledStatus
<1>1. turn_tb' \in BOOLEAN /\ started' \in BOOLEAN /\ done' \in BOOLEAN /\ body' \in BOOLEAN
  BY Zenon DEF IInv, TypeOK
<1>2. TypeOK'
  BY <1>1 DEF IInv, TypeOK, SimStages, TbStages, Timing
<1>3. Control'
  BY <1>2 DEF IInv, TypeOK, Control, Timing, TbRuns, HonestExit, DoneCode
<1>4. Timing'
  BY <1>2 DEF IInv, TypeOK, Control, Timing, TbRuns, YieldEnd
<1>5. Grid'
  BY <1>2 DEF IInv, TypeOK, Control, Timing, Grid, EdgesOnGrid
<1> QED
  BY <1>2, <1>3, <1>4, <1>5 DEF IInv

\* TbWake preserves the inductive invariant.
LEMMA TbWakeStep == IInv /\ TbWake => IInv'
<1> SUFFICES ASSUME IInv, TbWake PROVE IInv'
  OBVIOUS
<1> USE DEF TbWake, handshake, clock, harness, RC_SETTLE, RC_DONE_PASS, RC_DONE_FAIL, KilledStatus
<1>1. turn_tb' \in BOOLEAN /\ started' \in BOOLEAN /\ done' \in BOOLEAN /\ body' \in BOOLEAN
  BY Zenon DEF IInv, TypeOK
<1>2. TypeOK'
  BY <1>1 DEF IInv, TypeOK, SimStages, TbStages, Timing
<1>3. Control'
  BY <1>2 DEF IInv, TypeOK, Control, Timing, TbRuns, HonestExit, DoneCode
<1>4. Timing'
  BY <1>2 DEF IInv, TypeOK, Control, Timing, TbRuns, YieldEnd
<1>5. Grid'
  BY <1>2 DEF IInv, TypeOK, Control, Timing, TbRuns, YieldEnd, Grid, EdgesOnGrid
<1> QED
  BY <1>2, <1>3, <1>4, <1>5 DEF IInv

\* TbFinish preserves the inductive invariant.
LEMMA TbFinishStep == IInv /\ TbFinish => IInv'
<1> SUFFICES ASSUME IInv, TbFinish PROVE IInv'
  OBVIOUS
<1> USE DEF TbFinish, Notified, handshake, clock, harness, RC_SETTLE, RC_DONE_PASS, RC_DONE_FAIL, KilledStatus
<1>1. turn_tb' \in BOOLEAN /\ started' \in BOOLEAN /\ done' \in BOOLEAN /\ body' \in BOOLEAN
  BY Zenon DEF IInv, TypeOK
<1>2. TypeOK'
  BY <1>1 DEF IInv, TypeOK, SimStages, TbStages, Timing
<1>3. Control'
  BY <1>2 DEF IInv, TypeOK, Control, Timing, TbRuns, HonestExit, DoneCode
<1>4. Timing'
  BY <1>2 DEF IInv, TypeOK, Control, Timing, TbRuns, YieldEnd
<1>5. Grid'
  BY <1>2 DEF IInv, TypeOK, Control, Timing, Grid, EdgesOnGrid
<1> QED
  BY <1>2, <1>3, <1>4, <1>5 DEF IInv

\* TbGone preserves the inductive invariant.
LEMMA TbGoneStep == IInv /\ TbGone => IInv'
<1> SUFFICES ASSUME IInv, TbGone PROVE IInv'
  OBVIOUS
<1> USE DEF TbGone, handshake, clock, harness, RC_SETTLE, RC_DONE_PASS, RC_DONE_FAIL, KilledStatus
<1>1. turn_tb' \in BOOLEAN /\ started' \in BOOLEAN /\ done' \in BOOLEAN /\ body' \in BOOLEAN
  BY Zenon DEF IInv, TypeOK
<1>2. TypeOK'
  BY <1>1 DEF IInv, TypeOK, SimStages, TbStages, Timing
<1>3. Control'
  BY <1>2 DEF IInv, TypeOK, Control, Timing, TbRuns, HonestExit, DoneCode
<1>4. Timing'
  BY <1>2 DEF IInv, TypeOK, Control, Timing, TbRuns, YieldEnd
<1>5. Grid'
  BY <1>2 DEF IInv, TypeOK, Control, Timing, Grid, EdgesOnGrid
<1> QED
  BY <1>2, <1>3, <1>4, <1>5 DEF IInv

\* TbSpurious preserves the inductive invariant.
LEMMA TbSpuriousStep == IInv /\ TbSpurious => IInv'
<1> SUFFICES ASSUME IInv, TbSpurious PROVE IInv'
  OBVIOUS
<1> USE DEF TbSpurious, handshake, clock, harness, RC_SETTLE, RC_DONE_PASS, RC_DONE_FAIL, KilledStatus
<1>1. turn_tb' \in BOOLEAN /\ started' \in BOOLEAN /\ done' \in BOOLEAN /\ body' \in BOOLEAN
  BY Zenon DEF IInv, TypeOK
<1>2. TypeOK'
  BY <1>1 DEF IInv, TypeOK, SimStages, TbStages, Timing
<1>3. Control'
  BY <1>2 DEF IInv, TypeOK, Control, Timing, TbRuns, HonestExit, DoneCode
<1>4. Timing'
  BY <1>2 DEF IInv, TypeOK, Control, Timing, TbRuns, YieldEnd
<1>5. Grid'
  BY <1>2 DEF IInv, TypeOK, Control, Timing, Grid, EdgesOnGrid
<1> QED
  BY <1>2, <1>3, <1>4, <1>5 DEF IInv

\* The invariant is inductive: threads take turns, nobody sleeps through its
\* turn, and the bridge's clock follows the simulator's.
THEOREM Invariance == Spec => []IInv
<1>1. Init => IInv
  <2> SUFFICES ASSUME Init PROVE IInv
    OBVIOUS
  <2>1. turn_tb \in BOOLEAN /\ started \in BOOLEAN /\ done \in BOOLEAN /\ body \in BOOLEAN
    BY Zenon DEF Init
  <2>2. TypeOK
    BY <2>1 DEF Init, TypeOK, SimStages, TbStages, RC_SETTLE
  <2>3. Control
    BY DEF Init, Control, TbRuns, HonestExit
  <2>4. Timing /\ Grid
    BY DEF Init, Timing, Grid, EdgesOnGrid, TbRuns
  <2> QED
    BY <2>2, <2>3, <2>4 DEF IInv
<1>2. IInv /\ [Next]_vars => IInv'
  <2> SUFFICES ASSUME IInv, [Next]_vars PROVE IInv'
    OBVIOUS
  <2>1. CASE UNCHANGED vars
    BY <2>1 DEF vars, handshake, clock, harness, IInv, TypeOK, Control, Timing, Grid, EdgesOnGrid,
                TbRuns, HonestExit, DoneCode, YieldEnd
  <2>2. CASE SimStep
    BY <2>2, CosimInitStep, StepIdleStep, StepStep, SimWakeStep, JoinStep, DelayStep,
       DutFinishStep, ShutdownStep DEF SimStep
  <2>3. CASE TbStep
    BY <2>3, TbBootStep, CallSettleStep, CallEdgeStep, EdgeWriteStep, TbYieldStep,
       TbWakeStep, TbFinishStep, TbGoneStep DEF TbStep
  <2> QED
    BY <2>1, <2>2, <2>3, SimSpuriousStep, TbSpuriousStep DEF Next, Exited
<1> QED
  BY <1>1, <1>2, PTL DEF Spec

\* While the body runs, the simulator thread waits inside harc_cosim_step().
THEOREM Handshake == Spec => []StrictHandshake
<1>1. IInv => StrictHandshake
  BY DEF IInv, Control, StrictHandshake
<1> QED
  BY <1>1, Invariance, PTL

\* The body never sees a time other than the simulator's.
THEOREM ClocksAgree == Spec => []TimeAgrees
<1>1. IInv => TimeAgrees
  BY DEF IInv, Timing, TimeAgrees
<1> QED
  BY <1>1, Invariance, PTL

\* Clock edges are on the grid unless settles have used up the time to it.
THEOREM Edges == Spec => []EdgesOnGrid
<1>1. IInv => EdgesOnGrid
  BY DEF IInv, Grid
<1> QED
  BY <1>1, Invariance, PTL

\* An exit status of 0 means that the test ran to its end and passed.
THEOREM ExitStatus == Spec => []HonestExit
<1>1. IInv => HonestExit
  BY DEF IInv, Control
<1> QED
  BY <1>1, Invariance, PTL
=============================================================================
