---------------------------- MODULE CosimBridge ----------------------------
(***************************************************************************)
(* harc_rt::cosim::Bridge (runtime/harc_cosim_rt.h) between the simulator  *)
(* thread, which runs the master process of the generated HarcCosimTop     *)
(* harness, and the thread of the test body.  Both sides wait on one       *)
(* condition variable under one mutex; a critical section is one step, and *)
(* cv.wait is modelled with its wait set: a notified (or spuriously woken) *)
(* thread has to take the mutex again and test its predicate.              *)
(*                                                                         *)
(* simTime is the simulator's clock; now and nextEdge are the bridge's own *)
(* bookkeeping of it, in picoseconds.                                      *)
(***************************************************************************)
EXTENDS Integers

CONSTANTS
    HalfPeriod,   \* half_period_ps
    MaxSettles,   \* bound: settles between two clock edges
    MaxEdges      \* bound: clock edges of the test

ASSUME HalfPeriodAssumption == HalfPeriod \in Nat \ {0}
ASSUME SettlesAssumption == MaxSettles \in Nat
ASSUME EdgesAssumption == MaxEdges \in Nat

RC_SETTLE == 0
RC_DONE_PASS == -1
RC_DONE_FAIL == -2
KilledStatus == 97

VARIABLES
    sim,        \* where the simulator thread is
    tb,         \* where the thread of the test body is
    turn_tb, started, done, exit_code, request, body,   \* the bridge
    now_ps, next_edge_ps,                               \* its bookkeeping
    op,         \* what the body's current yield is part of
    settles,    \* history: settles since the last clock edge, its own included
    lastEdge,   \* history: when it was written
    rc,         \* what harc_cosim_step() returned last
    simTime,    \* the simulator's time
    status      \* exit status of the process, -1 while it runs

handshake == <<turn_tb, started, done, exit_code, request>>
clock == <<now_ps, next_edge_ps, op, settles, lastEdge>>
harness == <<rc, simTime, status>>
vars == <<sim, tb, handshake, body, clock, harness>>

SimStages == {"init", "call", "asleep", "woken", "join", "delay", "final", "exited"}
TbStages == {"none", "boot", "asleep", "woken", "body", "edge", "yield", "ending", "gone"}

TypeOK ==
    /\ sim \in SimStages /\ tb \in TbStages
    /\ turn_tb \in BOOLEAN /\ started \in BOOLEAN /\ done \in BOOLEAN /\ body \in BOOLEAN
    /\ exit_code \in {0, 1}
    /\ request \in Int /\ rc \in Int /\ status \in Int
    /\ now_ps \in Nat /\ next_edge_ps \in Nat /\ simTime \in Nat
    /\ op \in {"start", "settle", "edge"}
    /\ settles \in Nat /\ lastEdge \in Nat

Init ==
    /\ sim = "init" /\ tb = "none"
    /\ turn_tb = FALSE /\ started = FALSE /\ done = FALSE
    /\ exit_code = 1 /\ request = RC_SETTLE /\ body = FALSE
    /\ now_ps = 0 /\ next_edge_ps = 0 /\ op = "start"
    /\ settles = 0 /\ lastEdge = 0
    /\ rc = RC_SETTLE /\ simTime = 0 /\ status = -1

\* cv.notify_all() wakes the other side if it is in the wait set.
Notified(stage) == IF stage = "asleep" THEN "woken" ELSE stage

-----------------------------------------------------------------------------
\* The simulator thread.

\* harc_cosim_init(): without a matching test there is no body.
CosimInit ==
    /\ sim = "init"
    /\ body' \in BOOLEAN
    /\ sim' = "call"
    /\ UNCHANGED <<tb, handshake, clock, harness>>

\* What the harness does with the returned code: delay, $finish or $fatal.
Returned(code) == rc' = code /\ sim' = IF code < 0 THEN "final" ELSE "delay"

DoneCode == IF exit_code = 0 THEN RC_DONE_PASS ELSE RC_DONE_FAIL

\* harc_cosim_step() without a body (or after the end, which the harness avoids).
StepIdle ==
    /\ sim = "call" /\ (~ body \/ done)
    /\ Returned(IF body THEN DoneCode ELSE RC_DONE_FAIL)
    /\ UNCHANGED <<tb, handshake, body, clock, simTime, status>>

\* run_until_request() up to its cv.wait.
Step ==
    /\ sim = "call" /\ body /\ ~ done
    /\ started' = TRUE /\ turn_tb' = TRUE
    /\ tb' = IF started THEN Notified(tb) ELSE "boot"
    /\ sim' = "asleep"
    /\ UNCHANGED <<done, exit_code, request, body, clock, harness>>

\* ... and from there: the predicate is tested again after every wake-up.
SimWake ==
    /\ sim = "woken"
    /\ IF turn_tb THEN sim' = "asleep" /\ UNCHANGED rc
       ELSE IF done THEN sim' = "join" /\ UNCHANGED rc
       ELSE Returned(request)
    /\ UNCHANGED <<tb, handshake, body, clock, simTime, status>>

Join ==
    /\ sim = "join" /\ tb = "gone"
    /\ Returned(DoneCode)
    /\ UNCHANGED <<tb, handshake, body, clock, simTime, status>>

\* The master process waits for simulated time to pass and steps again.
\* Mutant: a settle takes no time.
DelayNoSettle ==
    /\ sim = "delay"
    /\ simTime' = simTime + rc
    /\ sim' = "call"
    /\ UNCHANGED <<tb, handshake, body, clock, rc, status>>
Delay ==
    /\ sim = "delay"
    /\ simTime' = simTime + IF rc = RC_SETTLE THEN 1 ELSE rc
    /\ sim' = "call"
    /\ UNCHANGED <<tb, handshake, body, clock, rc, status>>

\* While time passes the DUT may end the simulation.
DutFinish ==
    /\ sim = "delay"
    /\ sim' = "final"
    /\ UNCHANGED <<tb, handshake, body, clock, harness>>

\* The final block: harc_cosim_shutdown().
\* Mutant: it does not report an unfinished test.
ShutdownQuiet ==
    /\ sim = "final"
    /\ sim' = "exited"
    /\ status' = IF rc = RC_DONE_FAIL THEN 1 ELSE 0
    /\ UNCHANGED <<tb, handshake, body, clock, rc, simTime>>
Shutdown ==
    /\ sim = "final"
    /\ sim' = "exited"
    /\ status' = IF done \/ ~ started THEN (IF rc = RC_DONE_FAIL THEN 1 ELSE 0)
                 ELSE KilledStatus
    /\ UNCHANGED <<tb, handshake, body, clock, rc, simTime>>

SimSpurious ==
    /\ sim = "asleep" /\ sim' = "woken"
    /\ UNCHANGED <<tb, handshake, body, clock, harness>>

-----------------------------------------------------------------------------
\* The thread of the test body.

TbBoot ==
    /\ tb = "boot"
    /\ tb' = IF turn_tb THEN "body" ELSE "asleep"
    /\ UNCHANGED <<sim, handshake, body, clock, harness>>

\* settle(): one picosecond.
CallSettle ==
    /\ tb = "body" /\ settles < MaxSettles
    /\ settles' = settles + 1
    /\ op' = "settle" /\ tb' = "yield"
    /\ UNCHANGED <<sim, handshake, body, now_ps, next_edge_ps, lastEdge, harness>>

\* advance_to_next_edge().
CallEdge ==
    /\ tb = "body" /\ next_edge_ps < MaxEdges * HalfPeriod
    /\ next_edge_ps' = next_edge_ps + HalfPeriod
    /\ op' = "edge"
    /\ tb' = IF next_edge_ps' > now_ps THEN "yield" ELSE "edge"
    /\ UNCHANGED <<sim, handshake, body, now_ps, settles, lastEdge, harness>>

\* The clock is written through the DPI setter, then settle().
EdgeWrite ==
    /\ tb = "edge"
    /\ settles' = 1 /\ lastEdge' = now_ps
    /\ op' = "settle" /\ tb' = "yield"
    /\ UNCHANGED <<sim, handshake, body, now_ps, next_edge_ps, harness>>

\* yield_to_sim(rc) up to its cv.wait.
\* Mutant: the edge is a fixed delta away.
TbYieldFixed ==
    /\ tb = "yield"
    /\ request' = IF op = "settle" THEN RC_SETTLE ELSE HalfPeriod
    /\ turn_tb' = FALSE
    /\ sim' = Notified(sim)
    /\ tb' = "asleep"
    /\ UNCHANGED <<started, done, exit_code, body, clock, harness>>
\* Mutant: the simulator is not told.
TbYieldSilently ==
    /\ tb = "yield"
    /\ request' = IF op = "settle" THEN RC_SETTLE ELSE next_edge_ps - now_ps
    /\ turn_tb' = FALSE
    /\ tb' = "asleep"
    /\ UNCHANGED <<sim, started, done, exit_code, body, clock, harness>>
TbYield ==
    /\ tb = "yield"
    /\ request' = IF op = "settle" THEN RC_SETTLE ELSE next_edge_ps - now_ps
    /\ turn_tb' = FALSE
    /\ sim' = Notified(sim)
    /\ tb' = "asleep"
    /\ UNCHANGED <<started, done, exit_code, body, clock, harness>>

TbWake ==
    /\ tb = "woken"
    /\ IF turn_tb
       THEN /\ now_ps' = CASE op = "start" -> now_ps
                           [] op = "settle" -> now_ps + 1
                           [] op = "edge" -> next_edge_ps
            /\ tb' = IF op = "edge" THEN "edge" ELSE "body"
       ELSE tb' = "asleep" /\ UNCHANGED now_ps
    /\ UNCHANGED <<sim, handshake, body, next_edge_ps, op, settles, lastEdge, harness>>

\* The body returns; its thread reports under the mutex and ends.
TbFinish ==
    /\ tb = "body"
    /\ exit_code' \in {0, 1}
    /\ done' = TRUE /\ turn_tb' = FALSE
    /\ sim' = Notified(sim)
    /\ tb' = "ending"
    /\ UNCHANGED <<started, request, body, clock, harness>>
TbGone ==
    /\ tb = "ending" /\ tb' = "gone"
    /\ UNCHANGED <<sim, handshake, body, clock, harness>>

TbSpurious ==
    /\ tb = "asleep" /\ tb' = "woken"
    /\ UNCHANGED <<sim, handshake, body, clock, harness>>

-----------------------------------------------------------------------------
SimStep ==
    \/ CosimInit \/ StepIdle \/ Step \/ SimWake \/ Join \/ Delay \/ DutFinish
    \/ Shutdown
TbStep ==
    \/ TbBoot \/ CallSettle \/ CallEdge \/ EdgeWrite \/ TbYield \/ TbWake
    \/ TbFinish \/ TbGone

Exited == sim = "exited" /\ UNCHANGED vars

Next == SimStep \/ TbStep \/ SimSpurious \/ TbSpurious \/ Exited

\* Both threads run and the body ends or yields; spurious wake-ups are not
\* relied upon.
Spec == Init /\ [][Next]_vars /\ WF_vars(SimStep) /\ WF_vars(TbStep)

-----------------------------------------------------------------------------
\* The body runs user code, which reads and writes DUT signals.
TbRuns == tb \in {"body", "edge", "yield"}

\* "Exactly one of the two is ever runnable": while the body runs, the simulator
\* thread is inside harc_cosim_step() waiting for the turn, so that every access
\* to simulator state happens inside a DPI entry point.
StrictHandshake == TbRuns => sim \in {"asleep", "woken"} /\ turn_tb

\* The bridge's clock is the simulator's whenever the body can look at it.
TimeAgrees == TbRuns => now_ps = simTime

\* "The grid stays nominal by advancing to next_edge rather than by a fixed
\* delta": a clock edge is written exactly on the grid, unless the settles since
\* the last one have already used up the time to it; then at once, and the grid
\* does not shift.
EdgesOnGrid ==
    tb = "edge" =>
        simTime = IF lastEdge + settles > next_edge_ps THEN lastEdge + settles ELSE next_edge_ps

\* The process exits with 0 only when the test ran to its end and passed; a
\* simulation the DUT ends early is not mistaken for success.
HonestExit == status = 0 => done /\ exit_code = 0

\* Simulator time at which the pending yield of the body is over.
YieldEnd == IF op = "settle" THEN now_ps + 1 ELSE next_edge_ps

\* Who may be where, that nobody sleeps through its turn, and what the code
\* returned last says.
Control ==
    /\ sim = "init" => tb = "none"
    /\ started <=> tb # "none"
    /\ started => body
    /\ done <=> tb \in {"ending", "gone"}
    /\ turn_tb => sim \in {"asleep", "woken"} /\ started /\ ~ done
    /\ TbRuns \/ tb = "boot" => turn_tb
    /\ sim = "asleep" => turn_tb
    /\ tb = "asleep" => ~ turn_tb
    /\ sim = "join" => done
    /\ sim \in {"woken", "delay"} => started
    /\ sim = "delay" => ~ done /\ rc = request
    /\ sim = "final" /\ rc >= 0 => started /\ ~ done
    /\ sim = "final" /\ rc < 0 =>
         /\ done \/ ~ body
         /\ rc = IF body THEN DoneCode ELSE RC_DONE_FAIL
    /\ HonestExit

\* How the bridge's bookkeeping relates to simulator time across the yield, the
\* delay and the resumption.
Timing ==
    /\ TbRuns \/ tb = "boot" => now_ps = simTime
    /\ tb = "none" => now_ps = simTime
    /\ tb \in {"asleep", "woken", "yield"} => op # "start"
    /\ tb \in {"asleep", "woken", "yield"} /\ op = "edge" => next_edge_ps > now_ps
    /\ tb \in {"asleep", "woken"} =>
         /\ sim = "call" \/ turn_tb => simTime = YieldEnd
         /\ sim \in {"woken", "delay"} /\ ~ turn_tb => simTime = now_ps
         /\ request = IF op = "settle" THEN RC_SETTLE ELSE next_edge_ps - now_ps

\* The settles are all that takes time between two edges.
Grid ==
    /\ tb \in {"none", "boot", "body"} => now_ps = lastEdge + settles
    /\ tb \in {"yield", "asleep", "woken"} /\ op = "settle" => now_ps = lastEdge + settles - 1
    /\ tb \in {"yield", "asleep", "woken"} /\ op = "edge" => now_ps = lastEdge + settles
    /\ EdgesOnGrid

\* The inductive invariant.
IInv == TypeOK /\ Control /\ Timing /\ Grid

\* No wake-up is lost: every call of harc_cosim_step() returns, or the process
\* ends.
StepReturns == sim = "asleep" ~> sim \in {"delay", "final"}
=============================================================================
