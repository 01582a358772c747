----------------------------- MODULE ClockedRun -----------------------------
(***************************************************************************)
(* Simulated time of a test with declared clocks: eval_clocks_until, the   *)
(* drive loop around it, and the waits of the run coroutine that advance   *)
(* time themselves (wall-clock waits, synchronous cycle and polling waits, *)
(* waits on a named clock), with the rules for a fatal in the middle of a  *)
(* wait.  Everything runs on one thread; one step is one clock instant.    *)
(*                                                                         *)
(* Clock 1 is the primary clock.  A wait is in a hook (an `on` handler     *)
(* dispatched synchronously) or in a body that HarcFatalAbort can unwind.  *)
(***************************************************************************)
EXTENDS Integers, Sequences, FiniteSets, FiniteSetsExt

CONSTANTS
    Half,      \* the half period of each declared clock
    MaxTime,   \* bound: nothing new is waited for from this time on
    MaxWait    \* bound: cycles or picoseconds of one wait

Clocks == DOMAIN Half

ASSUME HalfAssumption == Half # << >> /\ Half \in Seq(Nat \ {0})
ASSUME BoundsAssumption == MaxTime \in Nat /\ MaxWait \in Nat

VARIABLES
    now_ps, level, next_edge_ps, rising_count, cycle_count,
    fatal,
    pc,        \* where the thread is
    boot,      \* TRUE until the drive loop starts
    done,      \* the run coroutine is Done
    sleep,     \* cycles until the run coroutine's co_await is over
    wait,      \* the wait in progress: kind, clock, what is left, in a hook?
    target,    \* t_ps of the eval_clocks_until in progress
    before,    \* count when it started: of the waited-for clock, or cycles
    goal,      \* time or count at which the wait in progress has elapsed
    dumped,    \* time of the last waveform dump
    redumped   \* TRUE once one time was dumped twice

clocks == <<now_ps, level, next_edge_ps, rising_count, cycle_count>>
wave == <<dumped, redumped>>
call == <<wait, target, before, goal>>
vars == <<clocks, fatal, pc, boot, done, sleep, call, wave>>

Kinds == {"loop", "wall", "sync", "poll", "qualified"}
NoWait == [kind |-> "loop", clock |-> 1, left |-> 0, hook |-> FALSE]

TypeOK ==
    /\ now_ps \in Nat /\ cycle_count \in Nat
    /\ level \in [Clocks -> {0, 1}]
    /\ next_edge_ps \in [Clocks -> Nat] /\ rising_count \in [Clocks -> Nat]
    /\ fatal \in BOOLEAN /\ boot \in BOOLEAN /\ done \in BOOLEAN
    /\ pc \in {"segment", "wait", "eval", "tick", "checkers", "settle", "top", "over"}
    /\ sleep \in Nat
    /\ wait \in [kind : Kinds, clock : Clocks, left : Nat, hook : BOOLEAN]
    /\ target \in Nat /\ before \in Nat /\ goal \in Nat
    /\ dumped \in Int /\ redumped \in BOOLEAN

\* The run coroutine starts its first segment in sched.bootstrap().
Init ==
    /\ now_ps = 0 /\ cycle_count = 0
    /\ level = [c \in Clocks |-> 0]
    /\ next_edge_ps = Half
    /\ rising_count = [c \in Clocks |-> 0]
    /\ fatal = FALSE /\ pc = "segment" /\ boot = TRUE /\ done = FALSE /\ sleep = 0
    /\ wait = NoWait /\ target = 0 /\ before = 0 /\ goal = 0
    /\ dumped = -1 /\ redumped = FALSE

-----------------------------------------------------------------------------
\* _harc_trace_dump_at(now_ps, ...).
Dump(t) == dumped' = t /\ redumped' = (redumped \/ dumped = t)

\* The next instant eval_clocks_until(t) stops at.
Instant(t) == Min({t} \cup {next_edge_ps[c] : c \in Clocks})

\* One turn of the loop in eval_clocks_until: every clock with an edge at this
\* instant toggles, then one eval; a post-eval service may raise fatal, which
\* completes the instant.
\* Mutant: only the first clock with an edge at this instant toggles.
EdgesFirstOnly(t) ==
    {c \in Clocks : next_edge_ps[c] = t /\ \A d \in 1..(c - 1) : next_edge_ps[d] # t}
Edges(t) == {c \in Clocks : next_edge_ps[c] = t}

Running == now_ps < target /\ ~ fatal

EvalInstant ==
    /\ pc = "eval" /\ Running
    /\ LET t == Instant(target)
           rises == {c \in Edges(t) : level[c] = 0}
       IN /\ now_ps' = t
          /\ level' = [c \in Clocks |-> IF c \in Edges(t) THEN 1 - level[c] ELSE level[c]]
          /\ next_edge_ps' =
               [c \in Clocks |-> next_edge_ps[c] + IF c \in Edges(t) THEN Half[c] ELSE 0]
          /\ rising_count' =
               [c \in Clocks |-> rising_count[c] + IF c \in rises THEN 1 ELSE 0]
          /\ cycle_count' = cycle_count + IF 1 \in rises THEN 1 ELSE 0
          /\ fatal' \in BOOLEAN /\ (fatal' => 1 \in rises)
          /\ Dump(t)
    /\ UNCHANGED <<pc, boot, done, sleep, call>>

\* eval_clocks_until(t), on behalf of the wait or loop that w describes.
Call(w, t, count) ==
    /\ wait' = w /\ target' = t /\ before' = count
    /\ pc' = "eval"

-----------------------------------------------------------------------------
\* The segment of the run coroutine is over; control returns to the scheduler.
Yield == pc' = IF boot THEN "settle" ELSE "checkers"

\* HarcFatalAbort: the body is unwound and its slot is Done.
Abort == done' = TRUE /\ wait' = NoWait /\ Yield

\* The statement after the wait runs.
Succeed == pc' = "segment" /\ wait' = NoWait /\ UNCHANGED done

\* A wait that fatal interrupts with something still owed: it unwinds the body,
\* or just ends where nothing catches HarcFatalAbort.
Interrupted == IF wait.hook THEN Succeed ELSE Abort

\* co_await wait_cycles(n).
Suspend ==
    /\ pc = "segment" /\ now_ps < MaxTime
    /\ \E n \in 1..MaxWait : sleep' = n
    /\ Yield
    /\ UNCHANGED <<clocks, fatal, boot, done, call, wave>>

Finish ==
    /\ pc = "segment"
    /\ done' = TRUE
    /\ Yield
    /\ UNCHANGED <<clocks, fatal, boot, sleep, call, wave>>

RaiseFatal ==
    /\ pc = "segment" /\ ~ fatal
    /\ fatal' = TRUE
    /\ UNCHANGED <<clocks, pc, boot, done, sleep, call, wave>>

\* wait N ps: absolute time, no checkers.
StartWall ==
    /\ pc = "segment" /\ now_ps < MaxTime
    /\ \E ps \in 1..MaxWait, hook \in BOOLEAN :
         IF fatal /\ ~ hook
         THEN Abort /\ UNCHANGED <<target, before, goal>>
         ELSE /\ Call([NoWait EXCEPT !.kind = "wall", !.hook = hook], now_ps + ps, 0)
              /\ goal' = now_ps + ps
              /\ UNCHANGED done
    /\ UNCHANGED <<clocks, fatal, boot, sleep, wave>>

\* Mutant: any fatal aborts the wait, also when it has elapsed.
WallEndAborts ==
    /\ pc = "eval" /\ ~ Running /\ wait.kind = "wall"
    /\ IF fatal THEN Interrupted ELSE Succeed
    /\ UNCHANGED <<clocks, fatal, boot, sleep, target, before, goal, wave>>
WallEnd ==
    /\ pc = "eval" /\ ~ Running /\ wait.kind = "wall"
    /\ IF fatal /\ now_ps < target THEN Interrupted ELSE Succeed
    /\ UNCHANGED <<clocks, fatal, boot, sleep, target, before, goal, wave>>

\* wait N cycles, or wait until, in a synchronous context: tick() in a loop.
StartSync ==
    /\ pc = "segment" /\ now_ps < MaxTime
    /\ \E kind \in {"sync", "poll"}, n \in 1..MaxWait, hook \in BOOLEAN :
         /\ wait' = [NoWait EXCEPT !.kind = kind, !.left = n, !.hook = hook]
         /\ goal' = cycle_count + n
    /\ pc' = "wait"
    /\ UNCHANGED <<clocks, fatal, boot, done, sleep, target, before, wave>>

\* tick(): one period of the primary clock, then the checkers.
Window == now_ps + 2 * Half[1]

\* Mutant: the wait does not look at fatal before it ticks.
SyncUnguarded ==
    /\ pc = "wait" /\ wait.kind \in {"sync", "poll"}
    /\ \/ /\ wait.kind = "poll" \/ wait.left = 0
          /\ Succeed
          /\ UNCHANGED <<target, before>>
       \/ /\ wait.kind = "sync" => wait.left > 0
          /\ wait.kind = "poll" => fatal \/ now_ps < MaxTime
          /\ Call(wait, Window, cycle_count)
          /\ UNCHANGED done
    /\ UNCHANGED <<clocks, fatal, boot, sleep, goal, wave>>
Sync ==
    /\ pc = "wait" /\ wait.kind \in {"sync", "poll"}
    /\ \/ /\ wait.kind = "poll" \/ wait.left = 0
          /\ Succeed
          /\ UNCHANGED <<target, before>>
       \/ /\ wait.kind = "sync" => wait.left > 0
          /\ fatal
          /\ Interrupted
          /\ UNCHANGED <<target, before>>
       \/ /\ wait.kind = "sync" => wait.left > 0
          /\ wait.kind = "poll" => now_ps < MaxTime
          /\ ~ fatal
          /\ Call(wait, Window, cycle_count)
          /\ UNCHANGED done
    /\ UNCHANGED <<clocks, fatal, boot, sleep, goal, wave>>

SyncTicked ==
    /\ pc = "eval" /\ ~ Running /\ wait.kind \in {"sync", "poll"}
    /\ wait' = [wait EXCEPT !.left = IF wait.kind = "sync" THEN @ - 1 ELSE @]
    /\ pc' = "checkers"
    /\ UNCHANGED <<clocks, fatal, boot, done, sleep, target, before, goal, wave>>

\* wait N cycles on clk: edge by edge, whichever clock has the next one.
StartQualified ==
    /\ pc = "segment" /\ now_ps < MaxTime
    /\ \E c \in Clocks, n \in 1..MaxWait, hook \in BOOLEAN :
         /\ wait' = [kind |-> "qualified", clock |-> c, left |-> n, hook |-> hook]
         /\ goal' = rising_count[c] + n
    /\ pc' = "wait"
    /\ UNCHANGED <<clocks, fatal, boot, done, sleep, target, before, wave>>

\* Mutant: each turn advances by a whole period of the primary clock.
NextEdgePeriod == Window
NextEdge == Min({next_edge_ps[c] : c \in Clocks})

Qualified ==
    /\ pc = "wait" /\ wait.kind = "qualified"
    /\ IF wait.left > 0 /\ ~ fatal
       THEN Call(wait, NextEdge, rising_count[wait.clock])
       ELSE pc' = "checkers" /\ UNCHANGED <<wait, target, before>>
    /\ UNCHANGED <<clocks, fatal, boot, done, sleep, goal, wave>>

QualifiedTurn ==
    /\ pc = "eval" /\ ~ Running /\ wait.kind = "qualified"
    /\ LET advanced == rising_count[wait.clock] - before
       IN wait' = [wait EXCEPT !.left = IF advanced >= @ THEN 0 ELSE @ - advanced]
    /\ pc' = "wait"
    /\ UNCHANGED <<clocks, fatal, boot, done, sleep, target, before, goal, wave>>

-----------------------------------------------------------------------------
\* The checkers run, and one may raise fatal; then whoever called them goes on.
AfterQualifiedCheckers == IF wait.left > 0 THEN Interrupted ELSE Succeed

Checkers ==
    /\ pc = "checkers"
    /\ fatal' \in {fatal, TRUE}
    /\ \/ wait.kind = "loop" /\ pc' = "top" /\ UNCHANGED <<wait, done>>
       \/ wait.kind \in {"sync", "poll"} /\ pc' = "wait" /\ UNCHANGED <<wait, done>>
       \/ wait.kind = "qualified" /\ AfterQualifiedCheckers
    /\ UNCHANGED <<clocks, boot, sleep, target, before, goal, wave>>

\* The drive loop: settle once, then one period per turn.
Settle ==
    /\ pc = "settle"
    /\ Dump(now_ps)
    /\ boot' = FALSE /\ pc' = "top"
    /\ UNCHANGED <<clocks, fatal, done, sleep, call>>

Top ==
    /\ pc = "top"
    /\ IF done \/ fatal
       THEN pc' = "over" /\ UNCHANGED <<wait, target, before>>
       ELSE Call(NoWait, Window, cycle_count)
    /\ UNCHANGED <<clocks, fatal, boot, done, sleep, goal, wave>>

LoopWindowEnd ==
    /\ pc = "eval" /\ ~ Running /\ wait.kind = "loop"
    /\ pc' = "tick"
    /\ UNCHANGED <<clocks, fatal, boot, done, sleep, call, wave>>

\* sched.tick(), as far as the run coroutine is concerned.
SchedTick ==
    /\ pc = "tick"
    /\ sleep' = sleep - 1
    /\ pc' = IF sleep = 1 THEN "segment" ELSE "checkers"
    /\ UNCHANGED <<clocks, fatal, boot, done, call, wave>>

Over == pc = "over" /\ UNCHANGED vars

Segment == Suspend \/ Finish \/ RaiseFatal \/ StartWall \/ StartSync \/ StartQualified
Step ==
    \/ EvalInstant \/ WallEnd \/ Sync \/ SyncTicked \/ Qualified \/ QualifiedTurn
    \/ Checkers \/ Settle \/ Top \/ LoopWindowEnd \/ SchedTick

Next == Segment \/ Step \/ Over

\* The one thread keeps running, and the code of a test makes only finitely many
\* waits before it suspends or ends.
Spec == Init /\ [][Next]_vars /\ WF_vars(Segment \/ Step) /\ SF_vars(Suspend \/ Finish)

-----------------------------------------------------------------------------
\* However wall-clock waits and waits on other clocks have shifted it, a window
\* of the drive loop or of tick() contains exactly one rising edge of the
\* primary clock: one turn is one cycle.
OnePrimaryEdge ==
    pc = "eval" /\ ~ Running /\ wait.kind \in {"loop", "sync", "poll"} =>
        cycle_count = before + 1

\* When the primary clock rises next.
NextRise == next_edge_ps[1] + IF level[1] = 1 THEN Half[1] ELSE 0

\* Nobody steps the scheduler without a run coroutine that waits in it, and the
\* wait in progress fits the place of the thread.
Control ==
    /\ wait.kind = "loop" => wait = NoWait
    /\ pc = "tick" => wait = NoWait
    /\ pc = "tick" \/ (pc = "eval" /\ wait.kind = "loop") => sleep >= 1
    /\ pc \in {"top", "settle"} \/ (pc = "checkers" /\ wait.kind = "loop") => done \/ sleep >= 1
    /\ pc \in {"segment", "settle", "top"} => wait = NoWait
    /\ pc = "wait" => wait.kind \in {"sync", "poll", "qualified"}
    /\ pc = "checkers" => wait.kind # "wall"
    /\ pc = "eval" /\ wait.kind = "sync" => wait.left > 0

\* The next edge of a clock is less than a half period away.
Ahead == \A c \in Clocks : now_ps < next_edge_ps[c] /\ next_edge_ps[c] <= now_ps + Half[c]

\* Within a window, the one rising edge of the primary clock is either ahead or
\* counted; a fatal can only have been raised at it.
InWindow ==
    pc = "eval" /\ wait.kind \in {"loop", "sync", "poll"} =>
        /\ now_ps <= target /\ target <= now_ps + 2 * Half[1]
        /\ \/ NextRise <= target /\ cycle_count = before /\ ~ fatal
           \/ NextRise > target /\ cycle_count = before + 1

\* The inductive invariant.
IInv == TypeOK /\ Control /\ Ahead /\ InWindow

\* Every clock is where its period puts it, whatever mixture of waits time was
\* advanced by: no edge is lost, doubled or late, also when edges of several
\* clocks coincide.
NominalClocks ==
    \A c \in Clocks :
        LET edges == now_ps \div Half[c]
        IN /\ next_edge_ps[c] = (edges + 1) * Half[c]
           /\ level[c] = edges % 2
           /\ rising_count[c] = (edges + 1) \div 2

\* Once a fatal is raised, simulation time does not advance (spec section 7.7).
FatalStopsTime == [][fatal => now_ps' = now_ps]_vars

\* What the wait in progress has not reached yet.
Owing ==
    CASE wait.kind = "wall" -> now_ps < goal
      [] wait.kind = "sync" -> cycle_count < goal
      [] wait.kind = "qualified" -> rising_count[wait.clock] < goal
      [] OTHER -> FALSE

\* The statement after a wait runs exactly when the wait has elapsed, also if it
\* elapsed in the cycle of the fatal; a wait that still owes time or edges
\* aborts the body unless it is in a hook (spec section 7.7).
WaitsHonoured ==
    [][wait.kind \in {"wall", "sync", "qualified"} =>
         /\ pc' = "segment" => ~ Owing \/ (fatal' /\ wait.hook)
         /\ done' # done => Owing /\ ~ wait.hook]_vars

\* A wait ends at the instant it waits for: nothing overshoots.
WaitsExact ==
    [][pc' = "segment" /\ ~ fatal' =>
         CASE wait.kind = "wall" -> now_ps = goal
           [] wait.kind = "sync" -> cycle_count = goal
           [] wait.kind = "qualified" ->
                /\ rising_count[wait.clock] = goal
                /\ next_edge_ps[wait.clock] = now_ps + Half[wait.clock]
           [] OTHER -> TRUE]_vars

\* How far the wait in progress is: a wall-clock wait is one call that ends at
\* its goal, a wait for cycles still has `left` of them to see, counted from
\* where the tick() or the turn in progress started.
Sited ==
    /\ wait.kind = "wall" => pc = "eval"
    /\ wait.kind \in {"sync", "qualified"} => pc \in {"wait", "eval", "checkers"}

WallTracked == wait.kind = "wall" => target = goal /\ now_ps <= target

SyncTracked ==
    wait.kind = "sync" => goal = wait.left + IF pc = "eval" THEN before ELSE cycle_count

\* A turn of a wait on a clock ends at the first edge of any clock, so it sees at
\* most one edge of the waited-for clock, and then time stands at that edge.
QualifiedTracked ==
    wait.kind = "qualified" =>
        LET count == rising_count[wait.clock]
            atEdge == next_edge_ps[wait.clock] = now_ps + Half[wait.clock]
        IN  /\ pc = "eval" =>
                 /\ goal = before + wait.left /\ wait.left > 0
                 /\ \/ count = before /\ \A c \in Clocks : target <= next_edge_ps[c]
                    \/ now_ps = target /\ count = before
                    \/ now_ps = target /\ count = before + 1 /\ atEdge
            /\ pc # "eval" => goal = count + wait.left /\ (wait.left = 0 => atEdge)
            /\ pc = "checkers" /\ wait.left > 0 => fatal

Tracked == Sited /\ WallTracked /\ SyncTracked /\ QualifiedTracked

\* A fatal ends the test: no wait spins once time stands still.
FatalEnds == fatal ~> pc = "over"

\* "We dump exactly once per now_ps": the waveform never gets two dumps at one
\* time.
DumpOnce == ~ redumped
=============================================================================
