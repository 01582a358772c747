----------------------------- MODULE Scheduler -----------------------------
(***************************************************************************)
(* harc_rt::ThreadScheduler (runtime/harc_thread_rt.h) with the coroutines *)
(* it drives and the emitted loop that drives it.                          *)
(*                                                                         *)
(* One thread of control runs everything, so the state is the slots and a  *)
(* stack of activations, innermost last:                                   *)
(*   boot   ThreadScheduler::bootstrap()                                   *)
(*   cycle  one clock cycle: the drive loop, a synchronous tick() of the   *)
(*          run coroutine, or one edge of its `wait N cycles on clk`       *)
(*   tick   ThreadScheduler::tick_except(excluded), pass 2                 *)
(*   run    a coroutine between two suspensions                            *)
(*                                                                         *)
(* What a coroutine computes is abstracted to what the scheduler sees of   *)
(* it: the awaiter it suspends on, and which suspended predicates hold     *)
(* afterwards.  A predicate is pure, it is a fact (holds) that changes when*)
(* the DUT is evaluated and while coroutines run.                          *)
(*                                                                         *)
(* Only the run coroutine lets time pass without suspending.  The code can *)
(* make other coroutines do so too (hooks that actors dispatch, bodies of  *)
(* responders, helpers they call); TlmTarget and TlmTaggedTarget have the  *)
(* posedges of those, and there is no nested tick in them.                 *)
(***************************************************************************)
EXTENDS Integers, Sequences, Functions

CONSTANTS
    NActors,    \* actor coroutines registered before the first cycle
    NTasks,     \* bound: suspending `on` handlers started during the run
    MaxWait,    \* bound: cycles a coroutine asks to wait
    Capsule,    \* TRUE: the common layout, whose run coroutine registers the actors
    Sites       \* what the program does beyond plain waits, see SiteNames

SiteNames ==
    {"qualified",    \* the run coroutine executes `wait N cycles on clk`
     "sync",         \* the run coroutine calls helpers that tick() the clock
     "post_eval",    \* `on` handlers of phase post_eval suspend
     "checker"}      \* `on` handlers of the checker pass suspend

ASSUME ConstantsAssumption ==
    /\ NActors \in Nat /\ NTasks \in Nat /\ MaxWait \in Nat \ {0}
    /\ Capsule \in BOOLEAN /\ Sites \subseteq SiteNames

Actors == 1 .. NActors
run == NActors + 1
Tasks == run + 1 .. run + NTasks
Slots == Actors \cup {run} \cup Tasks
NoSlot == 0

VARIABLES
    slots,      \* ThreadScheduler::slots
    kind,       \* ThreadSlot::kind
    cycles,     \* ThreadSlot::cycles_remaining
    timedOut,   \* ThreadSlot::timed_out
    finished,   \* slots whose coroutine is done()
    holds,      \* slots whose pred() returns true now
    stack,      \* activations, innermost last
    fatal,      \* _fatal: somebody raised a fatal error
    wait        \* history: the awaiter each slot last suspended on, its count,
                \* and the posedges since that a scheduler tick follows (counted
                \* up to one more); tick() in a helper has none

vars == <<slots, kind, cycles, timedOut, finished, holds, stack, fatal, wait>>
slotVars == <<slots, kind, cycles, timedOut, finished, wait>>

Kinds == {"Ready", "WaitUntil", "WaitUntilTimeout", "WaitCycles", "Done"}
PredKinds == {"WaitUntil", "WaitUntilTimeout"}
NoWait == [on |-> "Ready", n |-> -1, age |-> 0]

Boot(i) == [act |-> "boot", i |-> i]
Cycle(how, at) == [act |-> "cycle", how |-> how, at |-> at, owed |-> FALSE]
Run(s) == [act |-> "run", slot |-> s, abort |-> FALSE]
Tick(excluded) ==
    [act |-> "tick", excluded |-> excluded, size |-> Len(slots), resumed |-> {},
     changed |-> FALSE, at |-> "resume", i |-> 1]

BootFrames == [act : {"boot"}, i : Nat \ {0}]
CycleFrames ==
    {f \in [act : {"cycle"}, how : {"loop", "qualified", "sync"},
            at : {"edge", "services", "tick", "checkers"}, owed : BOOLEAN] :
        f.at = "tick" => f.how # "sync"}
RunFrames == [act : {"run"}, slot : Slots, abort : BOOLEAN]
TickFrames ==
    [act : {"tick"}, excluded : {NoSlot, run}, size : Nat, resumed : SUBSET (Nat \ {0}),
     changed : BOOLEAN, at : {"resume", "recheck"}, i : Nat \ {0}]
Frames == BootFrames \cup CycleFrames \cup RunFrames \cup TickFrames

Top == stack[Len(stack)]
Callers == SubSeq(stack, 1, Len(stack) - 1)
Push(a) == stack' = Append(stack, a)
Swap(a) == stack' = Append(Callers, a)
SwapPush(a, b) == stack' = Callers \o <<a, b>>
Pop == stack' = Callers
In(act) == stack # <<>> /\ Top.act = act

\* Predicates matter only of slots suspended on one, or just timed out.
Observable(k, timed) ==
    {s \in Slots \ finished : k[s] \in PredKinds \/ (k[s] = "Ready" /\ timed[s])}

TypeOK ==
    /\ slots \in Seq(Slots)
    /\ kind \in [Slots -> Kinds]
    /\ cycles \in [Slots -> 0 .. MaxWait]
    /\ timedOut \in [Slots -> BOOLEAN]
    /\ finished \subseteq Slots
    /\ holds \subseteq Observable(kind, timedOut)
    /\ fatal \in BOOLEAN
    /\ stack \in Seq(Frames)
    /\ wait \in [Slots -> [on : Kinds \ {"Done"}, n : -1 .. MaxWait, age : 0 .. MaxWait + 1]]

Init ==
    /\ slots = IF Capsule THEN <<run>> ELSE [i \in 1 .. run |-> i]
    /\ kind = [s \in Slots |-> "Ready"]
    /\ cycles = [s \in Slots |-> 0]
    /\ timedOut = [s \in Slots |-> FALSE]
    /\ finished = {}
    /\ holds = {}
    /\ stack = <<Boot(1)>>
    /\ fatal = FALSE
    /\ wait = [s \in Slots |-> NoWait]

-----------------------------------------------------------------------------
\* bootstrap(): an index loop, because the run coroutine of the common layout
\* appends the actors while it runs.

\* Mutant: the loop's end is fixed when it begins.
BootSizeAtStart == IF Capsule THEN 1 ELSE run
BootSize == Len(slots)

BootResume ==
    /\ In("boot") /\ Top.i <= BootSize
    /\ LET s == slots[Top.i]
       IN  \/ /\ kind[s] = "Ready" /\ s \notin finished
              /\ SwapPush(Boot(Top.i + 1), Run(s))
              /\ UNCHANGED kind
           \/ /\ kind[s] = "Ready" /\ s \in finished
              /\ Swap(Boot(Top.i + 1))
              /\ kind' = [kind EXCEPT ![s] = "Done"]
           \/ /\ kind[s] # "Ready"
              /\ Swap(Boot(Top.i + 1))
              /\ UNCHANGED kind
    /\ UNCHANGED <<slots, cycles, timedOut, finished, holds, fatal, wait>>

\* The common layout then moves the run slot behind the actors.
BootEnd ==
    /\ In("boot") /\ Top.i > BootSize
    /\ \/ Capsule /\ \E i \in DOMAIN slots :
             /\ slots[i] = run /\ \A j \in 1 .. i - 1 : slots[j] # run
             /\ slots' = SubSeq(slots, 1, i - 1) \o SubSeq(slots, i + 1, Len(slots)) \o <<run>>
       \/ ~ Capsule /\ UNCHANGED slots
    /\ Swap(Cycle("loop", "edge"))
    /\ UNCHANGED <<kind, cycles, timedOut, finished, holds, fatal, wait>>

-----------------------------------------------------------------------------
\* A clock cycle: the edges, the post_eval services, the actors' tick, the
\* checkers.  tick() in a helper has no scheduler tick; `wait N cycles on clk`
\* has one per primary edge, without the slot of the run coroutine, and runs
\* the checkers once after its last edge.

Edge ==
    /\ In("cycle") /\ Top.at = "edge"
    /\ Top.how = "loop" => run \notin finished
    /\ ~ fatal
    /\ Swap([Top EXCEPT !.at = "services"])
    /\ wait' = [s \in Slots |-> [wait[s] EXCEPT !.age =
                   IF @ > wait[s].n \/ Top.how = "sync" THEN @ ELSE @ + 1]]
    /\ holds' \in SUBSET Observable(kind, timedOut)
    /\ UNCHANGED <<slots, kind, cycles, timedOut, finished, fatal>>

\* A clock-qualified wait ends without a primary edge: the named clock was
\* faster, or a fatal stopped the time with edges still owed.
QualifiedOver ==
    /\ In("cycle") /\ Top.at = "edge" /\ Top.how = "qualified"
    /\ \E owed \in {FALSE, fatal} :
          Swap([Top EXCEPT !.at = "checkers", !.owed = owed])
    /\ UNCHANGED <<slotVars, holds, fatal>>

\* A suspending `on` handler fires: a slot is added to the scheduler and its
\* coroutine is resumed on the spot, outside any tick.
StartTask(site) ==
    /\ site \in Sites
    /\ \E s \in Tasks :
          /\ s \notin Range(slots) /\ \A u \in Tasks : u < s => u \in Range(slots)
          /\ slots' = Append(slots, s)
          /\ Push(Run(s))
    /\ UNCHANGED <<kind, cycles, timedOut, finished, holds, fatal, wait>>

\* Mutant: only the drive loop's own cycles tick the actors.
AfterServicesLoopOnly(how) == IF how = "loop" THEN "tick" ELSE "checkers"
\* Mutant: nobody ticks the actors.
AfterServicesNoTick(how) == "checkers"
AfterServices(how) == IF how = "sync" THEN "checkers" ELSE "tick"

Services ==
    /\ In("cycle") /\ Top.at = "services"
    /\ \/ StartTask("post_eval")
       \/ /\ Swap([Top EXCEPT !.at = AfterServices(Top.how)])
          /\ UNCHANGED <<slotVars, holds, fatal>>

Checkers ==
    /\ In("cycle") /\ Top.at = "checkers"
    /\ \/ StartTask("checker")
       \/ /\ IF Top.how = "loop" THEN Swap(Cycle("loop", "edge"))
             ELSE stack' = [Callers EXCEPT ![Len(stack) - 1].abort = Top.owed]
          /\ UNCHANGED <<slotVars, holds, fatal>>

-----------------------------------------------------------------------------
\* tick_except(excluded).  Pass 1 counts down and evaluates predicates once; it
\* calls nothing that could change them, so it is one step.

PassOneReady(s) ==
    \/ kind[s] \in PredKinds /\ s \in holds
    \/ kind[s] \in {"WaitCycles", "WaitUntilTimeout"} /\ cycles[s] <= 1

Countdown(s) ==
    IF /\ \/ kind[s] = "WaitCycles"
          \/ kind[s] = "WaitUntilTimeout" /\ s \notin holds
       /\ cycles[s] > 0
    THEN cycles[s] - 1
    ELSE cycles[s]

\* Mutant: the countdown goes first, the predicate is not asked.
ExpiresFirst(s) == kind[s] = "WaitUntilTimeout"
Expires(s) == kind[s] = "WaitUntilTimeout" /\ s \notin holds /\ cycles[s] <= 1

PassOne(excluded) ==
    LET ticked == Range(slots) \ {excluded}
    IN  /\ kind' = [s \in Slots |->
                      IF s \in ticked /\ PassOneReady(s) THEN "Ready" ELSE kind[s]]
        /\ cycles' = [s \in Slots |-> IF s \in ticked THEN Countdown(s) ELSE cycles[s]]
        /\ timedOut' = [s \in Slots |->
                          IF s \in ticked /\ kind[s] = "WaitUntilTimeout" /\ PassOneReady(s)
                          THEN Expires(s) ELSE timedOut[s]]
        /\ holds' = holds \cap Observable(kind', timedOut')

\* Mutant: the clock-qualified wait calls tick().
ExcludedNone(how) == NoSlot
Excluded(how) == IF how = "qualified" THEN run ELSE NoSlot

TickStart ==
    /\ In("cycle") /\ Top.at = "tick"
    /\ PassOne(Excluded(Top.how))
    /\ \E next \in IF Top.how = "loop" THEN {"checkers"} ELSE {"edge", "checkers"} :
          SwapPush([Top EXCEPT !.at = next], Tick(Excluded(Top.how)))
    /\ UNCHANGED <<slots, finished, fatal, wait>>

\* Pass 2 resumes in index order.  resumed has one flag per slot that existed
\* when the tick began; what is read beyond its end is arbitrary.
ReadResumed(f) ==
    {r \in SUBSET DOMAIN slots : r \cap 1 .. f.size = f.resumed}

Due(f, r) ==
    {i \in f.i .. Len(slots) :
        slots[i] # f.excluded /\ kind[slots[i]] = "Ready" /\ i \notin r}

\* Mutant: a resumed slot is not marked.
MarkedNot(f, i) == f.resumed
Marked(f, i) == f.resumed \cup ({i} \cap 1 .. f.size)

ResumeNext ==
    /\ In("tick") /\ Top.at = "resume"
    /\ \E r \in ReadResumed(Top) :
          \/ /\ Due(Top, r) = {}
             /\ Swap([Top EXCEPT !.at = "recheck"])
             /\ UNCHANGED kind
          \/ \E i \in Due(Top, r) :
                LET s == slots[i]
                    f == [Top EXCEPT !.i = i + 1, !.changed = TRUE,
                                     !.resumed = Marked(Top, i)]
                IN  /\ \A j \in Due(Top, r) : i <= j
                    /\ IF s \in finished
                       THEN Swap(f) /\ kind' = [kind EXCEPT ![s] = "Done"]
                       ELSE SwapPush(f, Run(s)) /\ UNCHANGED kind
    /\ UNCHANGED <<slots, cycles, timedOut, finished, holds, fatal, wait>>

\* Then the predicates of the slots not yet resumed are evaluated again, until
\* a round changes nothing.
Woken(f, r) ==
    {slots[i] : i \in {j \in DOMAIN slots :
        /\ slots[j] # f.excluded /\ j \notin r
        /\ kind[slots[j]] \in PredKinds /\ slots[j] \in holds}}

\* Mutant: one round, no fixed point.
AnotherRoundNever(f, woken) == FALSE
AnotherRound(f, woken) == f.changed \/ woken # {}

Recheck ==
    /\ In("tick") /\ Top.at = "recheck"
    /\ \E r \in ReadResumed(Top) :
          LET woken == Woken(Top, r)
          IN  /\ kind' = [s \in Slots |-> IF s \in woken THEN "Ready" ELSE kind[s]]
              /\ timedOut' = [s \in Slots |-> IF s \in woken /\ kind[s] = "WaitUntilTimeout"
                                              THEN FALSE ELSE timedOut[s]]
              /\ holds' = holds \ woken
              /\ IF AnotherRound(Top, woken)
                 THEN Swap([Top EXCEPT !.at = "resume", !.i = 1, !.changed = FALSE])
                 ELSE Pop
    /\ UNCHANGED <<slots, cycles, finished, fatal, wait>>

-----------------------------------------------------------------------------
\* What the running coroutine does.  Its statements may make any predicate true
\* or false; the awaiters write the slot.  Waits that complete at once (zero
\* cycles, a timed wait whose predicate already holds) touch no slot.

\* The common layout's run coroutine registers the actors before anything else.
RegisterActors ==
    /\ In("run") /\ Top.slot = run
    /\ Capsule /\ slots = <<run>>
    /\ slots' = slots \o [i \in Actors |-> i]
    /\ UNCHANGED <<kind, cycles, timedOut, finished, holds, stack, fatal, wait>>

Segment(s) ==
    /\ In("run") /\ Top.slot = s
    /\ Capsule => Actors \subseteq Range(slots)

\* A post_eval handler suspends before the scheduler tick of its own posedge,
\* which therefore counts.
FirstAge ==
    LET caller == stack[Len(stack) - 1]
    IN  IF caller.act = "cycle" /\ caller.at = "services" /\ caller.how # "sync" THEN 1 ELSE 0

\* await_suspend of the three awaiters: WaitUntil, WaitCycles, WaitUntilTimeout.
Suspend(s) ==
    /\ Segment(s) /\ ~ Top.abort
    /\ \E k \in Kinds \ {"Ready", "Done"}, n \in 0 .. MaxWait :
          /\ kind' = [kind EXCEPT ![s] = k]
          /\ IF k = "WaitUntil" THEN n = 0 /\ UNCHANGED cycles
             ELSE n > 0 /\ cycles' = [cycles EXCEPT ![s] = n]
          /\ timedOut' = [timedOut EXCEPT ![s] = IF k = "WaitUntilTimeout" THEN FALSE ELSE @]
          /\ wait' = [wait EXCEPT ![s] = [on |-> k, n |-> n, age |-> FirstAge]]
          /\ holds' \in SUBSET Observable(kind', timedOut')
          /\ k = "WaitUntilTimeout" => s \notin holds'
    /\ Pop
    /\ UNCHANGED <<slots, finished, fatal>>

\* co_return, or a HarcFatalAbort that ends the coroutine.  The scheduler then
\* sees done(); whoever started a task does not look.  The common layout's run
\* coroutine sets run_complete and parks on a predicate that is never true.
Finish(s) ==
    /\ Segment(s)
    /\ finished' = finished \cup {s}
    /\ kind' = [kind EXCEPT ![s] =
                  IF Capsule /\ s = run /\ ~ Top.abort THEN "WaitUntil"
                  ELSE IF stack[Len(stack) - 1].act = "cycle" THEN @ ELSE "Done"]
    /\ holds' \in SUBSET (Observable(kind', timedOut) \ {s})
    /\ wait' = [wait EXCEPT ![s] = NoWait]
    /\ Pop
    /\ UNCHANGED <<slots, cycles, timedOut, fatal>>

\* The run coroutine lets clock cycles pass without suspending.
RunCycles(how) ==
    /\ Segment(run) /\ how \in Sites /\ ~ Top.abort
    /\ how = "sync" => ~ fatal
    /\ Push(Cycle(how, "edge"))
    /\ UNCHANGED <<slotVars, holds, fatal>>

\* A coroutine, service or checker raises a fatal error and goes on to the end
\* of its segment.
RaiseFatal ==
    /\ ~ fatal
    /\ In("run") \/ (In("cycle") /\ Top.at \in {"services", "checkers"})
    /\ fatal' = TRUE
    /\ UNCHANGED <<slotVars, holds, stack>>

\* The drive loop is over: harc_destroy_scheduler_threads.
Teardown ==
    /\ stack = <<Cycle("loop", "edge")>> /\ (run \in finished \/ fatal)
    /\ stack' = <<>> /\ slots' = <<>> /\ holds' = {}
    /\ UNCHANGED <<kind, cycles, timedOut, finished, fatal, wait>>

Over == stack = <<>> /\ UNCHANGED vars

Next ==
    \/ BootResume \/ BootEnd
    \/ Edge \/ QualifiedOver \/ Services \/ Checkers
    \/ TickStart \/ ResumeNext \/ Recheck
    \/ RegisterActors
    \/ \E s \in Slots : Suspend(s) \/ Finish(s)
    \/ \E how \in {"qualified", "sync"} : RunCycles(how)
    \/ RaiseFatal \/ Teardown \/ Over

\* One thread of control that keeps running, and a run coroutine that makes only
\* finitely many waits of its own before it suspends or ends.
Spec == Init /\ [][Next]_vars /\ WF_vars(Next) /\ SF_vars(Suspend(run) \/ Finish(run))

-----------------------------------------------------------------------------
\* s is resumed by the scheduler in this step (not started by a handler).
Resumes(s) ==
    /\ Len(stack') > Len(stack) /\ stack'[Len(stack')] = Run(s)
    /\ In("tick") \/ In("boot")

\* A coroutine that is on the stack is never resumed again: a nested
\* tick_except, reached from inside the run coroutine's `wait N cycles on clk`,
\* leaves that coroutine's slot alone although the slot still says Ready.
NoReentry ==
    \A i, j \in DOMAIN stack :
        stack[i].act = "run" /\ stack[j].act = "run" /\ stack[i].slot = stack[j].slot => i = j

\* Between two cycles of the drive loop no live coroutine is left Ready:
\* bootstrap has started every slot, those appended while it ran included, and
\* pass 2 has resumed every slot that any cascade made Ready.
NoReadyLeftBehind ==
    stack = <<Cycle("loop", "edge")>> =>
        \A s \in Range(slots) : kind[s] = "Ready" => s \in finished

\* "wait_cycles(N) and wait_until both promise at-least-one-cycle quantum from
\* the suspend": no coroutine runs again before the next scheduled posedge, and
\* so at most once per posedge.
Quantum == [][\A s \in Slots : Resumes(s) /\ wait[s] # NoWait => wait[s].age > 0]_vars

\* The wait that s was resumed from has lasted as long as was asked.
InTime(s) ==
    /\ wait[s].on = "WaitCycles" => wait[s].age = wait[s].n
    /\ wait[s].on = "WaitUntilTimeout" =>
          /\ wait[s].age <= wait[s].n
          /\ timedOut[s] => wait[s].age = wait[s].n

\* `wait N cycles` resumes at exactly the N-th scheduled posedge after the
\* suspend, for any mixture of drive loop cycles and cycles of clock-qualified
\* waits; that of a post_eval handler includes the posedge it starts at.  A
\* timed wait is over after at most N posedges, and it reports a timeout only at
\* the N-th.
WaitsInTime == [][\A s \in Slots : Resumes(s) => InTime(s)]_vars

\* "pred-true wins over a coincident timeout": a timed wait that reports a
\* timeout is not resumed in a state in which its predicate holds.
CascadeBeatsTimeout ==
    [][\A s \in Slots : Resumes(s) /\ wait[s].on = "WaitUntilTimeout" /\ timedOut[s]
          => s \notin holds]_vars

Running(s) == \E i \in DOMAIN stack : stack[i].act = "run" /\ stack[i].slot = s

\* No waiting coroutine is forgotten while the run goes on: one that waits for
\* cycles runs again, and so does one whose predicate stays true, because pass 1
\* or the re-check of pass 2 sees it and the resumption is not lost.
WaitersWake ==
    \A s \in Slots :
        /\ kind[s] = "WaitCycles" ~> (Running(s) \/ stack = <<>>)
        /\ (kind[s] = "WaitUntil" /\ s \in holds)
              ~> (Running(s) \/ (kind[s] = "WaitUntil" /\ s \notin holds) \/ stack = <<>>)

-----------------------------------------------------------------------------
\* Why the safety properties hold.  What may be on the stack: bootstrap or the
\* drive loop at the bottom, and above each activation only what it calls.
Base(f) == f.act = "boot" \/ (f.act = "cycle" /\ f.how = "loop")

Calls(f, g) ==
    \/ /\ g.act = "cycle" /\ g.how \in Sites \cap {"qualified", "sync"}
       /\ f.act = "run" /\ f.slot = run
    \/ /\ g.act = "tick" /\ g.excluded = Excluded(f.how)
       /\ f.act = "cycle" /\ f.how # "sync" /\ f.at \in {"edge", "checkers"}
    \/ /\ g.act = "run"
       /\ \/ f.act = "boot"
          \/ f.act = "cycle" /\ f.at \in {"services", "checkers"} /\ g.slot \in Tasks
          \/ f.act = "tick" /\ g.slot # f.excluded

Shaped ==
    /\ stack # <<>> => Base(stack[1])
    /\ \A i \in 2 .. Len(stack) : Calls(stack[i - 1], stack[i])

\* The common layout's run coroutine is started first, and registers the actors
\* before it does anything else.
Registered ==
    Capsule /\ stack # <<>> /\ ~ Actors \subseteq Range(slots) =>
        /\ slots = <<run>>
        /\ stack[1].act = "boot" /\ stack[1].i = Len(stack)
        /\ \/ Len(stack) = 1 /\ kind[run] = "Ready" /\ run \notin finished
           \/ Len(stack) = 2 /\ stack[2].act = "run" /\ stack[2].slot = run

\* resumed has a flag for every slot: none is added while a tick goes on.
Sized ==
    \A k \in DOMAIN stack : stack[k].act = "tick" =>
        stack[k].size = Len(slots) /\ stack[k].resumed \subseteq DOMAIN slots

\* The live coroutines that are Ready and not running are still ahead of the
\* innermost tick, or of bootstrap; the drive loop on its own leaves none.
Left == {s \in Range(slots) : kind[s] = "Ready" /\ s \notin finished /\ ~ Running(s)}

Ahead(f) ==
    CASE f.act = "boot" -> {slots[j] : j \in f.i .. Len(slots)}
      [] f.act = "tick" /\ f.at = "resume" ->
            {slots[j] : j \in (f.i .. Len(slots)) \ f.resumed}
      [] OTHER -> {}

Innermost(k) ==
    /\ stack[k].act \in {"boot", "tick"}
    /\ \A m \in k + 1 .. Len(stack) : stack[m].act # "tick"

Covered ==
    /\ \A k \in DOMAIN stack : Innermost(k) => Left \subseteq Ahead(stack[k])
    /\ (\A k \in DOMAIN stack : stack[k].act \in {"cycle", "run"}) => Left = {}

\* No handler suspends inside a tick: either the run coroutine lets no time pass
\* without suspending, or no handler suspends at all.
NoTaskInTick ==
    Sites \cap {"qualified", "sync"} = {} \/ Sites \cap {"post_eval", "checker"} = {}

Shape == TypeOK /\ Shaped
IInv == Shape /\ Registered /\ Sized /\ Covered

-----------------------------------------------------------------------------
\* Why waits end in time.  Between a posedge and the tick that follows it the
\* ages of the waits are one ahead of the countdowns.
Owes(f) == f.act = "cycle" /\ f.how # "sync" /\ f.at \in {"services", "tick"}

Pending ==
    stack # <<>> /\ (Owes(Top) \/ (Top.act = "run" /\ Owes(stack[Len(stack) - 1])))

Debt == IF Pending THEN 1 ELSE 0

\* A coroutine on the stack is live and its slot, which is registered, says
\* Ready; a slot that is not registered has never been written.
Known ==
    /\ \A s \in Slots :
          Running(s) => kind[s] = "Ready" /\ s \notin finished /\ s \in Range(slots)
    /\ stack # <<>> =>
          \A s \in Slots \ Range(slots) :
              kind[s] = "Ready" /\ s \notin finished /\ wait[s] = NoWait

\* The actors' slots come before that of the run coroutine, outside bootstrap.
Queued ==
    /\ \A i, j \in DOMAIN slots : slots[i] = slots[j] => i = j
    /\ ~ Capsule \/ (stack # <<>> /\ stack[1].act = "cycle") =>
          \A i, j \in DOMAIN slots : slots[i] = run /\ i < j => slots[j] \in Tasks
    /\ Sites \cap {"post_eval", "checker"} = {} => Range(slots) \cap Tasks = {}

\* When the run coroutine may let time pass, whoever is Ready was never started.
LetsTimePass(f) ==
    \/ f.act = "boot"
    \/ f.act = "run" /\ f.slot = run /\ Sites \cap {"qualified", "sync"} # {}

Fresh ==
    \A k \in DOMAIN stack :
        LetsTimePass(stack[k]) /\ (\A m \in k + 1 .. Len(stack) : stack[m].act # "tick") =>
            \A s \in Left : wait[s] = NoWait

\* The countdown and the age of a wait add up to what was asked.
InStep(s) ==
    /\ kind[s] \in {"WaitCycles", "WaitUntilTimeout"} =>
          /\ wait[s].on = kind[s] /\ cycles[s] > 0
          /\ cycles[s] + wait[s].age = wait[s].n + Debt
    /\ kind[s] = "WaitUntil" => wait[s].on = "WaitUntil" /\ wait[s].n = 0
    /\ s \in Left => InTime(s)

Timed == \A s \in Slots \ finished : InStep(s)

Times == Known /\ Queued /\ Fresh /\ Timed
TimeInv == IInv /\ Times

\* Every wait has seen a posedge when the next tick looks at it, and a tick does
\* not look again at a coroutine it has resumed.
Rested ==
    /\ \A s \in Left : wait[s] = NoWait \/ wait[s].age > 0
    /\ Pending => \A s \in Slots \ finished :
                     kind[s] \notin {"Ready", "Done"} => wait[s].age > 0
    /\ \A k \in DOMAIN stack : stack[k].act = "tick" =>
          \A j \in DOMAIN slots \ stack[k].resumed :
              /\ ~ Running(slots[j])
              /\ kind[slots[j]] \in PredKinds /\ slots[j] \notin finished
                    => wait[slots[j]].age > 0
=============================================================================
