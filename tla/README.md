# A TLA+ model of HARC

HARC compiles a verification language to C++20 testbenches. The compiler is written
in Rust (`src/src/`); what it emits runs on a header-only runtime (`src/runtime/`)
and drives a design under test (DUT), normally a Verilator model. This directory
models what such a testbench does at run time: how coroutines are scheduled, how
simulated time advances, how threads meet, how the testbench and an external
simulator take turns, how calls over a bus are made and answered, how transactions
are randomised. Of the compiler itself it models the part that has state which
outlives a call: the publication of generated files into a directory that several
compilers share. Much of the run-time control flow is text that the compiler prints,
so the model's definitions point at two kinds of source: the runtime headers, and
the lines of `src/src/codegen/` that emit the loops around them.

`PROJECT.json` lists the components, the runs, the correspondence of every
definition with its source lines (`map`), the findings, the hazards and the
theorems.

    tlc -workers 2 -config MCBarrier.cfg MCBarrier      # any MC*.cfg with its module
    tlapm MtDriveProofs.tla                             # any *Proofs.tla

`SchedulerProofs` takes tlapm about twenty minutes from nothing.

## 1. The system and its parts

| Part | State | Operations | What is hard about it | Module |
|---|---|---|---|---|
| Coroutine scheduler (`harc_thread_rt.h`) | slots with wait kind, count, predicate, timed-out flag; the `resumed` flags of a tick | `bootstrap`, `tick`, `tick_except`, three awaiters, teardown | coroutines that wake each other within a tick, slots appended while a loop walks them, ticks inside ticks | `Scheduler` |
| Thread barrier (`harc_thread_rt.h`) | `count`, `generation` | `wait` | two atomics updated one after the other; wrap-around | `Barrier`, `AbstractBarrier` |
| `--mt` drive | two barriers, shutdown flag, tick-due flag | drive loop, worker loop, clock-qualified waits, shutdown | unlocked state shared by main thread and workers | `MtDrive` |
| Clock grid and drive loop (`codegen/tbir/runtime.rs`, `common.rs`) | time, level, next edge and count of each clock, fatal flag | `eval_clocks_until`, the loop, four kinds of wait | waits that end between edges; a fatal in the middle of a wait | `ClockedRun` |
| Co-simulation bridge (`harc_cosim_rt.h`) | turn, request, verdict, the bridge's own clock | DPI entry points, `settle`, `advance_to_next_edge`, final block | one condition variable for two threads; two notions of time; the DUT may end the process | `CosimBridge` |
| TLM target responders (`codegen/tbir/func.rs`) | handshake wires, lane flags, captured arguments | responder, gate, dispatcher, lanes, arbiter | the responder acts between posedges, the DUT only at them | `TlmTarget`, `TlmTaggedTarget` |
| TLM initiators, channels (`codegen/tbir/func.rs`, `ir/lower/bus.rs`) | pending forks, tags, budgets, handshake wires | call, `fork`, `join_all`, `send`, `recv` | requests shown for one cycle, budgets running out, answers that come after that | `TlmInitiator` |
| Transactor drivers, monitors, queue | stimulus queues, cool-down latches | push, pop, handlers | handlers that suspend; queues shared by actors | planned |
| Test hooks and events | subscriber lists | dispatch, suspending handlers | a handler started in the middle of a cycle | in `Scheduler` (tasks) and `ClockedRun` (hooks) |
| Randomisation, automatic coverage (`harc_random_rt.h`, `codegen/randomize_renderer.rs`) | the solver's stack, histories shared by call sites, goals per site | solve, prefer, retry, recycle, defer, mark | retries that must not lose constraints, goals that cannot be reached | `Randomize` |
| Artifact publication (`codegen/common_artifacts.rs`) | files, manifest, recovery manifest, journal, lock; what of them is durable | `begin_publication`, `write`, `commit`, drop | crashes and power loss between any two steps, several compilers, edits by others | `Publication` |
| Trace, log, suite output | sequence numbers, file modes, counters | open, append, summarise | two writers of one file, failed open | planned |
| Wide words | arrays of 32-bit words | add, multiply, divide, shift, compare | carries and widths | planned |
| Compiler front end, lowering, verifier, passes, emission, solver front end, command line, offline tools | none that survives a call | pure translations | denotational questions | see section 8 |

How they interact: the drive loop advances the clock grid by one primary period;
at the rising edge post-eval services run; then the scheduler is ticked (under
`--mt` the actors' schedulers are ticked by a worker between two barriers), then
the checkers run. The run coroutine, a slot of the scheduler like any other, may
itself advance time (`wait 10 ns`, `wait N cycles on clk`, helper functions that
call `tick()`), which nests a cycle inside a tick. Responders and drivers are
actors of the scheduler. In co-simulation the DUT is in another process thread
and every evaluation is a turn of the bridge.

What each part has to guarantee:

* scheduler: nobody is re-entered, nobody is left Ready, every wait takes
  exactly its cycles, and nobody runs twice before the next posedge;
* barrier: no thread returns from a round that somebody has not joined;
* `--mt`: main thread and actors never touch shared state at the same time, and
  actors tick once per primary edge; the run ends;
* clock grid: every clock keeps its period whatever is waited for; a loop turn
  is one cycle; a fatal stops time, ends the test and is not outrun;
* bridge: exactly one side runs, both agree on the time, the exit status is
  honest, no wake-up is lost;
* responders: a request that the DUT saw accepted is served, once, with its own
  arguments, and its response is held until it is taken, as long as every cycle of a
  handshake has its tick;
* initiators: every statement returns; no request is issued twice and no response
  taken unread; a test that counted no error, and whose forks and joins run in the
  order of the text, has the right answers;
* randomisation: a call fails only if its constraints do, values repeat only when
  they must, the coverage report is true and no goal starves another;
* publication: a manifest never stands over a mixed set of files, nothing stale is
  forgotten, what a successful publication wrote is durable, and no leftover blocks
  the next one.

## 2. The modules

A component has a module with its state, actions and properties; a module
`MC<component>` that only extends it, with values for constants that a `.cfg`
cannot write; `.cfg` files; and, where something is proved, `<component>Proofs`.
The proofs about `Barrier` are in `MtDriveProofs` and those about both responders in
`TlmTargetProofs`. These extend one module (`MtDrive`, `TlmTaggedTarget`) and
instantiate the other, whose assumptions are hypotheses of its theorems.
Operators marked *Mutant* are plausible mistakes in the definition after them.
No action uses them; each is a way to break one property, listed in
`PROJECT.json`, and shows that the property depends on the code.

**Barrier, AbstractBarrier.** One action per atomic access of `Barrier::wait`.
`arrived` and `left` are history variables. The generation counter counts modulo
`GenMod`, so wrap-around is part of every run. The accesses interleave in
one global order; executions that only the acquire and release orders of the code
would allow are not explored. `AbstractBarrier` is what callers rely
on: join a round, return when all have joined.

**Scheduler.** One thread runs everything, so the state is the slots and a stack
of activations: bootstrap, a clock cycle, a tick in its pass 2, a coroutine
between two suspensions. A nested tick is just a deeper stack. What coroutines
compute is abstracted to what the scheduler can see: which awaiter they suspend
on and which predicates hold afterwards. `resumed` is a `std::vector<bool>` sized
when the tick begins; what is read past its end is arbitrary
(`ReadResumed`). `Sites` says what a program does beyond plain waits, `Capsule`
selects the common layout, whose run coroutine registers the actors while
`bootstrap` walks the slots. `wait` is history: what each slot waits for, and how
many scheduled posedges it has waited.

**MtDrive.** Main thread and workers with two instances of `AbstractBarrier`.
The TB-IR back end has one worker that ticks all actor schedulers, the native
back end one per actor; the set of workers is a parameter. `common`, chosen
initially, tells the layout that skips the actors in the cycle in which the run
ends from those that do not. `due` is `_harc_actor_tick_due`: an edge that a
clock-qualified wait has passed on to the actors is not passed on again.

**CosimBridge.** Simulator thread and body thread with one mutex and one
condition variable. A critical section is one step; `cv.wait` is modelled with
its wait set, so lost and spurious wake-ups are possible. The generated
SystemVerilog master process and its final block are the simulator's side.

**ClockedRun.** One step is one instant at which `eval_clocks_until` stops. The
run body may start any wait, in a hook or not, at any time, and suspend to the
drive loop in between; services, checkers and the body may raise a fatal at any
instant. The scheduler is reduced to the run coroutine's countdown, because
`Scheduler` covers the rest.

**TlmTarget, TlmTaggedTarget.** A cycle of the drive loop is a posedge, at which the
DUT samples the wires, and a tick, in which coroutines run from one `co_await` to the
next; for tagged methods the combinational gate, a post-eval service, runs in between.
Not every posedge has a tick. While a tick resumes coroutines, one of them may let
time pass: a helper that waits calls `tick()`, which evaluates the clocks and runs
checkers but not the scheduler, and a wall-clock wait calls `eval_clocks_until`, in a
responder's body as well (`Terminator::WaitTimePs`). `Unticked` is such a posedge, with
its gate. The history variable `slipped` says that one began or ended with a
request raised or with both sides of a response up, so that a handshake may have
completed in which no responder could take part; it is reset when both sides are at
rest. To the DUT it is a posedge like any other. The properties that need a tick in
every cycle of a handshake are conditional on `~ slipped`; section 4 says what happens
without one.

The body of a responder is its suspensions, and its result the argument it was given.
`TlmTarget` splits the tick into the two passes as far as the responder's slot goes
(`PassOne`, `Recheck`, `TickEnds`), because posedges may go by between them. The tagged
module repeats the tick of `ThreadScheduler` for its own coroutines, in one scheduler
or in one each (`--mt`); which coroutine sees which flag in which tick depends on that
order. The DUT is external: it holds a request until it is accepted and does not reuse
an outstanding tag, as the language specification demands (`src/spec.md` section 8),
and it uses the tags of the method's lanes. The gate refuses any other (`_tag < N`);
what the dispatcher's unguarded index would do with one that is on the wires after a
slip is not modelled (`Wires` chooses among the requests the DUT makes).

**TlmInitiator.** The straight-line C++ of a call, a fork, a join, a send or a recv
is cut at its cycle advances: `turn` says whether the emitted code or the DUT's
clock edge is next. `pc` is the wait the code is in, `b` its budget. A transaction
is a number and stands for its payload, so an answer delivered to the wrong
destination is visible. The target in the DUT is external: it answers a `blocking`
method in order and an `out_of_order` one in any order, as late as it likes, and
`stalls` lets it refuse a tagged request even when the tag's slot is idle.

The tag of a fork and the list a `join_all` drains are made when the test is lowered,
in the order of the text (`ir/lower/bus.rs`: `next_tlm_fork_tag`, `pending_tlm_forks`).
`pending` is the list at the place the code has reached; the k-th entry is the
transaction that the k-th fork statement of the list issued last, and its tag is
k - 1. In the order of the text, and through loops and branches that leave the list as
they found it, this is what a list kept at run time would be. A loop or branch
that forks without joining, or joins without forking, takes the code to a place with
another list: that is `Jump`, which chooses any list the text could have there
(entries that issued nothing included), and `strays` counts the jumps. The local a
statement captures into is declared and zeroed once, at the head of the function.

**Randomize.** A constraint is the set of its solutions, the solver a stack of
such sets, `check()` their intersection; the model Z3 returns and the values the
seed prefers are arbitrary. Soft constraints, the history frame, the preference
frame and the fallbacks are pushed and popped in the order of the emitted code.
Z3 answering `unknown` is not modelled. `hist` is shared by the sites; `hit` and
`deferred` are per site. The code also has `blocked` flags, which nothing sets any
more; they are left out. `before` and `drawn` are history.

**Publication.** Every operation of `commit` on the directory is a step, and so is
every `sync_directory`. For each name there is what processes see and the set of
values power loss may leave (`xfile`, `xmanifest`, `xrecovery`, `xpending`); a sync
makes the sets singletons. Staging is one step with `write`, because temporary
names are private and their contents are synced before they get a final name. A
failed call and a killed process look alike (`Abort`): the temporary files that only
the first of them removes have names that no manifest lists. `Edit` is anybody who
writes, deletes or restores a generated file without the lock and without a sync.
Restoring means the contents that a version with the present manifest has; anything
else that others write is `User`. `late`, `edited` and `unsynced` are history: files
written by others since the publisher last looked at them, since the publisher of the
manifest did, and since the last sync of the directory. A publisher cannot answer for
them. The last set matters when `commit` finds nothing to do: it returns without
a sync, on the strength of contents that somebody else may have just restored.

## 3. The runs

| Run | Instance | States | What it checks |
|---|---|---|---|
| `barrier` | 3 threads, 4 rounds, generation modulo 2 | 243 | refinement of `AbstractBarrier` with its liveness (`AbstractSpec`) |
| `scheduler` | 1 actor, the run coroutine, 1 suspending handler, waits up to 2 | 734 k | `NoReadyLeftBehind`, `Quantum`, `WaitsInTime` |
| `scheduler_nested` | common layout, 1 actor, nested ticks | 68 k | `NoReentry`, `NoReadyLeftBehind`, `WaitsInTime`, `WaitersWake` |
| `mt_drive` | 2 workers, 3 cycles, both kinds of layout | 3.6 k | `MainApart`, `ActorsKeepPace`, `RunCompletes` |
| `cosim_bridge` | half period 3, up to 4 settles, 4 edges | 2.0 k | `TimeAgrees`, `EdgesOnGrid`, `HonestExit`, `StepReturns` |
| `clocked_run` | half periods 2, 3, 1; time 12; waits up to 3 | 38 k | `NominalClocks`, `WaitsHonoured`, `WaitsExact`, `FatalEnds` |
| `tlm_target` | 2 arguments, bodies of 0 to 2 suspensions | 1.3 k | `RequestsCaptured`, `OneResponse`, `ResponseHeld`, `Answered` |
| `tlm_tagged_target` | 3 tags with an argument each, bodies of 1 cycle | 115 k | the same four properties per tag |
| `tlm_initiator` | 3 transactions, 2 tags, 1 jump, budgets of 2 and 3, all modes | 811 k | `NoSilentMismatch`, `AcceptedOnce`, `CaptureIsTransfer`, `RequestKept`, `Returns` |
| `randomize` | 3 fields of 2 values, all unique, 4 call sites | 54 k | `SolveContract`, `MinimalRepeat`, `HonestHits`, `Steered` |
| `publication` | 2 compilers, 3 files, 3 versions, 2 faults | 480 k | `ManifestHonest`, `NoOrphans`, `DurableSuccess`, `Finishes` |
| `task_in_tick` | a handler started inside a tick | | `Quantum`, expected to fail (section 4) |

The inductive invariants of the proofs (`IInv`, and `Tracked`, `CInv`, `AInv`,
`InOrder`, `HitInv` where there is more than one; the invariant of `Scheduler` in
the two passing runs, whose programs satisfy `NoTaskInTick`), the type invariants and
`NoEarlyReturn`, `StrictHandshake`, `OnePrimaryEdge` and `FatalStopsTime` hold in the
same instances; to see it, add them to the `INVARIANTS` or `PROPERTIES` of a
`.cfg`. They are not part of the runs because the proofs cover them.

Why the bounds suffice. Barrier: three threads give a last arrival, a thread
already in the next round and one still leaving the last; four rounds wrap the
generation twice. Scheduler: with two cycles a wait can be caught half done by a
nested cycle, and actor, run coroutine and task cover an earlier and a later
slot. Larger waits only repeat the countdown. Clocks: a primary clock between a
slower and a faster one, with edges of all three at 6 and 12, so windows begin at
every offset. Bridge: four settles are more than a half period of three
has room for. Responders: two arguments tell a stale answer from a right one; three
tags are the fewest with which the arbiter's priority can starve one, and each has an
argument of its own so that a mixed-up lane shows. After a slip the tagged run lets no
further posedge go by without a tick until all is at rest (`KeepSlipping`), since
nothing is claimed there; two tags with two arguments each, bodies of one and
two cycles and unlimited slips were checked once (2.8 million states). Initiators:
three transactions are a join of two and a later call, or a join that times out and a
reuse of its tags, before or after a jump. Four transactions on three tags without
jumps are `MCTlmInitiatorText.cfg` (340 k states, the same properties); with a jump as
well the invariants were checked once (16.6 million states). The budgets (16, 64 and 256
in the code) are small so that a target can be late by more than each of them.
Randomisation: two values per field exhaust a history after two calls; the
sites are one whose goals are half out of reach, one two of whose unique fields are
tied and run out together, after the third, one with a guard, and one without a
solution. Three unique fields are the least number with which forgetting one, and
forgetting all, differ from forgetting some. Publication: two versions with the same
manifest and one with another, which shares a file, give mixed sets, stale files
and reuse; two faults are a crash during the recovery from a crash,
or an edit and its restoration before an early return; three were checked once (3.3
million states, the invariants).

No run switches the deadlock check off. Where a system stops (`Scheduler`,
`Barrier`, `MtDrive`, `CosimBridge`, `ClockedRun`), the final state has a
stuttering step of its own, and everything else that blocks is an error.

**Fairness.** Single-threaded modules assume only that the thread keeps running
(weak fairness of the next step), and that a test body makes finitely many waits of
its own before it suspends or ends (strong fairness of suspending or ending);
without the second a body that loops over `wait 1 ns` keeps everyone else waiting
for ever, legitimately. Threads (`Barrier`, `MtDrive`, `CosimBridge`) are each
weakly fair, which an operating system provides; spurious wake-ups are never relied
upon. For the responders, a tick comes to its end (coroutines let time pass in it
finitely often), and the DUT has to be ready for a response again and again. For the
initiators nothing is assumed of the DUT but that its clock ticks; `Returns` is
about targets that never answer, too. `Steered` has its own premise, that the site
goes on being called. Publication: a process that runs keeps running (weak fairness
of each compiler's steps); nobody is obliged to begin, and faults need not happen.

## 4. Findings

One run is expected to fail, because the code does what its comment rules out:

* `task_in_tick`: a suspending handler fired from inside a tick (a checker run by a
  helper's `tick()` in the run coroutine) appends a slot; `resumed` has no flag for
  it, and the read past the end may let the task run twice before the next posedge.
  `PROJECT.json` quotes the comment.

The following disagree with a comment or a document as well. They are not among the
runs; the `.cfg` named reproduces each.

* `MCSchedulerCascade.cfg` (`CascadeBeatsTimeout`): a timed wait that pass 1 has
  marked as timed out is resumed as timed out although an earlier coroutine of the
  same tick has just made its predicate true. The re-check only looks at slots that
  still wait; its comment says "pred-true wins over a coincident timeout"
  (`src/runtime/harc_thread_rt.h:1743`).
* `MCClockedRunDump.cfg` (`DumpOnce`): a wait in the first segment of the run body
  dumps the instant it stops at, and the drive loop dumps the same instant again
  when it settles; the comment says "exactly once per `now_ps`"
  (`src/src/codegen/tbir/runtime.rs:1995`).
* `MCTlmTargetBackToBack.cfg` (`RequestsCaptured`): an initiator that raises its next
  request at the posedge at which it takes a response gets a handshake that the
  responder never sees, because `req_ready` goes up before the responder looks
  (`src/spec.md:2089`). One idle cycle between calls, as in `tlm_target`, avoids it.
* `MCTlmTargetUnticked.cfg` (`AlwaysCaptured`): a posedge inside a helper's `tick()`
  or a wall-clock wait completes a request that the responder, which is not
  scheduled there, never sees; the DUT waits for ever. The same document says that
  the responder "captures request args on the req handshake". Tagged responders lose
  requests, and responses are taken twice or overwritten, in the same way. The other
  properties of the responders hold as long as such posedges stay clear of the
  handshakes.
* `MCTlmInitiatorChannel.cfg` (`ChannelReported`): a `send` or `recv` whose budget runs
  out counts no error. `src/src/codegen/mod.rs:23` names both among the waits that
  the bound is for, and `docs/2026-06-16-tlm-handshake-wait-timeout-diagnostics.md`
  says that "each expiry" emits a FAIL; but these two are lowered by
  `lower_budget_wait_low`, which falls through silently.
* `MCTlmInitiatorMixed.cfg` (`NoSilentMismatch`): a direct call of a blocking method
  while forks of it are pending takes the response of the oldest fork. The lowering
  refuses the same mixture for `out_of_order` methods only; `src/spec.md:1992` says
  that responses of blocking methods are consumed in issue order.
* `MCTlmInitiatorLoop.cfg` (`MatchedAnywhere`): tags and lists are static, so a branch
  that skips a `join_all`, or a loop that forks more often than it joins, issues a tag
  again that is in use, or drains an entry that was never issued. The answer of
  the abandoned fork is then stored for another transaction without an error, also for
  `blocking` methods. The comment at `src/src/ir/lower/bus.rs:1202` says that "Tags name
  outstanding requests, not source locations".

Met on the way, without a run of their own:

* `Quantum` is not among the properties of `scheduler_nested`: `resumed` belongs to
  one tick, so an actor resumed by a nested tick may be resumed again by the
  enclosing one before the next posedge.
* A `wait N cycles` in a post-eval handler counts the posedge it starts at, unlike
  one in a checker handler: the tick of that cycle is still to come
  (`FirstAge` in `Scheduler`).
* Tagged responders (`BackToBack = TRUE`): a request for another tag at the posedge
  right after an accepted one is promised by the gate while the dispatcher sits out
  its one cycle, and is lost.
* Tagged responders whose body does not wait (`0 \in Bodies`) may show the
  response at the same posedge at which the DUT sees its request accepted.
* `when` (`Discriminate`): the discriminator is fixed by a solve that does not see the
  guarded constraints and is not reconsidered. A call fails if the branch chosen has
  no solution although another has one. `src/spec.md:897` describes the order;
  that unsatisfiable variants are "eliminated as whole branches" does not follow from
  it. `SolveContract` is therefore about calls without guards.
* With three or more unique fields, a call that has to repeat values of two of them
  may repeat values of the others as well: the fallback after forgetting one
  history is to forget all. `MinimalRepeat` therefore speaks of calls that can do
  with none or one.
* A call that fails forgets all unique histories (`RecycleAll` comes before the
  verdict), and a soft constraint is accepted before the histories are looked at, so
  that it may cause a repetition.
* `docs/constraint-system-plan.md:132` describes goals that become *blocked* and are
  skipped; the code defers and retries them, which is what `Steered` is about.
* The arbiter's fixed priority starves a low tag with three tags or more, if two higher
  ones are requested again and again. That is the only way: `Answered`.
* `commit` with nothing to do returns success without a sync. A file that others
  changed and restored in the meantime may come back changed after power loss, under a
  manifest that stands; `DurableSuccess` excepts such files (`unsynced`) and so,
  through `edited`, does `ManifestHonest`.

## 5. What is proved

TLAPS checks the following for every value of the constants (sets of threads,
half periods, bounds, lengths of bodies). The assumptions are the named `ASSUME`s
of the modules: finite non-empty thread sets, a generation counter of at least two
values, positive half periods, natural bounds.

* **MtDriveProofs, the barrier.** `NoEarlyReturn` is not inductive: it says nothing
  about `count`. `CountIsHeld` says that `count` is the number of threads held in the
  open round, or that the last arrival is between its two stores and everybody else
  spins; `RoundsAgree` that a thread about to arrive holds the current generation and
  that all threads agree on the number of rounds over. Two lemmas carry the counting:
  the held threads are at most `target`, and the fetch_add that reaches `target` is
  that of the only thread not yet held; the rest is one lemma per atomic access.
  `BarrierRefinement` shows that every step is a step of `AbstractBarrier` or a
  stutter.
* **MtDriveProofs, the drive loop.** Each thread's four counters follow from its place
  (`MainCounts`, `WorkerCounts`), the barriers relate the counters of different
  threads (`BarriersKept`), and `EdgesOwed` is the number of edges the actors have
  not seen. Together they put the main thread inside the barriers whenever a
  worker ticks (`Apart`), tie ticks to edges (`KeepPace`), and exclude ticks after
  shutdown (`ShutdownIsFinal`).
* **CosimBridgeProofs.** `Control` says who may be where and that nobody sleeps
  through its turn, `Timing` how the bridge's clock relates to the simulator's
  during a yield, a delay and a resumption, `Grid` that settles are all that takes
  time between two edges.
* **ClockedRunProofs.** Every next edge is less than a half period ahead (`Ahead`),
  and the one rising primary edge of a window is either ahead or counted
  (`InWindow`); hence one turn is one cycle (`OneCycle`), and time stands still
  after a fatal (`FatalIsFinal`). With `Ahead`, an instant passes at most one edge of
  each clock, which makes `NominalClocks` inductive (`Nominal`). For the waits,
  `Tracked` ties what a wait has left to what time and the edge counts say has
  passed since it began, for each kind of wait and each place in the loop
  (`Tracking`); `Honoured` and `Exact` read off it when a wait may end.
* **SchedulerProofs.** For any number of coroutines, every layout and every program.
  `Shape` says what may be on the stack of activations: bootstrap or the drive loop
  at the bottom, and above each activation only what it calls. The run coroutine is
  then at most once on it, a cycle that it drives excludes it from its ticks, and any
  other coroutine on the stack is on top; hence `Reentry`. `NothingLeft` needs three
  more facts. `Covered`: a coroutine that is Ready and not running is still ahead of the
  innermost resume loop, or no such loop goes on and there is none. `Sized`: the flags
  of a tick cover all slots, so that no slot ahead is passed over because of a flag that
  is not its own. `Registered`: in the common layout bootstrap is still at the
  run coroutine while the actors are not registered. `Sized` is where the finding
  `task_in_tick` bites, so the theorem assumes `NoTaskInTick`: either the run
  coroutine lets no time pass without suspending, or no handler suspends.

  `InTimeAlways` (`WaitsInTime`) needs the age of a wait, which the model counts at
  posedges, tied to the countdown, which the code decrements in pass 1 of a tick.
  Between a posedge and its tick the ages are one ahead (`Debt`), and whoever suspends
  there starts one ahead; `Timed` says this of every wait. To keep it, nobody may be
  Ready, with a wait over, while more posedges pass: `Fresh` says that where the run
  coroutine may let time pass, whoever is Ready and not running has never waited. That
  in turn needs the order of the slots (`Queued`: the run coroutine is behind all
  actors, so a tick that resumes it has resumed them) and that the slots not yet
  registered, and those running, are Ready (`Known`). The assumption is again
  `NoTaskInTick`. `OneCycleAtLeast` (`Quantum`) adds `Rested`: a wait has seen a
  posedge whenever a resume loop may still look at it, and a tick's flags keep it from
  looking again at whoever it has resumed. Nested ticks break that (section 4), so
  this theorem assumes that the run coroutine makes no clock-qualified waits as well.
  The steps are in `NextShape`, `NextRest` and `NextTimes`, one named step per action.
* **RandomizeProofs.** For any fields, values, unique fields and call sites. `Meaning`
  says what the solver's stack stands for at each step of a call: after the n-th soft
  constraint the best solutions as far as the first n go (`Settled`), which also
  agree on those n, so that one more check decides the next; then all best
  solutions; then those that repeat nothing, unless there are none; while
  histories are forgotten one by one, that no best solution does with a field tried
  before. The best solutions are defined without the solver (`Best`: no solution
  prevails at the first soft constraint on which it differs). `Contract` and `Spared`
  are the last entries of that list. `Honest` rests on a lemma that the part of
  a tuple kept in `drawn` decides which goals it agrees with. What is assumed of the
  sites is in `SitesAssumption`.
* **TlmTargetProofs, `blocking`.** `Ticking` and `Driven` hold in every state: what the
  tick has found out about the responder's slot, and what the responder drives at each
  `co_await`. Unless a handshake slipped by, `Awaiting` gives the DUT's state for each
  `co_await` before and after the drive loop's posedge, and `Answering` follows the
  argument from wire to response. A posedge without a tick that does not slip leaves
  the DUT idle or waiting, which is what makes the second half inductive.
  `BlockingHeld` needs the first half only and has no such condition. The theorems
  assume `~ BackToBack`; `MCTlmTargetBackToBack.cfg` shows that they need it, and
  `MCTlmTargetUnticked.cfg` that `~ slipped` is needed.
* **TlmTargetProofs, `out_of_order`.** For any number of lanes, and both ways of
  registering the coroutines. The invariant is who owns a lane: `Owned` says for
  each place of a lane's coroutine which of its flags are up and that it serves the
  request its tag is outstanding with, from the capture until the DUT has taken the
  response. `Dispatching` and `Arbitrating` say the same of the two coroutines that
  talk to the DUT, separately for the part of the tick before and after they have
  looked at the wires (`Decided`, `Looked`); `Due` that a coroutine found Ready
  still has its reason when its turn comes, whoever runs before it. Each coroutine's
  step is one lemma; what a step does to the coroutines it does not belong to is
  proved once (`DispatchingKept`, `ArbitratingKept`, `LaneKept`), and so are the end
  of a scheduler's tick and a pass that wakes coroutines (`EndTurnInv`, `WakeInv`).
  The theorems assume `~ BackToBack` and that no body is empty (`0 \notin Bodies`),
  and claim nothing from a slip until all is at rest; section 4 says what happens
  otherwise.
* **TlmInitiatorProofs.** For any number of transactions and tags and any budgets,
  in four layers. `IInv` follows the request: what is on the wires is the last
  transaction issued, not accepted before its edge (`Presenting`), which gives
  `NoDuplicate`. `CInv` follows the response: the places where `rsp_ready` is up,
  that what is captured is what has been transferred and, between a capture and its
  edge, one more (`Balance`), which gives `CapturesMatch`, and the list of forks
  with its static tags, all different in the order of the text (`Pending`). `AInv`
  adds the target: it holds each request once (`Held`), and, while no error is
  counted and no jump made, a tag tells its answers apart (`ByTag`), and no
  `blocking` request is withdrawn (`Carried`); with it comes `NeverWithdrawn`. For a
  `blocking` method the answers are right because everything happens in the order of
  issue (`InOrder`: the target's queue, the responses taken and the forks pending
  are consecutive numbers). `RightAnswers` combines the last two. It assumes
  `~ Mixed`, without which it is false (`MCTlmInitiatorMixed.cfg`). It and
  `NeverWithdrawn` speak of behaviours without jumps: a jump issues a tag
  that is in use (`MCTlmInitiatorLoop.cfg`).
  `NoDuplicate` and `CapturesMatch` hold with any number of jumps.
* **PublicationProofs.** For any number of compilers, files, versions and faults.
  `ManifestHonest` speaks of what is visible, but power loss can bring back what was
  visible before, so the invariant speaks of everything that may survive: `Trusted`
  says that every manifest that may survive stands over files that survive with it,
  `Accounted` that whatever combination of manifest, recovery manifest and journal
  survives, it owns every published file that may survive, `Quiet` that nothing a
  publication wrote is waiting for a sync when there is no journal, `Vouched` that
  whatever survives knows the present manifest, whose files others may restore.
  `AtStage` is what the lock's holder knows between two steps: from the invalidation
  on only its own journal survives, while files change no manifest does, after the
  installation all its files do. There is one lemma per action; the theorems are
  `HonestManifest`, `NothingLeftBehind` and `SuccessIsDurable`. The assumptions are
  that names are distinct (`NamesAssumption`), that files are numbered, that there
  is a version, and that manifests list files.

Where a module instantiates the one it proves about, the `ASSUME`s of that module are
hypotheses of the theorems (`DriveConstants`, `MaxBody \in Nat`).

Only model-checked: all liveness properties and the liveness part of the
refinement (fairness is out of this prover's reach), and the order in which
`Randomize` picks its goals, a fold over lists of fields whose result would need
induction over data (no theorem depends on it).

## 6. Hazards

`PROJECT.json` lists the places where this code is hard to test, with the
properties that would notice. Those without a property belong to parts that are
planned, to an assumption named in the note, or to a property that does not hold
(section 4).

## 7. Plan

In this order:

1. `TlmInitiator` composed with `TlmTarget` and `TlmTaggedTarget`, and used by
   several coroutines.
2. `Scheduler`: clock-qualified waits in hooks that actors dispatch.
3. `Drivers`: queue-fed driver actors, the queue, handshake monitors with their
   cool-down latch; error counter and fatal flag under `--mt`.
4. `ClockedRun`: the loop of a test without clocks, periodic and watchdog services.
5. `SuiteOutput`: suite loop, truncate and append, trace writer. The emission
   worker pools.
6. `WideWords`, `Ranges`: word arithmetic and range sampling as functions, compared
   with integer arithmetic over small words.
7. Compiler passes that are fixed points over graphs (`lower_coroutine.rs`,
   `placement.rs`, `runtime_cells.rs`) as operators against reference definitions.

A new module gets one run with one instance.

## 8. What is not modelled, and why

* Lexer, parser, lowering, verifier and C++ emission are pure translations without
  state between calls. Their output is modelled; that the text printed is the text
  modelled rests on the `map`.
* Constraint translation and Z3: the question is whether two formulas mean the same.
  `Randomize` starts where the constraints are sets of solutions.
* Most of the repository is such translation: lowering, two C++ back ends and their
  tests are well over a hundred thousand lines of which the models cover the few
  thousand that decide control flow at run time or touch shared files.
* In `Scheduler` only the run coroutine lets time pass without suspending. Bodies of
  responders and hooks that actors dispatch can do so too (`func.rs:7987`); the
  responders' modules have those posedges, but not the nested ticks of a clock-qualified
  wait (`wait N cycles on clk` by the run coroutine), which are in `Scheduler` only.
* Weak memory, and data races inside what an actor does in its tick.
* Functional coverage bins and the register model: counters and mirrors updated from
  the checker pass and over TLM calls; after items 1 and 3 of the plan.
* Process handling and the build driver, except the co-simulation harness and the
  publication. The reader of a published set (the build) is not in the model; it
  reads after the lock was released, so `ManifestHonest` holds at each instant but a
  build may still overlap the next publication. Layouts without a manifest write
  files in place.
* Payloads, formatting, logging and trace text: no property depends on them.
