-------------------------- MODULE SchedulerProofs --------------------------
(***************************************************************************)
(* The drive loop, bootstrap() and tick(), for any number of coroutines    *)
(* and every layout.                                                       *)
(*                                                                         *)
(* Shape says what can be on the stack: above each activation only what it *)
(* calls.  From it follows that no coroutine is resumed while it is        *)
(* running (Reentry).  Covered says that what is Ready and not running is  *)
(* still ahead of the innermost resume loop; it needs Sized, that the      *)
(* flags of a tick cover all slots, which holds when no handler suspends   *)
(* inside a tick (NoTaskInTick).  From them follows that the drive loop    *)
(* leaves no Ready coroutine behind (NothingLeft).                         *)
(*                                                                         *)
(* Times relates the countdowns to the posedges that have passed: what a   *)
(* wait has counted down, and what it has seen, differ by one between a    *)
(* posedge and its tick (Debt) and by nothing elsewhere.  From it follows  *)
(* that waits end in time (InTimeAlways).  Rested says that what the next  *)
(* resume loop may look at has seen a posedge; from it follows that every  *)
(* wait takes one (OneCycleAtLeast), where the run coroutine makes no      *)
(* clock-qualified waits.                                                  *)
(*                                                                         *)
(* NextShape, NextRest and NextTimes say that every step keeps these.      *)
(* Each has one step named for each action (EdgeShape, ...), after the     *)
(* facts only these steps use.                                             *)
(***************************************************************************)
EXTENDS Scheduler, TLAPS

-----------------------------------------------------------------------------
\* Sequences.

\* Elements of a concatenation.
LEMMA ConcatFacts ==
    ASSUME NEW S, NEW u \in Seq(S), NEW v \in Seq(S)
    PROVE  /\ u \o v \in Seq(S) /\ Len(u \o v) = Len(u) + Len(v)
           /\ \A i \in 1 .. Len(u) + Len(v) :
                (u \o v)[i] = IF i <= Len(u) THEN u[i] ELSE v[i - Len(u)]
  OBVIOUS

\* The k-th element moves to the end.
LEMMA MoveLast ==
    ASSUME NEW S, NEW s \in Seq(S), NEW k \in 1 .. Len(s)
    PROVE  LET t == SubSeq(s, 1, k - 1) \o SubSeq(s, k + 1, Len(s)) \o <<s[k]>>
           IN  /\ t \in Seq(S) /\ Len(t) = Len(s)
               /\ \A i \in 1 .. Len(s) - 1 : t[i] = s[IF i < k THEN i ELSE i + 1]
               /\ t[Len(s)] = s[k]
               /\ Range(t) = Range(s)
<1> DEFINE u == SubSeq(s, 1, k - 1)
           v == SubSeq(s, k + 1, Len(s))
           w == u \o v
           z == <<s[k]>>
           t == w \o z
<1>0. Len(s) \in Nat /\ k \in Nat /\ k >= 1 /\ k <= Len(s) /\ \A i \in 1 .. Len(s) : s[i] \in S
  OBVIOUS
<1> USE <1>0
<1>1. /\ u \in Seq(S) /\ Len(u) = k - 1
      /\ \A i \in 1 .. k - 1 : u[i] = s[i]
  <2>1. \A i \in 1 .. k - 1 : s[i] \in S
    OBVIOUS
  <2>2. /\ u \in Seq(S) /\ Len(u) = IF 1 <= k - 1 THEN (k - 1) - 1 + 1 ELSE 0
        /\ \A i \in 1 .. (k - 1) - 1 + 1 : u[i] = s[1 + i - 1]
    OBVIOUS
  <2> HIDE DEF u
  <2> QED
    BY <2>2
<1>2. /\ v \in Seq(S) /\ Len(v) = Len(s) - k
      /\ \A i \in 1 .. Len(s) - k : v[i] = s[k + i]
  <2>1. \A i \in k + 1 .. Len(s) : s[i] \in S
    OBVIOUS
  <2>2. /\ v \in Seq(S) /\ Len(v) = IF k + 1 <= Len(s) THEN Len(s) - (k + 1) + 1 ELSE 0
        /\ \A i \in 1 .. Len(s) - (k + 1) + 1 : v[i] = s[(k + 1) + i - 1]
    OBVIOUS
  <2> HIDE DEF v
  <2> QED
    BY <2>2
<1>3. z \in Seq(S) /\ Len(z) = 1 /\ z[1] = s[k]
  OBVIOUS
<1> HIDE DEF u, v, z
<1>4. /\ w \in Seq(S) /\ Len(w) = Len(u) + Len(v)
      /\ \A i \in 1 .. Len(u) + Len(v) : w[i] = IF i <= Len(u) THEN u[i] ELSE v[i - Len(u)]
  BY Zenon, <1>1, <1>2, ConcatFacts
<1>5. Len(w) = Len(s) - 1
  BY <1>1, <1>2, <1>4
<1>6. ASSUME NEW i \in 1 .. Len(s) - 1
      PROVE  w[i] = s[IF i < k THEN i ELSE i + 1]
  <2>1. w[i] = IF i <= Len(u) THEN u[i] ELSE v[i - Len(u)]
    BY Zenon, <1>4, <1>5
  <2>2. i \in Nat /\ i >= 1 /\ i <= Len(s) - 1
    OBVIOUS
  <2>3. CASE i < k
    <3>1. i <= Len(u) /\ i \in 1 .. k - 1
      BY <1>1, <2>3
    <3> QED
      BY Zenon, <1>1, <2>1, <2>3, <3>1
  <2>4. CASE ~ (i < k)
    <3>1. ~ (i <= Len(u)) /\ i - Len(u) \in 1 .. Len(s) - k /\ k + (i - Len(u)) = i + 1
      BY <1>1, <2>4
    <3>2. w[i] = s[k + (i - Len(u))]
      BY Zenon, <1>2, <2>1, <3>1
    <3> QED
      BY Zenon, <2>4, <3>1, <3>2
  <2> QED
    BY Zenon, <2>3, <2>4
<1> HIDE DEF w
<1>c. t = w \o z
  OBVIOUS
<1> HIDE DEF t
<1>7. /\ t \in Seq(S) /\ Len(t) = Len(w) + Len(z)
      /\ \A i \in 1 .. Len(w) + Len(z) : t[i] = IF i <= Len(w) THEN w[i] ELSE z[i - Len(w)]
  <2>1. w \in Seq(S) /\ z \in Seq(S)
    BY Zenon, <1>3, <1>4
  <2> QED
    BY Zenon, <2>1, <1>c, ConcatFacts
<1>8. /\ Len(t) = Len(s) /\ t[Len(s)] = s[k]
      /\ \A i \in 1 .. Len(s) - 1 : t[i] = w[i]
  <2>1. Len(w) + Len(z) = Len(s) /\ Len(s) \in 1 .. Len(s) /\ Len(s) - Len(w) = 1 /\ ~ (Len(s) <= Len(w))
    BY <1>3, <1>5
  <2>2. t[Len(s)] = z[1]
    BY Zenon, <1>7, <2>1
  <2>3. \A i \in 1 .. Len(s) - 1 : i \in 1 .. Len(s) /\ i <= Len(w)
    BY <1>5
  <2> QED
    BY Zenon, <1>3, <1>7, <2>1, <2>3
<1>9. \A i \in 1 .. Len(s) - 1 : t[i] = s[IF i < k THEN i ELSE i + 1]
  BY Zenon, <1>6, <1>8
<1>d. DOMAIN s = 1 .. Len(s) /\ DOMAIN t = 1 .. Len(s)
  BY <1>8
<1>e. Range(s) = {s[i] : i \in 1 .. Len(s)} /\ Range(t) = {t[i] : i \in 1 .. Len(s)}
  BY Zenon, <1>d DEF Range
<1>10. Range(t) \subseteq Range(s)
  <2> SUFFICES ASSUME NEW i \in 1 .. Len(s) PROVE \E j \in 1 .. Len(s) : t[i] = s[j]
    BY Zenon, <1>e
  <2>1. CASE i = Len(s)
    BY Zenon, <1>8, <2>1
  <2>2. CASE i # Len(s)
    <3>1. i \in 1 .. Len(s) - 1 /\ (IF i < k THEN i ELSE i + 1) \in 1 .. Len(s)
      BY <2>2
    <3> QED
      BY Zenon, <1>9, <3>1
  <2> QED
    BY Zenon, <2>1, <2>2
<1>11. Range(s) \subseteq Range(t)
  <2> SUFFICES ASSUME NEW i \in 1 .. Len(s) PROVE \E j \in 1 .. Len(s) : s[i] = t[j]
    BY Zenon, <1>e
  <2>1. CASE i < k
    <3>1. i \in 1 .. Len(s) - 1
      BY <2>1
    <3> QED
      BY Zenon, <1>9, <2>1, <3>1
  <2>2. CASE i = k
    <3>1. Len(s) \in 1 .. Len(s)
      OBVIOUS
    <3> QED
      BY Zenon, <1>8, <2>2, <3>1
  <2>3. CASE i > k
    <3>1. PICK j \in 1 .. Len(s) : j \in 1 .. Len(s) - 1 /\ ~ (j < k) /\ j + 1 = i
      <4>1. i - 1 \in 1 .. Len(s) /\ i - 1 \in 1 .. Len(s) - 1 /\ ~ (i - 1 < k) /\ (i - 1) + 1 = i
        BY <2>3
      <4> QED
        BY Zenon, <4>1
    <3> QED
      BY Zenon, <1>9, <3>1
  <2> QED
    BY <2>1, <2>2, <2>3
<1> QED
  BY Zenon, <1>10, <1>11 DEF t, w, u, v, z

-----------------------------------------------------------------------------
\* The run coroutine is a slot of its own, neither a handler nor an actor.
LEMMA SlotFacts ==
    /\ run \in Slots /\ Tasks \subseteq Slots /\ Actors \subseteq Slots
    /\ run \notin Actors /\ run \notin Tasks /\ run # NoSlot /\ NoSlot \notin Slots
    /\ run \in Nat /\ \A i \in 1 .. run : i \in Slots
BY ConstantsAssumption DEF Actors, Tasks, Slots, run, NoSlot

-----------------------------------------------------------------------------
\* Activations.

\* act tells the four kinds of activations apart.
LEMMA FrameKinds ==
    ASSUME NEW f \in Frames
    PROVE  /\ f.act \in {"boot", "cycle", "run", "tick"}
           /\ f.act = "boot" <=> f \in BootFrames
           /\ f.act = "cycle" <=> f \in CycleFrames
           /\ f.act = "run" <=> f \in RunFrames
           /\ f.act = "tick" <=> f \in TickFrames
<1> USE DEF Frames, BootFrames, CycleFrames, RunFrames, TickFrames
<1>1. f \in BootFrames => f.act = "boot"
  OBVIOUS
<1>2. f \in CycleFrames => f.act = "cycle"
  OBVIOUS
<1>3. f \in RunFrames => f.act = "run"
  OBVIOUS
<1>4. f \in TickFrames => f.act = "tick"
  OBVIOUS
<1> HIDE DEF BootFrames, CycleFrames, RunFrames, TickFrames
<1> QED
  BY <1>1, <1>2, <1>3, <1>4

\* bootstrap() about to resume the i-th slot.
LEMMA BootFacts ==
    ASSUME NEW i \in Nat \ {0}
    PROVE  Boot(i) \in BootFrames /\ Boot(i).act = "boot" /\ Boot(i).i = i
BY DEF Boot, BootFrames

\* A cycle of the drive loop, of a qualified wait or of a synchronous one.
LEMMA CycleFacts ==
    ASSUME NEW how \in {"loop", "qualified", "sync"}
    PROVE  LET g == Cycle(how, "edge")
           IN  g \in CycleFrames /\ g.act = "cycle" /\ g.how = how /\ g.at = "edge"
BY DEF Cycle, CycleFrames

\* A resumed coroutine.
LEMMA RunFacts ==
    ASSUME NEW s \in Slots
    PROVE  Run(s) \in RunFrames /\ Run(s).act = "run" /\ Run(s).slot = s
BY DEF Run, RunFrames

\* A coroutine told that its cycles were cut short.
LEMMA AbortFacts ==
    ASSUME NEW f \in RunFrames, NEW b \in BOOLEAN
    PROVE  LET g == [f EXCEPT !.abort = b]
           IN  g \in RunFrames /\ g.act = "run" /\ g.slot = f.slot
BY DEF RunFrames

\* A cycle moves on.
LEMMA AtFacts ==
    ASSUME NEW f \in CycleFrames, NEW x \in {"edge", "services", "tick", "checkers"},
           x = "tick" => f.how # "sync"
    PROVE  LET g == [f EXCEPT !.at = x]
           IN  g \in CycleFrames /\ g.act = "cycle" /\ g.how = f.how /\ g.at = x
BY DEF CycleFrames

\* A cycle goes to its checkers.
LEMMA OwedFacts ==
    ASSUME NEW f \in CycleFrames, NEW b \in BOOLEAN
    PROVE  LET g == [f EXCEPT !.at = "checkers", !.owed = b]
           IN  g \in CycleFrames /\ g.act = "cycle" /\ g.how = f.how /\ g.at = "checkers"
<1> DEFINE g1 == [f EXCEPT !.at = "checkers"]
           g2 == [g1 EXCEPT !.owed = b]
<1>1. g1 \in CycleFrames /\ g1.act = "cycle" /\ g1.how = f.how /\ g1.at = "checkers"
  BY DEF CycleFrames
<1>2. g2 \in CycleFrames /\ g2.act = "cycle" /\ g2.how = g1.how /\ g2.at = g1.at
  <2> HIDE DEF g1
  <2> QED
    BY <1>1 DEF CycleFrames
<1> QED
  BY <1>1, <1>2, Zenon

\* tick() begins before the first slot, with nothing resumed.
LEMMA TickFacts ==
    ASSUME slots \in Seq(Slots), NEW x \in {NoSlot, run}
    PROVE  LET g == Tick(x)
           IN  /\ g \in TickFrames /\ g.act = "tick" /\ g.excluded = x /\ g.at = "resume"
               /\ g.size = Len(slots) /\ g.resumed = {} /\ g.i = 1
BY DEF Tick, TickFrames

\* tick() re-checks the predicates.
LEMMA RecheckFacts ==
    ASSUME NEW f \in TickFrames
    PROVE  LET g == [f EXCEPT !.at = "recheck"]
           IN  /\ g \in TickFrames /\ g.act = "tick" /\ g.excluded = f.excluded /\ g.at = "recheck"
               /\ g.size = f.size /\ g.resumed = f.resumed
BY DEF TickFrames

\* tick() starts another round, with the same flags.
LEMMA RoundFacts ==
    ASSUME NEW f \in TickFrames
    PROVE  LET g == [f EXCEPT !.at = "resume", !.i = 1, !.changed = FALSE]
           IN  /\ g \in TickFrames /\ g.act = "tick" /\ g.excluded = f.excluded /\ g.at = "resume"
               /\ g.size = f.size /\ g.resumed = f.resumed /\ g.i = 1
<1> DEFINE g1 == [f EXCEPT !.at = "resume"]
           g2 == [g1 EXCEPT !.i = 1]
           g3 == [g2 EXCEPT !.changed = FALSE]
<1>1. /\ g1 \in TickFrames /\ g1.act = "tick" /\ g1.excluded = f.excluded /\ g1.at = "resume"
      /\ g1.size = f.size /\ g1.resumed = f.resumed
  BY DEF TickFrames
<1>2. /\ g2 \in TickFrames /\ g2.act = "tick" /\ g2.excluded = g1.excluded /\ g2.at = g1.at
      /\ g2.size = g1.size /\ g2.resumed = g1.resumed /\ g2.i = 1
  <2> HIDE DEF g1
  <2> QED
    BY <1>1 DEF TickFrames
<1>3. /\ g3 \in TickFrames /\ g3.act = "tick" /\ g3.excluded = g2.excluded /\ g3.at = g2.at
      /\ g3.size = g2.size /\ g3.resumed = g2.resumed /\ g3.i = g2.i
  <2> HIDE DEF g2
  <2> QED
    BY Zenon, <1>2 DEF TickFrames
<1> QED
  BY Zenon, <1>1, <1>2, <1>3

\* tick() marks a slot and resumes it.
LEMMA MarkFacts ==
    ASSUME NEW f \in TickFrames, NEW i \in Nat \ {0}
    PROVE  LET g == [f EXCEPT !.i = i + 1, !.changed = TRUE, !.resumed = Marked(f, i)]
           IN  /\ g \in TickFrames /\ g.act = "tick" /\ g.excluded = f.excluded /\ g.at = f.at
               /\ g.size = f.size /\ g.resumed = Marked(f, i) /\ g.i = i + 1
<1>1. Marked(f, i) \in SUBSET (Nat \ {0})
  BY DEF Marked, TickFrames
<1> DEFINE g1 == [f EXCEPT !.i = i + 1]
           g2 == [g1 EXCEPT !.changed = TRUE]
           g3 == [g2 EXCEPT !.resumed = Marked(f, i)]
<1>2. /\ g1 \in TickFrames /\ g1.act = "tick" /\ g1.excluded = f.excluded /\ g1.at = f.at
      /\ g1.size = f.size /\ g1.i = i + 1
  BY DEF TickFrames
<1>3. /\ g2 \in TickFrames /\ g2.act = "tick" /\ g2.excluded = g1.excluded /\ g2.at = g1.at
      /\ g2.size = g1.size /\ g2.i = g1.i
  <2> HIDE DEF g1
  <2> QED
    BY Zenon, <1>2 DEF TickFrames
<1>4. /\ g3 \in TickFrames /\ g3.act = "tick" /\ g3.excluded = g2.excluded /\ g3.at = g2.at
      /\ g3.size = g2.size /\ g3.resumed = Marked(f, i) /\ g3.i = g2.i
  <2> HIDE DEF g2
  <2> QED
    BY <1>1, <1>3 DEF TickFrames
<1> QED
  BY Zenon, <1>2, <1>3, <1>4

-----------------------------------------------------------------------------
\* The stack.

\* The innermost activation.
LEMMA TopFacts ==
    ASSUME stack \in Seq(Frames), stack # <<>>
    PROVE  Len(stack) \in Nat \ {0} /\ Top = stack[Len(stack)] /\ Top \in Frames
BY DEF Top

\* A call.
LEMMA PushFacts ==
    ASSUME stack \in Seq(Frames), NEW a \in Frames, Push(a)
    PROVE  /\ stack' \in Seq(Frames) /\ Len(stack') = Len(stack) + 1
           /\ \A i \in 1 .. Len(stack) : stack'[i] = stack[i]
           /\ stack'[Len(stack) + 1] = a
BY DEF Push

\* The activations below the innermost.
LEMMA CallersFacts ==
    ASSUME stack \in Seq(Frames), stack # <<>>
    PROVE  /\ Callers \in Seq(Frames) /\ Len(Callers) = Len(stack) - 1
           /\ \A i \in 1 .. Len(stack) - 1 : Callers[i] = stack[i]

\* Dropping the last element.
<1>FrontFacts.
    ASSUME NEW S, NEW s \in Seq(S), s # <<>>
    PROVE  LET u == SubSeq(s, 1, Len(s) - 1)
           IN  /\ u \in Seq(S) /\ Len(u) = Len(s) - 1
               /\ \A i \in 1 .. Len(s) - 1 : u[i] = s[i]
  <2> USE <1>FrontFacts
  <2>1. Len(s) \in Nat /\ \A i \in 1 .. Len(s) : s[i] \in S
    OBVIOUS
  <2>2. Len(s) # 0
    OBVIOUS
  <2> USE <2>1
  <2>3. PICK k \in Nat : k = Len(s) - 1
    OBVIOUS
  <2> DEFINE u == SubSeq(s, 1, k)
  <2>4. \A i \in 1 .. k : s[i] \in S
    BY <2>3
  <2>5. /\ u \in Seq(S) /\ Len(u) = IF 1 <= k THEN k - 1 + 1 ELSE 0
        /\ \A i \in 1 .. k - 1 + 1 : u[i] = s[1 + i - 1]
    BY <2>4
  <2> HIDE DEF u
  <2>6. u \in Seq(S) /\ Len(u) = k /\ \A i \in 1 .. k : u[i] = s[i]
    BY <2>5
  <2> QED
    BY <2>3 DEF u

<1> QED
  BY <1>FrontFacts DEF Callers

\* The innermost activation changes.
LEMMA SwapFacts ==
    ASSUME stack \in Seq(Frames), stack # <<>>, NEW a \in Frames, Swap(a)
    PROVE  /\ stack' \in Seq(Frames) /\ Len(stack') = Len(stack)
           /\ \A i \in 1 .. Len(stack) - 1 : stack'[i] = stack[i]
           /\ stack'[Len(stack)] = a
BY CallersFacts DEF Swap

\* The innermost activation changes and calls another.
LEMMA SwapPushFacts ==
    ASSUME stack \in Seq(Frames), stack # <<>>, NEW a \in Frames, NEW b \in Frames, SwapPush(a, b)
    PROVE  /\ stack' \in Seq(Frames) /\ Len(stack') = Len(stack) + 1
           /\ \A i \in 1 .. Len(stack) - 1 : stack'[i] = stack[i]
           /\ stack'[Len(stack)] = a /\ stack'[Len(stack) + 1] = b
BY CallersFacts DEF SwapPush

\* A return.
LEMMA PopFacts ==
    ASSUME stack \in Seq(Frames), stack # <<>>, Pop
    PROVE  /\ stack' \in Seq(Frames) /\ Len(stack') = Len(stack) - 1
           /\ \A i \in 1 .. Len(stack) - 1 : stack'[i] = stack[i]
BY CallersFacts DEF Pop

\* The innermost activation.
LEMMA InFacts ==
    ASSUME stack \in Seq(Frames), NEW act, In(act)
    PROVE  /\ stack # <<>> /\ Len(stack) \in Nat \ {0}
           /\ Top = stack[Len(stack)] /\ Top \in Frames /\ Top.act = act
           /\ act = "boot" => Top \in BootFrames /\ Top.i \in Nat \ {0}
           /\ act = "cycle" => /\ Top \in CycleFrames
                               /\ Top.how \in {"loop", "qualified", "sync"}
           /\ act = "run" => Top \in RunFrames /\ Top.slot \in Slots
           /\ act = "tick" => /\ Top \in TickFrames /\ Top.i \in Nat \ {0}
                              /\ Top.excluded \in {NoSlot, run}
<1>1. stack # <<>> /\ Top.act = act
  BY Zenon DEF In
<1> USE <1>1
<1>2. Len(stack) \in Nat \ {0} /\ Top = stack[Len(stack)] /\ Top \in Frames
  BY TopFacts
<1>3. /\ act = "boot" => Top \in BootFrames
      /\ act = "cycle" => Top \in CycleFrames
      /\ act = "run" => Top \in RunFrames
      /\ act = "tick" => Top \in TickFrames
  BY <1>2, FrameKinds
<1> USE <1>3
<1>4. act = "boot" => Top.i \in Nat \ {0}
  BY DEF BootFrames
<1>5. act = "cycle" => Top.how \in {"loop", "qualified", "sync"}
  BY DEF CycleFrames
<1>6. act = "run" => Top.slot \in Slots
  BY DEF RunFrames
<1>7. act = "tick" => Top.i \in Nat \ {0} /\ Top.excluded \in {NoSlot, run}
  BY DEF TickFrames
<1> QED
  BY Zenon, <1>2, <1>4, <1>5, <1>6, <1>7

\* g is f further on: what called f may have called g.
Alike(f, g) ==
    /\ g.act = f.act
    /\ f.act = "cycle" => g.how = f.how
    /\ f.act = "run" => g.slot = f.slot
    /\ f.act = "tick" => g.excluded = f.excluded

\* A step that changes the stack only around the m-th activation keeps its shape.
LEMMA ShapedKept ==
    ASSUME Shaped, stack \in Seq(Frames), stack' \in Seq(Frames),
           NEW m \in 1 .. Len(stack), Len(stack') = m \/ Len(stack') = m + 1,
           \A i \in 1 .. m - 1 : stack'[i] = stack[i],
           Alike(stack[m], stack'[m]),
           Len(stack') = m + 1 => Calls(stack'[m], stack'[m + 1])
    PROVE  Shaped'

\* What can be at the bottom depends on what Alike compares,
<1>AlikeBase. ASSUME NEW f, NEW g, Base(f), Alike(f, g) PROVE Base(g)
  BY <1>AlikeBase, Zenon DEF Base, Alike

\* and so does what can be called.
<1>AlikeCalled. ASSUME NEW c, NEW f, NEW g, Calls(c, f), Alike(f, g) PROVE Calls(c, g)
  <2> USE Zenon, <1>AlikeCalled
  <2>1. CASE f.act = "cycle"
    BY <2>1 DEF Calls, Alike
  <2>2. CASE f.act = "run"
    BY <2>2 DEF Calls, Alike
  <2>3. CASE f.act = "tick"
    BY <2>3 DEF Calls, Alike
  <2> QED
    BY <2>1, <2>2, <2>3 DEF Calls

<1>0. Len(stack) \in Nat /\ Len(stack') \in Nat /\ stack # <<>> /\ m \in Nat /\ m >= 1 /\ m <= Len(stack)
  OBVIOUS
<1>1. Base(stack[1]) /\ \A i \in 2 .. Len(stack) : Calls(stack[i - 1], stack[i])
  BY DEF Shaped
<1>2. Base(stack'[1])
  <2>1. CASE m = 1
    BY <1>1, <1>AlikeBase
  <2>2. CASE m # 1
    <3>1. stack'[1] = stack[1]
      BY <2>2
    <3> QED
      BY <3>1, <1>1
  <2> QED
    BY <2>1, <2>2
<1>3. ASSUME NEW i \in 2 .. Len(stack') PROVE Calls(stack'[i - 1], stack'[i])
  <2>1. CASE i < m
    <3>1. stack'[i - 1] = stack[i - 1] /\ stack'[i] = stack[i] /\ i \in 2 .. Len(stack)
      BY <2>1
    <3> QED
      BY <3>1, <1>1
  <2>2. CASE i = m
    <3>1. stack'[i - 1] = stack[i - 1] /\ i \in 2 .. Len(stack)
      BY <2>2, <1>0
    <3>2. Calls(stack[i - 1], stack[i])
      BY <3>1, <1>1
    <3>3. Calls(stack[i - 1], stack'[i])
      BY <3>2, <2>2, <1>AlikeCalled
    <3> QED
      BY <3>1, <3>3
  <2>3. CASE i = m + 1
    <3>1. Len(stack') = m + 1 /\ i - 1 = m
      BY <2>3
    <3> QED
      BY <2>3
  <2>4. i < m \/ i = m \/ i = m + 1
    OBVIOUS
  <2> QED
    BY <2>1, <2>2
<1> QED
  BY <1>2, <1>3 DEF Shaped

\* Neither a coroutine nor a tick is outermost.
LEMMA Called ==
    ASSUME Shaped, stack \in Seq(Frames), NEW k \in 1 .. Len(stack), ~ Base(stack[k])
    PROVE  k - 1 \in 1 .. Len(stack) /\ Calls(stack[k - 1], stack[k])
<1>1. Len(stack) \in Nat /\ stack # <<>>
  OBVIOUS
<1>2. k # 1
  BY Zenon, <1>1 DEF Shaped
<1>3. k \in 2 .. Len(stack) /\ k - 1 \in 1 .. Len(stack)
  BY <1>2
<1> QED
  BY DEF Shaped

\* and a return to a caller.
LEMMA ShapedPop ==
    ASSUME Shaped, stack \in Seq(Frames), stack # <<>>, Pop, ~ Base(Top)
    PROVE  /\ stack' \in Seq(Frames) /\ Shaped'
           /\ Len(stack) - 1 \in 1 .. Len(stack) /\ Calls(stack[Len(stack) - 1], Top)
<1>1. Len(stack) \in 1 .. Len(stack) /\ Len(stack) \in Nat /\ Top = stack[Len(stack)]
  BY TopFacts
<1>2. Len(stack) - 1 \in 1 .. Len(stack) /\ Calls(stack[Len(stack) - 1], Top)
  BY <1>1, Called
<1> DEFINE n == Len(stack) - 1
<1>3. /\ stack' \in Seq(Frames) /\ Len(stack') = n
      /\ \A i \in 1 .. n : stack'[i] = stack[i]
  BY PopFacts
<1> USE <1>2, <1>3
<1>4. n # n + 1 /\ stack'[n] = stack[n] /\ \A i \in 1 .. n - 1 : stack'[i] = stack[i]
  OBVIOUS
<1>5. Alike(stack[n], stack'[n])
  BY Zenon, <1>4 DEF Alike
<1>6. Shaped'
  <2>1. n \in 1 .. Len(stack)
    OBVIOUS
  <2> HIDE DEF n
  <2> QED
    BY <2>1, <1>5, ShapedKept
<1> QED
  BY <1>6

-----------------------------------------------------------------------------
\* Types and shape, action by action.

Waits == [on : Kinds \ {"Done"}, n : -1 .. MaxWait, age : 0 .. MaxWait + 1]

Observed ==
    \A h \in holds : /\ h \in Slots /\ h \notin finished
                     /\ kind[h] \in PredKinds \/ (kind[h] = "Ready" /\ timedOut[h])

SlotTypes ==
    /\ slots \in Seq(Slots)
    /\ kind \in [Slots -> Kinds]
    /\ cycles \in [Slots -> 0 .. MaxWait]
    /\ timedOut \in [Slots -> BOOLEAN]
    /\ finished \subseteq Slots
    /\ Observed
    /\ fatal \in BOOLEAN
    /\ wait \in [Slots -> Waits]

\* The type invariant, apart from the stack.
LEMMA TypeParts == TypeOK <=> SlotTypes /\ stack \in Seq(Frames)
BY Zenon DEF TypeOK, SlotTypes, Waits, Observed, Observable

\* The test starts with an empty stack.
LEMMA InitShape == Init => Shape
<1> SUFFICES ASSUME Init PROVE Shape
  OBVIOUS
<1>1. slots \in Seq(Slots)
  <2>1. CASE Capsule
    BY SlotFacts DEF Init
  <2>2. CASE ~ Capsule
    <3>1. slots = [i \in 1 .. run |-> i] /\ run \in Nat /\ \A i \in 1 .. run : i \in Slots
      BY <2>2, SlotFacts DEF Init
    <3> QED
      BY <3>1
  <2> QED
    BY <2>1, <2>2
<1>2. stack = <<Boot(1)>> /\ Boot(1) \in Frames /\ Boot(1).act = "boot"
  BY BootFacts DEF Init, Frames
<1>3. stack \in Seq(Frames) /\ Len(stack) = 1 /\ stack[1] = Boot(1)
  BY <1>2
<1>4. Shaped
  BY <1>2 DEF Shaped, Base
<1>5. NoWait \in Waits
  BY ConstantsAssumption DEF NoWait, Waits, Kinds
<1>6. kind \in [Slots -> Kinds] /\ cycles \in [Slots -> 0 .. MaxWait] /\ wait \in [Slots -> Waits]
  BY <1>5, ConstantsAssumption DEF Init, Kinds
<1>7. timedOut \in [Slots -> BOOLEAN] /\ finished \subseteq Slots /\ Observed /\ fatal \in BOOLEAN
  BY Zenon DEF Init, Observed
<1>8. SlotTypes
  BY Zenon, <1>1, <1>6, <1>7 DEF SlotTypes
<1> QED
  BY <1>3, <1>4, <1>8, TypeParts DEF Shape

\* bootstrap and the drive loop are only ever outermost.
LEMMA BaseFirst ==
    ASSUME Shaped, stack \in Seq(Frames), NEW k \in 1 .. Len(stack), Base(stack[k])
    PROVE  k = 1
<1>1. Len(stack) \in Nat
  OBVIOUS
<1>2. CASE k # 1
  <2>1. k \in 2 .. Len(stack)
    BY <1>2
  <2>2. Calls(stack[k - 1], stack[k])
    BY <2>1 DEF Shaped
  <2> QED
    BY Zenon, <2>2 DEF Calls, Base
<1> QED
  BY <1>2

\* A nested clock cycle returns to the run coroutine.
LEMMA ReturnFacts ==
    ASSUME Shape, In("cycle"), Top.how # "loop",
           stack' = [Callers EXCEPT ![Len(stack) - 1].abort = Top.owed]
    PROVE  /\ stack' \in Seq(Frames) /\ Len(stack') = Len(stack) - 1
           /\ Len(stack') \in 1 .. Len(stack) /\ stack[Len(stack')].act = "run"
           /\ \A i \in 1 .. Len(stack') - 1 : stack'[i] = stack[i]
           /\ Alike(stack[Len(stack')], stack'[Len(stack')])
<1>1. stack \in Seq(Frames) /\ Shaped
  BY TypeParts DEF Shape
<1>2. /\ stack # <<>> /\ Len(stack) \in 1 .. Len(stack) /\ Top = stack[Len(stack)]
      /\ Top.act = "cycle" /\ Top \in CycleFrames
  BY <1>1, InFacts
<1>3. ~ Base(Top)
  BY Zenon, <1>2 DEF Base
<1>4. Len(stack) - 1 \in 1 .. Len(stack) /\ Calls(stack[Len(stack) - 1], Top)
  BY Zenon, <1>1, <1>2, <1>3, Called
<1>5. PICK n \in Nat : n = Len(stack) - 1
  BY <1>2
<1>6. n \in 1 .. Len(stack) /\ stack[n].act = "run"
  BY Zenon, <1>2, <1>4, <1>5 DEF Calls
<1> USE <1>6
<1>7. stack[n] \in RunFrames
  BY <1>1, FrameKinds
<1>8. Top.owed \in BOOLEAN
  BY <1>2 DEF CycleFrames
<1> DEFINE g == [stack[n] EXCEPT !.abort = Top.owed]
<1>9. g \in Frames /\ g.act = "run" /\ g.slot = stack[n].slot
  BY <1>7, <1>8, AbortFacts DEF Frames
<1>10. /\ Callers \in Seq(Frames) /\ Len(Callers) = n
       /\ \A i \in 1 .. n : Callers[i] = stack[i]
  BY <1>1, <1>5, CallersFacts
<1>11. stack' = [Callers EXCEPT ![n] = g] /\ n \in 1 .. Len(Callers)
  <2>1. Callers[n] = stack[n]
    BY <1>10
  <2>2. stack' = [Callers EXCEPT ![n].abort = Top.owed]
    BY Zenon, <1>5
  <2>3. n \in 1 .. Len(Callers)
    BY <1>10
  <2> QED
    BY Zenon, <2>1, <2>2, <2>3
<1> HIDE DEF g
<1>12. /\ stack' \in Seq(Frames) /\ Len(stack') = n /\ stack'[n] = g
       /\ \A i \in 1 .. n - 1 : stack'[i] = stack[i]
  <2>1. Callers \in Seq(Frames) /\ g \in Frames
    BY <1>9, <1>10
  <2>2. /\ stack' \in Seq(Frames) /\ Len(stack') = Len(Callers) /\ stack'[n] = g
        /\ \A i \in 1 .. Len(Callers) : i # n => stack'[i] = Callers[i]
    <3>1. stack' = [Callers EXCEPT ![n] = g] /\ n \in 1 .. Len(Callers)
      BY Zenon, <1>11
    <3> HIDE DEF Callers, Frames
    <3> QED
      BY ONLY <2>1, <3>1
  <2> QED
    BY <1>10, <2>2
<1>13. Alike(stack[n], stack'[n])
  BY <1>9, <1>12, Zenon DEF Alike
<1> QED
  BY Zenon, <1>5, <1>12, <1>13

\* A tick excludes the run coroutine or nobody.
LEMMA ExcludedFacts == ASSUME NEW how PROVE Excluded(how) \in {NoSlot, run}
BY Zenon DEF Excluded

\* The slot a tick resumes next.
LEMMA DueFacts ==
    ASSUME slots \in Seq(Slots), NEW f \in TickFrames, NEW r, NEW i \in Due(f, r)
    PROVE  /\ i \in Nat \ {0} /\ i \in 1 .. Len(slots) /\ i >= f.i
           /\ slots[i] \in Slots /\ slots[i] # f.excluded /\ kind[slots[i]] = "Ready" /\ i \notin r
<1>1. f.i \in Nat \ {0}
  BY DEF TickFrames
<1>2. i \in f.i .. Len(slots) /\ slots[i] # f.excluded /\ kind[slots[i]] = "Ready" /\ i \notin r
  BY Zenon DEF Due
<1> QED
  BY <1>1, <1>2

\* The stack a coroutine leaves when it suspends or ends.
LEMMA LeaveFacts ==
    ASSUME Shape, In("run"), Pop
    PROVE  /\ stack' \in Seq(Frames) /\ Shaped'
           /\ Len(stack) - 1 \in 1 .. Len(stack) /\ Calls(stack[Len(stack) - 1], Top)
<1>1. stack \in Seq(Frames) /\ Shaped
  BY TypeParts DEF Shape
<1>2. stack # <<>> /\ Top.act = "run"
  BY <1>1, InFacts
<1>3. ~ Base(Top)
  BY Zenon, <1>2 DEF Base
<1> QED
  BY Zenon, <1>1, <1>2, <1>3, ShapedPop

\* Every step keeps types and shape.
LEMMA NextShape == Shape /\ [Next]_vars => Shape'
\* A call keeps the shape if the caller makes such calls.
<1>ShapedPush.
    ASSUME Shaped, stack \in Seq(Frames), stack # <<>>, NEW a \in Frames, Push(a), Calls(Top, a)
    PROVE  stack' \in Seq(Frames) /\ Shaped'
  <2> USE <1>ShapedPush
  <2> DEFINE n == Len(stack)
  <2>1. n \in 1 .. Len(stack) /\ n \in Nat /\ Top = stack[n]
    BY TopFacts
  <2>2. /\ stack' \in Seq(Frames) /\ Len(stack') = n + 1
        /\ \A i \in 1 .. n : stack'[i] = stack[i]
        /\ stack'[n + 1] = a
    BY PushFacts
  <2> USE <2>1, <2>2
  <2>3. stack'[n] = stack[n] /\ \A i \in 1 .. n - 1 : stack'[i] = stack[i]
    OBVIOUS
  <2> USE <2>3
  <2>4. Alike(stack[n], stack'[n])
    BY Zenon DEF Alike
  <2>5. Calls(stack'[n], stack'[n + 1])
    BY Zenon
  <2> HIDE DEF n
  <2>6. Shaped'
    BY <2>4, ShapedKept
  <2> QED
    BY <2>6

\* So does a change Alike does not see,
<1>ShapedSwap.
    ASSUME Shaped, stack \in Seq(Frames), stack # <<>>, NEW a \in Frames, Swap(a), Alike(Top, a)
    PROVE  stack' \in Seq(Frames) /\ Shaped'
  <2> USE <1>ShapedSwap
  <2> DEFINE n == Len(stack)
  <2>1. n \in 1 .. Len(stack) /\ n \in Nat /\ Top = stack[n]
    BY TopFacts
  <2>2. /\ stack' \in Seq(Frames) /\ Len(stack') = n
        /\ \A i \in 1 .. n - 1 : stack'[i] = stack[i]
        /\ stack'[n] = a
    BY SwapFacts
  <2> USE <2>1
  <2>3. Alike(stack[n], stack'[n])
    BY Zenon, <2>2
  <2>4. n # n + 1
    OBVIOUS
  <2> HIDE DEF n
  <2>5. Shaped'
    BY <2>2, ShapedKept
  <2> QED
    BY <2>2, <2>5

\* a change followed by a call,
<1>ShapedSwapPush.
    ASSUME Shaped, stack \in Seq(Frames), stack # <<>>, NEW a \in Frames, NEW b \in Frames,
           SwapPush(a, b), Alike(Top, a), Calls(a, b)
    PROVE  stack' \in Seq(Frames) /\ Shaped'
  <2> USE <1>ShapedSwapPush
  <2> DEFINE n == Len(stack)
  <2>1. n \in 1 .. Len(stack) /\ n \in Nat /\ Top = stack[n]
    BY TopFacts
  <2>2. /\ stack' \in Seq(Frames) /\ Len(stack') = n + 1
        /\ \A i \in 1 .. n - 1 : stack'[i] = stack[i]
        /\ stack'[n] = a /\ stack'[n + 1] = b
    BY SwapPushFacts
  <2>3. Alike(stack[n], stack'[n])
    BY Zenon, <2>1, <2>2
  <2>4. Calls(stack'[n], stack'[n + 1])
    BY Zenon, <2>2
  <2> HIDE DEF n
  <2>5. Shaped'
    BY <2>1, <2>2, ShapedKept
  <2> QED
    BY <2>2, <2>5

\* The same after a step.
<1>TypePartsNext. TypeOK' <=> SlotTypes' /\ stack' \in Seq(Frames)
  BY Zenon DEF TypeOK, SlotTypes, Waits, Observed, Observable

\* Steps that touch no slot keep the slots' types.
<1>SlotTypesKept.
    ASSUME SlotTypes, UNCHANGED slotVars, UNCHANGED holds, fatal' \in BOOLEAN
    PROVE  SlotTypes'
  BY <1>SlotTypesKept DEF SlotTypes, slotVars, Observed

\* bootstrap() calls coroutines.
<1>BootResumeShape. Shape /\ BootResume => Shape'
  <2> SUFFICES ASSUME Shape, BootResume PROVE Shape'
    OBVIOUS
  <2>1. SlotTypes /\ stack \in Seq(Frames) /\ Shaped
    BY TypeParts DEF Shape
  <2> USE <2>1
  <2>2. /\ stack # <<>> /\ Top.act = "boot" /\ Top.i \in Nat \ {0} /\ Top.i <= Len(slots)
        /\ Top.i + 1 \in Nat \ {0}
    BY InFacts DEF BootResume, BootSize
  <2> DEFINE s == slots[Top.i]
             b == Boot(Top.i + 1)
  <2> USE <2>2
  <2>3. s \in Slots
    BY DEF SlotTypes
  <2>4. b \in Frames /\ b.act = "boot"
    BY BootFacts DEF Frames
  <2> USE <2>3
  <2>5. Run(s) \in Frames /\ Run(s).act = "run"
    BY RunFacts DEF Frames
  <2> USE <2>4
  <2>6. Alike(Top, b)
    BY Zenon DEF Alike
  <2>7. Calls(b, Run(s))
    BY <2>5, Zenon DEF Calls
  <2>8. /\ SwapPush(b, Run(s)) \/ Swap(b)
        /\ kind' = kind \/ (s \in finished /\ kind' = [kind EXCEPT ![s] = "Done"])
        /\ UNCHANGED <<slots, cycles, timedOut, finished, holds, fatal, wait>>
    BY Zenon DEF BootResume
  <2> HIDE DEF s, b
  <2> USE <2>8
  <2>9. stack' \in Seq(Frames) /\ Shaped'
    BY Zenon, <2>5, <2>6, <2>7, <1>ShapedSwap, <1>ShapedSwapPush
  <2>10. kind' \in [Slots -> Kinds]
    BY Zenon DEF SlotTypes, Kinds
  <2>11. Observed'
    BY DEF SlotTypes, Observed, Kinds, PredKinds
  <2>12. SlotTypes'
    BY <2>10, <2>11, Zenon DEF SlotTypes
  <2> QED
    BY <2>9, <2>12, <1>TypePartsNext DEF Shape

\* The drive loop takes its place at the bottom.
<1>BootEndShape. Shape /\ BootEnd => Shape'
  <2> SUFFICES ASSUME Shape, BootEnd PROVE Shape'
    OBVIOUS
  <2>1. SlotTypes /\ stack \in Seq(Frames) /\ Shaped
    BY TypeParts DEF Shape
  <2>2. In("boot") /\ Swap(Cycle("loop", "edge"))
    BY Zenon DEF BootEnd
  <2> USE <2>1
  <2>3. stack # <<>> /\ Top.act = "boot" /\ Top = stack[Len(stack)] /\ Len(stack) \in 1 .. Len(stack)
    BY <2>2, InFacts
  <2>4. Len(stack) = 1
    BY <2>3, BaseFirst, Zenon DEF Base
  <2> DEFINE c == Cycle("loop", "edge")
  <2>5. c \in Frames /\ c.act = "cycle" /\ c.how = "loop"
    BY CycleFacts DEF Frames
  <2> HIDE DEF c
  <2>6. stack' \in Seq(Frames) /\ Len(stack') = 1 /\ stack'[1] = c
    BY <2>2, <2>3, <2>4, <2>5, SwapFacts DEF c
  <2>7. Base(stack'[1])
    BY <2>5, <2>6, Zenon DEF Base
  <2>8. Shaped'
    BY <2>6, <2>7 DEF Shaped
  <2>9. slots' \in Seq(Slots)
    <3>1. CASE UNCHANGED slots
      BY <3>1 DEF SlotTypes
    <3>2. ASSUME NEW i \in DOMAIN slots, slots[i] = run,
                 slots' = SubSeq(slots, 1, i - 1) \o SubSeq(slots, i + 1, Len(slots)) \o <<run>>
          PROVE  slots' \in Seq(Slots)
      <4>1. slots \in Seq(Slots) /\ i \in 1 .. Len(slots)
        BY DEF SlotTypes
      <4> HIDE DEF Slots, run
      <4> QED
        BY <3>2, <4>1, MoveLast, Zenon
    <3> QED
      BY <3>1, <3>2, Zenon DEF BootEnd
  <2>10. SlotTypes'
    <3>1. UNCHANGED <<kind, cycles, timedOut, finished, holds, fatal, wait>>
      BY Zenon DEF BootEnd
    <3>2. Observed'
      BY <3>1 DEF SlotTypes, Observed
    <3> QED
      BY Zenon, <2>9, <3>1, <3>2 DEF SlotTypes
  <2> QED
    BY <2>6, <2>8, <2>10, <1>TypePartsNext DEF Shape

\* An edge calls nothing by itself.
<1>EdgeShape. Shape /\ Edge => Shape'
  <2> SUFFICES ASSUME Shape, Edge PROVE Shape'
    OBVIOUS
  <2>1. SlotTypes /\ stack \in Seq(Frames) /\ Shaped
    BY TypeParts DEF Shape
  <2> DEFINE c == [Top EXCEPT !.at = "services"]
  <2>2. In("cycle") /\ Swap(c)
    BY Zenon DEF Edge
  <2>3. stack # <<>> /\ Top \in CycleFrames /\ Top.act = "cycle"
    BY <2>1, <2>2, InFacts
  <2>4. c \in Frames /\ c.act = "cycle" /\ c.how = Top.how
    BY Zenon, <2>3, AtFacts DEF Frames
  <2>5. Alike(Top, c)
    BY Zenon, <2>3, <2>4 DEF Alike
  <2> HIDE DEF c
  <2>6. stack' \in Seq(Frames) /\ Shaped'
    BY <2>1, <2>2, <2>3, <2>4, <2>5, <1>ShapedSwap
  <2>7. UNCHANGED <<slots, kind, cycles, timedOut, finished, fatal>>
    BY Zenon DEF Edge
  <2>8. Observed'
    <3>1. holds' \in SUBSET Observable(kind, timedOut)
      BY Zenon DEF Edge
    <3> QED
      BY <2>7, <3>1 DEF Observed, Observable
  <2>9. wait' \in [Slots -> Waits]
    <3>1. wait' = [s \in Slots |-> [wait[s] EXCEPT !.age =
                     IF @ > wait[s].n \/ Top.how = "sync" THEN @ ELSE @ + 1]]
      BY Zenon DEF Edge
    <3>2. ASSUME NEW s \in Slots
          PROVE  [wait[s] EXCEPT !.age = IF @ > wait[s].n \/ Top.how = "sync" THEN @ ELSE @ + 1]
                    \in Waits
      <4>1. wait[s] \in Waits
        BY <2>1 DEF SlotTypes
      <4>2. wait[s].age \in 0 .. MaxWait + 1 /\ wait[s].n \in -1 .. MaxWait
        BY <4>1 DEF Waits
      <4>3. (IF wait[s].age > wait[s].n \/ Top.how = "sync" THEN wait[s].age ELSE wait[s].age + 1)
               \in 0 .. MaxWait + 1
        BY <4>2, ConstantsAssumption
      <4> QED
        BY <4>1, <4>3 DEF Waits
    <3> QED
      BY <3>1, <3>2
  <2>10. SlotTypes'
    BY Zenon, <2>1, <2>7, <2>8, <2>9 DEF SlotTypes
  <2> QED
    BY <2>6, <2>10, <1>TypePartsNext DEF Shape

\* A qualified wait returns to the run coroutine.
<1>QualifiedOverShape. Shape /\ QualifiedOver => Shape'
  <2> SUFFICES ASSUME Shape, QualifiedOver PROVE Shape'
    OBVIOUS
  <2>1. SlotTypes /\ stack \in Seq(Frames) /\ Shaped
    BY TypeParts DEF Shape
  <2>2. In("cycle") /\ UNCHANGED <<slotVars, holds, fatal>>
    BY Zenon DEF QualifiedOver
  <2>3. stack # <<>> /\ Top \in CycleFrames /\ Top.act = "cycle"
    BY <2>1, <2>2, InFacts
  <2>4. PICK owed \in {FALSE, fatal} : Swap([Top EXCEPT !.at = "checkers", !.owed = owed])
    BY Zenon DEF QualifiedOver
  <2>5. owed \in BOOLEAN
    BY <2>1, Zenon DEF SlotTypes
  <2> DEFINE c == [Top EXCEPT !.at = "checkers", !.owed = owed]
  <2>6. c \in Frames /\ c.act = "cycle" /\ c.how = Top.how
    BY <2>3, <2>5, OwedFacts, Zenon DEF Frames
  <2>7. Alike(Top, c)
    BY Zenon, <2>3, <2>6 DEF Alike
  <2>8. Swap(c)
    BY <2>4
  <2> HIDE DEF c
  <2>9. stack' \in Seq(Frames) /\ Shaped'
    BY <2>1, <2>3, <2>6, <2>7, <2>8, <1>ShapedSwap
  <2>10. SlotTypes'
    BY <2>1, <2>2, <1>SlotTypesKept DEF SlotTypes
  <2> QED
    BY <2>9, <2>10, <1>TypePartsNext DEF Shape

\* A handler that suspends becomes a task, called by the cycle.
<1>StartTaskShape.
    ASSUME Shape, NEW site, In("cycle"), Top.at \in {"services", "checkers"}, StartTask(site)
    PROVE  Shape'
  <2> USE <1>StartTaskShape
  <2>1. SlotTypes /\ stack \in Seq(Frames) /\ Shaped
    BY TypeParts DEF Shape
  <2> USE <2>1
  <2>2. stack # <<>> /\ Top.act = "cycle"
    BY InFacts
  <2>3. PICK s \in Tasks : slots' = Append(slots, s) /\ Push(Run(s))
    BY Zenon DEF StartTask
  <2> USE <2>3
  <2>4. s \in Slots
    BY SlotFacts, Zenon
  <2>5. Run(s) \in Frames /\ Run(s).act = "run" /\ Run(s).slot = s
    BY <2>4, RunFacts DEF Frames
  <2>6. Calls(Top, Run(s))
    BY <2>2, <2>5, Zenon DEF Calls
  <2>7. stack' \in Seq(Frames) /\ Shaped'
    BY <2>2, <2>5, <2>6, <1>ShapedPush
  <2>8. UNCHANGED <<kind, cycles, timedOut, finished, holds, fatal, wait>>
    BY Zenon DEF StartTask
  <2>9. slots' \in Seq(Slots)
    BY <2>4 DEF SlotTypes
  <2>10. Observed'
    BY <2>8 DEF SlotTypes, Observed
  <2>11. SlotTypes'
    BY Zenon, <2>8, <2>9, <2>10 DEF SlotTypes
  <2> QED
    BY <2>7, <2>11, <1>TypePartsNext DEF Shape

\* The services start tasks at most.
<1>ServicesShape. Shape /\ Services => Shape'
  <2> SUFFICES ASSUME Shape, Services PROVE Shape'
    OBVIOUS
  <2>1. SlotTypes /\ stack \in Seq(Frames) /\ Shaped
    BY TypeParts DEF Shape
  <2>2. In("cycle") /\ Top.at = "services"
    BY Zenon DEF Services
  <2>3. CASE StartTask("post_eval")
    BY <2>2, <2>3, <1>StartTaskShape
  <2> DEFINE c == [Top EXCEPT !.at = AfterServices(Top.how)]
  <2> USE <2>1
  <2>4. CASE Swap(c) /\ UNCHANGED <<slotVars, holds, fatal>>
    <3>1. stack # <<>> /\ Top \in CycleFrames /\ Top.act = "cycle"
      BY <2>2, InFacts
    <3>2. /\ AfterServices(Top.how) \in {"edge", "services", "tick", "checkers"}
          /\ AfterServices(Top.how) = "tick" => Top.how # "sync"
      BY DEF AfterServices
    <3> USE <3>1
    <3>3. c \in Frames /\ c.act = "cycle" /\ c.how = Top.how
      BY Zenon, <3>2, AtFacts DEF Frames
    <3>4. Alike(Top, c)
      BY Zenon, <3>3 DEF Alike
    <3> HIDE DEF c
    <3>5. stack' \in Seq(Frames) /\ Shaped'
      BY <2>4, <3>3, <3>4, <1>ShapedSwap
    <3>6. SlotTypes'
      BY <2>4, <1>SlotTypesKept DEF SlotTypes
    <3> QED
      BY <3>5, <3>6, <1>TypePartsNext DEF Shape
  <2> QED
    BY Zenon, <2>3, <2>4 DEF Services

\* The checkers start tasks, end the cycle or return from it.
<1>CheckersShape. Shape /\ Checkers => Shape'
  <2> SUFFICES ASSUME Shape, Checkers PROVE Shape'
    OBVIOUS
  <2>1. SlotTypes /\ stack \in Seq(Frames) /\ Shaped
    BY TypeParts DEF Shape
  <2>2. In("cycle") /\ Top.at = "checkers"
    BY Zenon DEF Checkers
  <2> USE <2>2
  <2>3. CASE StartTask("checker")
    BY <2>3, <1>StartTaskShape
  <2> USE <2>1
  <2>4. ASSUME UNCHANGED <<slotVars, holds, fatal>>,
               IF Top.how = "loop" THEN Swap(Cycle("loop", "edge"))
               ELSE stack' = [Callers EXCEPT ![Len(stack) - 1].abort = Top.owed]
        PROVE  Shape'
    <3>1. SlotTypes'
      BY <2>4, <1>SlotTypesKept DEF SlotTypes
    <3>2. stack # <<>> /\ Top.act = "cycle"
      BY InFacts
    <3>3. CASE Top.how = "loop"
      <4> DEFINE c == Cycle("loop", "edge")
      <4>1. c \in Frames /\ c.act = "cycle" /\ c.how = "loop"
        BY CycleFacts DEF Frames
      <4>2. Alike(Top, c)
        BY <3>2, <3>3, <4>1, Zenon DEF Alike
      <4>3. Swap(c)
        BY <2>4, <3>3
      <4> HIDE DEF c
      <4>4. stack' \in Seq(Frames) /\ Shaped'
        BY <3>2, <4>1, <4>2, <4>3, <1>ShapedSwap
      <4> QED
        BY <3>1, <4>4, <1>TypePartsNext DEF Shape
    <3>4. CASE Top.how # "loop"
      <4>1. /\ stack' \in Seq(Frames) /\ Len(stack') \in 1 .. Len(stack)
            /\ \A i \in 1 .. Len(stack') - 1 : stack'[i] = stack[i]
            /\ Alike(stack[Len(stack')], stack'[Len(stack')])
        BY <2>4, <3>4, ReturnFacts
      <4> USE <4>1
      <4>2. Len(stack') # Len(stack') + 1
        OBVIOUS
      <4>3. Shaped'
        BY <4>2, ShapedKept, Zenon
      <4> QED
        BY <3>1, <4>3, <1>TypePartsNext DEF Shape
    <3> QED
      BY <3>3, <3>4
  <2> QED
    BY <2>3, <2>4, Zenon DEF Checkers

\* What pass 1 leaves.
<1>PassOneTypes.
    ASSUME SlotTypes, NEW excluded, PassOne(excluded), UNCHANGED <<slots, finished, fatal, wait>>
    PROVE  SlotTypes'
  <2> USE Zenon, <1>PassOneTypes
  <2>1. kind' \in [Slots -> Kinds]
    <3>1. \A s \in Slots : kind[s] \in Kinds /\ "Ready" \in Kinds
      BY SMT DEF SlotTypes, Kinds
    <3> QED
      BY <3>1 DEF PassOne
  <2>2. cycles' \in [Slots -> 0 .. MaxWait]
    <3>1. \A s \in Slots : cycles[s] \in 0 .. MaxWait /\ Countdown(s) \in 0 .. MaxWait
      BY SMT, ConstantsAssumption DEF SlotTypes, Countdown
    <3> QED
      BY <3>1 DEF PassOne
  <2>3. timedOut' \in [Slots -> BOOLEAN]
    <3>1. \A s \in Slots : timedOut[s] \in BOOLEAN /\ Expires(s) \in BOOLEAN
      BY DEF SlotTypes, Expires
    <3> QED
      BY <3>1 DEF PassOne
  <2>4. Observed'
    <3>1. holds' = holds \cap Observable(kind', timedOut')
      BY DEF PassOne
    <3>2. UNCHANGED finished
      OBVIOUS
    <3> QED
      BY <3>1 DEF Observed, Observable
  <2> QED
    BY <2>1, <2>2, <2>3, <2>4 DEF SlotTypes

\* A cycle calls tick().
<1>TickStartShape. Shape /\ TickStart => Shape'
  <2> SUFFICES ASSUME Shape, TickStart PROVE Shape'
    OBVIOUS
  <2>1. SlotTypes /\ stack \in Seq(Frames) /\ Shaped
    BY TypeParts DEF Shape
  <2>2. /\ In("cycle") /\ Top.at = "tick"
        /\ PassOne(Excluded(Top.how)) /\ UNCHANGED <<slots, finished, fatal, wait>>
    BY Zenon DEF TickStart
  <2> USE <2>1, <2>2
  <2>3. stack # <<>> /\ Top \in CycleFrames /\ Top.act = "cycle"
    BY InFacts
  <2>4. PICK next \in {"edge", "checkers"} :
             SwapPush([Top EXCEPT !.at = next], Tick(Excluded(Top.how)))
    BY Zenon DEF TickStart
  <2> USE <2>3
  <2>5. Top.how # "sync"
    BY Zenon DEF CycleFrames
  <2> DEFINE c == [Top EXCEPT !.at = next]
             t == Tick(Excluded(Top.how))
  <2>6. c \in Frames /\ c.act = "cycle" /\ c.how = Top.how /\ c.at = next
    <3>1. next \in {"edge", "services", "tick", "checkers"} /\ next # "tick"
      OBVIOUS
    <3> QED
      BY Zenon, <3>1, AtFacts DEF Frames
  <2>7. t \in Frames /\ t.act = "tick" /\ t.excluded = Excluded(Top.how)
    BY Zenon, ExcludedFacts, TickFacts DEF Frames, SlotTypes
  <2>8. SwapPush(c, t)
    BY <2>4
  <2> HIDE DEF c, t
  <2> USE <2>6
  <2>9. Alike(Top, c)
    BY Zenon DEF Alike
  <2>10. Calls(c, t)
    BY Zenon, <2>5, <2>7 DEF Calls
  <2>11. stack' \in Seq(Frames) /\ Shaped'
    BY Zenon, <2>7, <2>8, <2>9, <2>10, <1>ShapedSwapPush
  <2>12. SlotTypes'
    BY <1>PassOneTypes
  <2> QED
    BY <2>11, <2>12, <1>TypePartsNext DEF Shape

\* tick() calls a coroutine that is not excluded.
<1>ResumeNextShape. Shape /\ ResumeNext => Shape'
  <2> USE Zenon
  <2> SUFFICES ASSUME Shape, ResumeNext PROVE Shape'
    OBVIOUS
  <2>1. SlotTypes /\ stack \in Seq(Frames) /\ Shaped
    BY SMT, TypeParts DEF Shape
  <2>2. In("tick") /\ UNCHANGED <<slots, cycles, timedOut, finished, holds, fatal, wait>>
    BY DEF ResumeNext
  <2> USE <2>1, <2>2
  <2>3. stack # <<>> /\ Top \in TickFrames /\ Top.act = "tick"
    BY SMT, InFacts
  <2>4. PICK r \in ReadResumed(Top) :
            \/ /\ Due(Top, r) = {}
               /\ Swap([Top EXCEPT !.at = "recheck"])
               /\ UNCHANGED kind
            \/ \E i \in Due(Top, r) :
                  LET s == slots[i]
                      f == [Top EXCEPT !.i = i + 1, !.changed = TRUE,
                                       !.resumed = Marked(Top, i)]
                  IN  /\ \A j \in Due(Top, r) : i <= j
                      /\ IF s \in finished
                         THEN Swap(f) /\ kind' = [kind EXCEPT ![s] = "Done"]
                         ELSE SwapPush(f, Run(s)) /\ UNCHANGED kind
    BY DEF ResumeNext
  <2> USE <2>3
  <2>5. CASE Swap([Top EXCEPT !.at = "recheck"]) /\ UNCHANGED kind
    <3> DEFINE g == [Top EXCEPT !.at = "recheck"]
    <3>1. g \in Frames /\ g.act = "tick" /\ g.excluded = Top.excluded
      BY RecheckFacts DEF Frames
    <3>2. Alike(Top, g)
      BY <3>1 DEF Alike
    <3>3. Swap(g)
      BY SMT, <2>5
    <3> HIDE DEF g
    <3>4. stack' \in Seq(Frames) /\ Shaped'
      BY <3>1, <3>2, <3>3, <1>ShapedSwap
    <3>5. SlotTypes'
      BY SMT, <2>5, <1>SlotTypesKept DEF SlotTypes, slotVars
    <3> QED
      BY SMT, <3>4, <3>5, <1>TypePartsNext DEF Shape
  <2>6. ASSUME NEW i \in Due(Top, r),
               LET s == slots[i]
                   f == [Top EXCEPT !.i = i + 1, !.changed = TRUE, !.resumed = Marked(Top, i)]
               IN  IF s \in finished
                   THEN Swap(f) /\ kind' = [kind EXCEPT ![s] = "Done"]
                   ELSE SwapPush(f, Run(s)) /\ UNCHANGED kind
        PROVE  Shape'
    <3> DEFINE s == slots[i]
               f == [Top EXCEPT !.i = i + 1, !.changed = TRUE, !.resumed = Marked(Top, i)]
    <3>1. i \in Nat \ {0} /\ s \in Slots /\ s # Top.excluded
      <4>1. slots \in Seq(Slots)
        BY SMT DEF SlotTypes
      <4> QED
        BY <4>1, DueFacts
    <3> USE <3>1
    <3>2. f \in Frames /\ f.act = "tick" /\ f.excluded = Top.excluded
      BY MarkFacts DEF Frames
    <3>3. Run(s) \in Frames /\ Run(s).act = "run" /\ Run(s).slot = s
      BY RunFacts DEF Frames
    <3>4. IF s \in finished
          THEN Swap(f) /\ kind' = [kind EXCEPT ![s] = "Done"]
          ELSE SwapPush(f, Run(s)) /\ UNCHANGED kind
      BY SMT, <2>6
    <3> HIDE DEF s, f
    <3>5. Alike(Top, f) /\ Calls(f, Run(s))
      BY <3>2, <3>3 DEF Alike, Calls
    <3> USE <3>4
    <3>6. stack' \in Seq(Frames) /\ Shaped'
      BY <3>2, <3>3, <3>5, <1>ShapedSwap, <1>ShapedSwapPush
    <3>7. kind' \in [Slots -> Kinds]
      BY DEF SlotTypes, Kinds
    <3>8. Observed'
      BY DEF SlotTypes, Observed, Kinds, PredKinds
    <3>9. SlotTypes'
      BY <3>7, <3>8 DEF SlotTypes
    <3> QED
      BY SMT, <3>6, <3>9, <1>TypePartsNext DEF Shape
  <2> QED
    BY <2>4, <2>5, <2>6

\* The re-check calls nothing.
<1>RecheckShape. Shape /\ Recheck => Shape'
  <2> SUFFICES ASSUME Shape, Recheck PROVE Shape'
    OBVIOUS
  <2>1. SlotTypes /\ stack \in Seq(Frames) /\ Shaped
    BY TypeParts DEF Shape
  <2>2. In("tick") /\ UNCHANGED <<slots, cycles, finished, fatal, wait>>
    BY Zenon DEF Recheck
  <2> USE <2>1
  <2>3. stack # <<>> /\ Top \in TickFrames /\ Top.act = "tick"
    BY <2>2, InFacts
  <2> DEFINE g == [Top EXCEPT !.at = "resume", !.i = 1, !.changed = FALSE]
  <2>4. PICK r \in ReadResumed(Top) :
            /\ kind' = [s \in Slots |-> IF s \in Woken(Top, r) THEN "Ready" ELSE kind[s]]
            /\ timedOut' = [s \in Slots |-> IF s \in Woken(Top, r) /\ kind[s] = "WaitUntilTimeout"
                                            THEN FALSE ELSE timedOut[s]]
            /\ holds' = holds \ Woken(Top, r)
            /\ Swap(g) \/ Pop
    BY Zenon DEF Recheck
  <2>5. g \in Frames /\ g.act = "tick" /\ g.excluded = Top.excluded
    BY Zenon, <2>3, RoundFacts DEF Frames
  <2> HIDE DEF g
  <2>6. Alike(Top, g) /\ ~ Base(Top)
    BY Zenon, <2>3, <2>5 DEF Alike, Base
  <2>7. stack' \in Seq(Frames) /\ Shaped'
    BY Zenon, <2>3, <2>4, <2>5, <2>6, <1>ShapedSwap, ShapedPop
  <2>8. kind' \in [Slots -> Kinds]
    BY <2>4 DEF SlotTypes, Kinds
  <2>9. timedOut' \in [Slots -> BOOLEAN]
    BY Zenon, <2>4 DEF SlotTypes
  <2>10. Observed'
    <3>1. \A h \in holds' : /\ h \in holds /\ h \notin Woken(Top, r)
                            /\ h \in Slots /\ h \notin finished
                            /\ kind[h] \in PredKinds \/ (kind[h] = "Ready" /\ timedOut[h])
      BY Zenon, <2>4 DEF SlotTypes, Observed
    <3>2. \A h \in holds' : kind'[h] = kind[h] /\ timedOut'[h] = timedOut[h]
      BY Zenon, <2>4, <3>1
    <3>3. UNCHANGED finished
      BY <2>2
    <3> QED
      BY Zenon, <3>1, <3>2, <3>3 DEF Observed
  <2>11. SlotTypes'
    BY Zenon, <2>2, <2>8, <2>9, <2>10 DEF SlotTypes
  <2> QED
    BY <2>7, <2>11, <1>TypePartsNext DEF Shape

\* Actors are slots.
<1>RegisterActorsTypes. ASSUME SlotTypes, RegisterActors PROVE slots' \in Seq(Slots)
  <2> USE <1>RegisterActorsTypes
  <2> DEFINE u == [i \in Actors |-> i]
  <2>1. u \in Seq(Slots)
    <3>1. NActors \in Nat /\ Actors = 1 .. NActors
      BY ConstantsAssumption DEF Actors
    <3>2. \A i \in Actors : i \in Slots
      BY SlotFacts
    <3> QED
      BY <3>1, <3>2
  <2>2. slots \in Seq(Slots) /\ slots' = slots \o u
    BY Zenon DEF SlotTypes, RegisterActors
  <2> HIDE DEF u
  <2> QED
    BY Zenon, <2>1, <2>2, ConcatFacts

\* Registering them calls nothing.
<1>RegisterActorsShape. Shape /\ RegisterActors => Shape'
  <2> SUFFICES ASSUME Shape, RegisterActors PROVE Shape'
    OBVIOUS
  <2>1. SlotTypes /\ stack \in Seq(Frames) /\ Shaped
    BY TypeParts DEF Shape
  <2>2. UNCHANGED <<kind, cycles, timedOut, finished, holds, stack, fatal, wait>>
    BY Zenon DEF RegisterActors
  <2> USE <2>1
  <2>3. slots' \in Seq(Slots)
    BY <1>RegisterActorsTypes
  <2> USE <2>2
  <2>4. Observed'
    BY DEF SlotTypes, Observed
  <2>5. SlotTypes'
    BY Zenon, <2>3, <2>4 DEF SlotTypes
  <2>6. stack' \in Seq(Frames) /\ Shaped'
    BY DEF Shaped
  <2> QED
    BY <2>5, <2>6, <1>TypePartsNext DEF Shape

\* A coroutine that suspends returns to whoever resumed it,
<1>SuspendShape. ASSUME NEW s \in Slots, Shape, Suspend(s) PROVE Shape'
  <2> USE <1>SuspendShape
  <2>1. SlotTypes
    BY TypeParts DEF Shape
  <2>2. In("run") /\ Pop /\ UNCHANGED <<slots, finished, fatal>>
    BY Zenon DEF Suspend, Segment
  <2> USE <2>2
  <2>3. stack' \in Seq(Frames) /\ Shaped'
    BY LeaveFacts
  <2>4. PICK k \in Kinds \ {"Ready", "Done"}, n \in 0 .. MaxWait :
            /\ kind' = [kind EXCEPT ![s] = k]
            /\ IF k = "WaitUntil" THEN n = 0 /\ UNCHANGED cycles
               ELSE n > 0 /\ cycles' = [cycles EXCEPT ![s] = n]
            /\ timedOut' = [timedOut EXCEPT ![s] = IF k = "WaitUntilTimeout" THEN FALSE ELSE @]
            /\ wait' = [wait EXCEPT ![s] = [on |-> k, n |-> n, age |-> FirstAge]]
            /\ holds' \in SUBSET Observable(kind', timedOut')
    BY Zenon DEF Suspend
  <2> USE <2>1, <2>4
  <2>5. kind' \in [Slots -> Kinds]
    BY Zenon DEF SlotTypes
  <2>6. cycles' \in [Slots -> 0 .. MaxWait]
    BY Zenon DEF SlotTypes
  <2>7. timedOut' \in [Slots -> BOOLEAN]
    BY Zenon DEF SlotTypes
  <2>8. wait' \in [Slots -> Waits]
    <3>1. FirstAge \in 0 .. MaxWait + 1 /\ n \in -1 .. MaxWait
      BY ConstantsAssumption DEF FirstAge
    <3>2. [on |-> k, n |-> n, age |-> FirstAge] \in Waits
      BY <3>1 DEF Waits
    <3> QED
      BY Zenon, <3>2 DEF SlotTypes
  <2>9. Observed'
    BY Zenon DEF Observed, Observable
  <2>10. SlotTypes'
    BY Zenon, <2>5, <2>6, <2>7, <2>8, <2>9 DEF SlotTypes
  <2> QED
    BY <2>3, <2>10, <1>TypePartsNext DEF Shape

\* and so does one that ends.
<1>FinishShape. ASSUME NEW s \in Slots, Shape, Finish(s) PROVE Shape'
  <2> USE <1>FinishShape
  <2>1. SlotTypes
    BY TypeParts DEF Shape
  <2>2. In("run") /\ Pop /\ UNCHANGED <<slots, cycles, timedOut, fatal>>
    BY Zenon DEF Finish, Segment
  <2> USE <2>2
  <2>3. stack' \in Seq(Frames) /\ Shaped'
    BY LeaveFacts
  <2>4. /\ finished' = finished \cup {s}
        /\ kind' = [kind EXCEPT ![s] =
                    IF Capsule /\ s = run /\ ~ Top.abort THEN "WaitUntil"
                    ELSE IF stack[Len(stack) - 1].act = "cycle" THEN @ ELSE "Done"]
        /\ holds' \in SUBSET (Observable(kind', timedOut) \ {s})
        /\ wait' = [wait EXCEPT ![s] = NoWait]
    BY Zenon DEF Finish
  <2> USE <2>1, <2>4
  <2>5. kind' \in [Slots -> Kinds]
    BY Zenon DEF SlotTypes, Kinds
  <2>6. wait' \in [Slots -> Waits]
    <3>1. NoWait \in Waits
      BY ConstantsAssumption DEF NoWait, Waits, Kinds
    <3> QED
      BY Zenon, <3>1 DEF SlotTypes
  <2>7. Observed' /\ finished' \subseteq Slots
    BY Zenon DEF SlotTypes, Observed, Observable
  <2>8. SlotTypes'
    BY Zenon, <2>5, <2>6, <2>7 DEF SlotTypes
  <2> QED
    BY <2>3, <2>8, <1>TypePartsNext DEF Shape

\* Only the run coroutine lets time pass without suspending.
<1>RunCyclesShape.
    ASSUME NEW how \in {"qualified", "sync"}, Shape, RunCycles(how)
    PROVE  Shape'
  <2> USE <1>RunCyclesShape
  <2>1. SlotTypes /\ stack \in Seq(Frames) /\ Shaped
    BY TypeParts DEF Shape
  <2> DEFINE c == Cycle(how, "edge")
  <2>2. /\ In("run") /\ Top.slot = run /\ how \in Sites /\ Push(c)
        /\ UNCHANGED <<slotVars, holds, fatal>>
    BY Zenon DEF RunCycles, Segment
  <2> USE <2>1, <2>2
  <2>3. stack # <<>> /\ Top.act = "run"
    BY InFacts
  <2>4. c \in Frames /\ c.act = "cycle" /\ c.how = how
    BY CycleFacts DEF Frames
  <2> HIDE DEF c
  <2>5. Calls(Top, c)
    BY Zenon, <2>3, <2>4 DEF Calls
  <2>6. stack' \in Seq(Frames) /\ Shaped'
    BY Zenon, <2>3, <2>4, <2>5, <1>ShapedPush
  <2>7. SlotTypes'
    BY <1>SlotTypesKept DEF SlotTypes
  <2> QED
    BY <2>6, <2>7, <1>TypePartsNext DEF Shape

\* A fatal error calls nothing.
<1>RaiseFatalShape. Shape /\ RaiseFatal => Shape'
  <2> SUFFICES ASSUME Shape, RaiseFatal PROVE Shape'
    OBVIOUS
  <2>1. SlotTypes /\ stack \in Seq(Frames) /\ Shaped
    BY TypeParts DEF Shape
  <2>2. UNCHANGED <<slotVars, holds, stack>> /\ fatal' \in BOOLEAN
    BY Zenon DEF RaiseFatal
  <2>3. SlotTypes'
    BY <2>1, <2>2, <1>SlotTypesKept
  <2>4. stack' \in Seq(Frames) /\ Shaped'
    BY <2>1, <2>2 DEF Shaped
  <2> QED
    BY <2>3, <2>4, <1>TypePartsNext DEF Shape

\* The end of the drive loop empties the stack.
<1>TeardownShape. Shape /\ Teardown => Shape'
  <2> SUFFICES ASSUME Shape, Teardown PROVE Shape'
    OBVIOUS
  <2>1. SlotTypes
    BY TypeParts DEF Shape
  <2>2. /\ stack' = <<>> /\ slots' = <<>> /\ holds' = {}
        /\ UNCHANGED <<kind, cycles, timedOut, finished, fatal, wait>>
    BY Zenon DEF Teardown
  <2> USE <2>2
  <2>3. stack' \in Seq(Frames) /\ slots' \in Seq(Slots) /\ Len(stack') = 0
    OBVIOUS
  <2> USE <2>3
  <2>4. Shaped'
    BY DEF Shaped
  <2>5. Observed'
    BY Zenon DEF Observed
  <2>6. SlotTypes'
    BY Zenon, <2>1, <2>5 DEF SlotTypes
  <2> QED
    BY <2>4, <2>6, <1>TypePartsNext DEF Shape

\* No step.
<1>StutterShape. Shape /\ UNCHANGED vars => Shape'
  <2> SUFFICES ASSUME Shape, UNCHANGED vars PROVE Shape'
    OBVIOUS
  <2>1. SlotTypes /\ stack \in Seq(Frames) /\ Shaped
    BY TypeParts DEF Shape
  <2>2. UNCHANGED slotVars /\ UNCHANGED holds /\ UNCHANGED stack /\ UNCHANGED fatal
    BY Zenon DEF vars, slotVars
  <2>3. SlotTypes'
    BY <2>1, <2>2, <1>SlotTypesKept DEF SlotTypes
  <2>4. stack' \in Seq(Frames) /\ Shaped'
    BY <2>1, <2>2 DEF Shaped
  <2> QED
    BY <2>3, <2>4, <1>TypePartsNext DEF Shape

<1> USE Zenon
<1> SUFFICES ASSUME Shape, [Next]_vars PROVE Shape'
  OBVIOUS
<1>1. CASE BootResume \/ BootEnd
  BY <1>1, <1>BootResumeShape, <1>BootEndShape
<1>2. CASE Edge \/ QualifiedOver \/ Services \/ Checkers
  BY <1>2, <1>EdgeShape, <1>QualifiedOverShape, <1>ServicesShape, <1>CheckersShape
<1>3. CASE TickStart \/ ResumeNext \/ Recheck
  BY <1>3, <1>TickStartShape, <1>ResumeNextShape, <1>RecheckShape
<1>4. CASE RegisterActors \/ RaiseFatal \/ Teardown
  BY <1>4, <1>RegisterActorsShape, <1>RaiseFatalShape, <1>TeardownShape
<1>5. ASSUME NEW s \in Slots, Suspend(s) \/ Finish(s) PROVE Shape'
  BY <1>5, <1>SuspendShape, <1>FinishShape
<1>6. ASSUME NEW how \in {"qualified", "sync"}, RunCycles(how) PROVE Shape'
  BY <1>6, <1>RunCyclesShape
<1>7. CASE Over \/ UNCHANGED vars
  BY <1>7, <1>StutterShape DEF Over
<1> QED
  BY <1>1, <1>2, <1>3, <1>4, <1>5, <1>6, <1>7 DEF Next

\* The stack always has the shape of the calls that the code makes.
LEMMA ShapeInvariance == Spec => []Shape
<1>1. Shape /\ [Next]_vars => Shape'
  BY NextShape
<1> QED
  BY <1>1, InitShape, PTL DEF Spec

-----------------------------------------------------------------------------
\* The run coroutine is resumed by bootstrap or by the drive loop's own tick:
\* it is the second or the third activation.
LEMMA RunPlace ==
    ASSUME Shape, NEW k \in 1 .. Len(stack), stack[k].act = "run", stack[k].slot = run
    PROVE  k = IF stack[1].act = "boot" THEN 2 ELSE 3
<1>1. stack \in Seq(Frames) /\ Shaped /\ Len(stack) \in Nat /\ k \in Nat
  BY TypeParts DEF Shape
<1>2. ~ Base(stack[k])
  BY Zenon DEF Base
<1>3. k - 1 \in 1 .. Len(stack) /\ Calls(stack[k - 1], stack[k])
  BY Zenon, <1>1, <1>2, Called
<1>4. CASE stack[k - 1].act = "boot"
  <2>1. k - 1 = 1
    BY Zenon, <1>1, <1>3, <1>4, BaseFirst DEF Base
  <2> QED
    BY <1>1, <1>4, <2>1
<1>5. CASE stack[k - 1].act = "tick" /\ stack[k - 1].excluded # run
  <2>1. PICK j \in 1 .. Len(stack) : j = k - 1
    BY <1>3
  <2>2. ~ Base(stack[j])
    BY Zenon, <1>5, <2>1 DEF Base
  <2>3. j - 1 \in 1 .. Len(stack) /\ Calls(stack[j - 1], stack[j])
    BY Zenon, <1>1, <2>2, Called
  <2>4. PICK i \in 1 .. Len(stack) : i = j - 1
    BY <2>3
  <2>5. /\ stack[i].act = "cycle" /\ stack[i].how # "sync"
        /\ stack[j].excluded = Excluded(stack[i].how)
    BY Zenon, <1>5, <2>1, <2>3, <2>4 DEF Calls
  <2>6. stack[i].how # "qualified"
    BY Zenon, <1>5, <2>1, <2>5 DEF Excluded
  <2>7. stack[i] \in CycleFrames
    <3>1. stack[i] \in Frames
      BY <1>1, <2>4
    <3> QED
      BY Zenon, <2>5, <3>1, FrameKinds
  <2>8. stack[i].how = "loop"
    BY <2>5, <2>6, <2>7 DEF CycleFrames
  <2>9. i = 1
    BY Zenon, <1>1, <2>5, <2>8, BaseFirst DEF Base
  <2> QED
    BY <1>1, <2>1, <2>4, <2>5, <2>9
<1> QED
  BY Zenon, <1>3, <1>4, <1>5, SlotFacts DEF Calls

\* A coroutine is at most once on the stack.
LEMMA OnceRunning == Shape => NoReentry
\* Only the run coroutine calls anything.
<1>TopRun.
    ASSUME Shape, NEW k \in 1 .. Len(stack), stack[k].act = "run", stack[k].slot # run
    PROVE  k = Len(stack)
  <2> USE <1>TopRun
  <2>1. stack \in Seq(Frames) /\ Shaped /\ Len(stack) \in Nat /\ k \in Nat
    BY TypeParts DEF Shape
  <2>2. CASE k # Len(stack)
    <3>1. PICK j \in 1 .. Len(stack) : j = k + 1 /\ j # 1 /\ j - 1 = k
      BY <2>1, <2>2
    <3>2. ~ Base(stack[j])
      BY Zenon, <2>1, <3>1, BaseFirst
    <3>3. Calls(stack[k], stack[j])
      BY Zenon, <2>1, <3>1, <3>2, Called
    <3> QED
      BY Zenon, <3>3 DEF Calls
  <2> QED
    BY <2>2

<1> SUFFICES ASSUME Shape, NEW i \in DOMAIN stack, NEW j \in DOMAIN stack,
                    stack[i].act = "run", stack[j].act = "run", stack[i].slot = stack[j].slot
             PROVE  i = j
  BY Zenon DEF NoReentry
<1>1. i \in 1 .. Len(stack) /\ j \in 1 .. Len(stack)
  BY TypeParts DEF Shape
<1>2. CASE stack[i].slot = run
  BY Zenon, <1>1, <1>2, RunPlace
<1>3. CASE stack[i].slot # run
  BY Zenon, <1>1, <1>3, <1>TopRun
<1> QED
  BY <1>2, <1>3

\* No coroutine is resumed while it is already on the stack, whatever mixture of
\* nested clock cycles, handlers and fatal errors a program has.
THEOREM Reentry == Spec => []NoReentry
  BY OnceRunning, ShapeInvariance, PTL

-----------------------------------------------------------------------------
\* Registration, and the slots still ahead of the innermost scheduler loop.

\* bootstrap and the ticks on the stack are where they were and as they were.
SameLoops ==
    /\ \A k \in DOMAIN stack : stack[k].act \in {"boot", "tick"} =>
          k \in DOMAIN stack' /\ stack'[k] = stack[k]
    /\ \A k \in DOMAIN stack' : stack'[k].act \in {"boot", "tick"} =>
          k \in DOMAIN stack /\ stack'[k] = stack[k]

\* Who runs goes on running.
StillRunning == \A u \in Slots : Running(u) => Running(u)'

\* The coroutines on the stack are where they were.
SameRuns ==
    /\ \A k \in DOMAIN stack : stack[k].act = "run" =>
          k \in DOMAIN stack' /\ stack'[k].act = "run" /\ stack'[k].slot = stack[k].slot
    /\ \A k \in DOMAIN stack' : stack'[k].act = "run" =>
          k \in DOMAIN stack /\ stack[k].act = "run" /\ stack[k].slot = stack'[k].slot

\* Calls, moves and returns of cycles and coroutines leave the resume loops alone.
LEMMA PushQuiet ==
    ASSUME stack \in Seq(Frames), NEW a \in Frames, Push(a), a.act \in {"cycle", "run"}
    PROVE  SameLoops /\ StillRunning /\ (a.act = "cycle" => SameRuns)
<1>1. /\ stack' \in Seq(Frames) /\ Len(stack') = Len(stack) + 1
      /\ \A i \in 1 .. Len(stack) : stack'[i] = stack[i]
      /\ stack'[Len(stack) + 1] = a
  BY PushFacts
<1> USE <1>1
<1>2. /\ Len(stack) \in Nat /\ DOMAIN stack = 1 .. Len(stack) /\ DOMAIN stack' = 1 .. Len(stack) + 1
  OBVIOUS
<1>3. \A i \in DOMAIN stack : i \in DOMAIN stack' /\ stack'[i] = stack[i]
  OBVIOUS
<1>4. \A i \in DOMAIN stack' : i \in DOMAIN stack \/ stack'[i] = a
  OBVIOUS
<1> USE <1>3
<1>5. SameLoops
  BY Zenon, <1>4 DEF SameLoops
<1>6. StillRunning
  BY Zenon DEF StillRunning, Running
<1>7. a.act = "cycle" => SameRuns
  BY Zenon, <1>4 DEF SameRuns
<1> QED
  BY Zenon, <1>5, <1>6, <1>7

\* The same for a cycle that moves on,
LEMMA SwapQuiet ==
    ASSUME stack \in Seq(Frames), stack # <<>>, NEW a \in Frames, Swap(a),
           Top.act = "cycle", a.act = "cycle"
    PROVE  SameLoops /\ StillRunning /\ SameRuns
<1>1. /\ stack' \in Seq(Frames) /\ Len(stack') = Len(stack)
      /\ \A i \in 1 .. Len(stack) - 1 : stack'[i] = stack[i]
      /\ stack'[Len(stack)] = a
  BY SwapFacts
<1> USE <1>1
<1>2. /\ Len(stack) \in Nat /\ DOMAIN stack = 1 .. Len(stack) /\ DOMAIN stack' = 1 .. Len(stack)
  OBVIOUS
<1>3. \A i \in DOMAIN stack : i \in DOMAIN stack' /\ (stack'[i] = stack[i] \/ i = Len(stack))
  BY <1>2
<1>4. stack[Len(stack)].act = "cycle" /\ stack'[Len(stack)].act = "cycle"
  BY Zenon DEF Top
<1>5. DOMAIN stack' = DOMAIN stack
  BY <1>2
<1> USE <1>3, <1>4
<1>6. SameLoops
  BY Zenon, <1>5 DEF SameLoops
<1>7. StillRunning
  BY Zenon DEF StillRunning, Running
<1>8. SameRuns
  BY Zenon, <1>5 DEF SameRuns
<1> QED
  BY Zenon, <1>6, <1>7, <1>8

\* for a coroutine that returns,
LEMMA PopQuiet ==
    ASSUME stack \in Seq(Frames), stack # <<>>, Pop, Top.act = "run"
    PROVE  SameLoops /\ \A u \in Slots : u # Top.slot => (Running(u) <=> Running(u)')
<1>1. /\ stack' \in Seq(Frames) /\ Len(stack') = Len(stack) - 1
      /\ \A i \in 1 .. Len(stack) - 1 : stack'[i] = stack[i]
  BY PopFacts
<1> USE <1>1
<1>2. /\ Len(stack) \in Nat /\ DOMAIN stack = 1 .. Len(stack) /\ DOMAIN stack' = 1 .. Len(stack) - 1
  OBVIOUS
<1>3. \A i \in DOMAIN stack : i = Len(stack) \/ (i \in DOMAIN stack' /\ stack'[i] = stack[i])
  OBVIOUS
<1>4. \A i \in DOMAIN stack' : i \in DOMAIN stack /\ stack'[i] = stack[i]
  OBVIOUS
<1>5. stack[Len(stack)].act = "run" /\ stack[Len(stack)].slot = Top.slot
  BY Zenon DEF Top
<1>6. SameLoops
  BY Zenon, <1>3, <1>4, <1>5 DEF SameLoops
<1>7. ASSUME NEW u \in Slots, u # Top.slot PROVE Running(u) <=> Running(u)'
  BY Zenon, <1>3, <1>4, <1>5, <1>7 DEF Running
<1> QED
  BY Zenon, <1>6, <1>7

-----------------------------------------------------------------------------
\* Steps of a cycle: what they do to the stack, and to the tick still to come.

\* The innermost activation tells whether a tick is still to come,
LEMMA PendingNow ==
    ASSUME stack # <<>>, NEW f, f = Top
    PROVE  /\ f.act = "cycle" => (Pending <=> Owes(f))
           /\ f.act \in {"boot", "tick"} => ~ Pending
           /\ f.act = "run" => (Pending <=> Owes(stack[Len(stack) - 1]))
BY Zenon DEF Pending, Owes

\* also after a step.
LEMMA PendingNext ==
    ASSUME stack' # <<>>, NEW f, f = stack'[Len(stack')]
    PROVE  /\ f.act = "cycle" => (Pending' <=> Owes(f))
           /\ f.act \in {"boot", "tick"} => ~ Pending'
           /\ f.act = "run" => (Pending' <=> Owes(stack'[Len(stack') - 1]))
BY Zenon DEF Pending, Owes, Top

\* The run coroutine never runs between a posedge and its tick.
LEMMA RunOwesNothing ==
    ASSUME Shape, NEW k \in 1 .. Len(stack), stack[k].act = "run", stack[k].slot = run
    PROVE  k - 1 \in 1 .. Len(stack) /\ ~ Owes(stack[k - 1])
<1> USE Zenon
<1>1. stack \in Seq(Frames) /\ Shaped
  BY DEF Shape, TypeOK
<1>2. ~ Base(stack[k])
  BY DEF Base
<1>3. k - 1 \in 1 .. Len(stack) /\ Calls(stack[k - 1], stack[k])
  BY <1>1, <1>2, Called
<1> QED
  BY <1>3, SlotFacts DEF Calls, Owes

\* A posedge.
LEMMA EdgeQuiet ==
    ASSUME Shape, Edge
    PROVE  /\ SameLoops /\ StillRunning /\ SameRuns
           /\ ~ Pending /\ (Pending' <=> Top.how # "sync")
<1>1. In("cycle") /\ Top.at = "edge" /\ Swap([Top EXCEPT !.at = "services"])
  BY Zenon DEF Edge
<1>2. stack \in Seq(Frames)
  BY Zenon DEF Shape, TypeOK
<1> USE <1>1, <1>2
<1>3. stack # <<>> /\ Top \in CycleFrames /\ Top.act = "cycle" /\ Len(stack) \in Nat \ {0}
  BY InFacts
<1> DEFINE c == [Top EXCEPT !.at = "services"]
<1> USE <1>3
<1>4. c \in Frames /\ c.act = "cycle" /\ c.how = Top.how /\ c.at = "services" /\ Swap(c)
  BY Zenon, AtFacts DEF Frames
<1> HIDE DEF c
<1> USE <1>4
<1>5. SameLoops /\ StillRunning /\ SameRuns
  BY Zenon, SwapQuiet
<1>6. stack' # <<>> /\ c = stack'[Len(stack')]
  <2>1. stack' \in Seq(Frames) /\ Len(stack') = Len(stack) /\ stack'[Len(stack)] = c
    BY Zenon, SwapFacts
  <2> QED
    BY <2>1
<1>7. ~ Owes(Top) /\ (Owes(c) <=> Top.how # "sync")
  BY DEF Owes
<1> QED
  BY Zenon, <1>5, <1>6, <1>7, PendingNow, PendingNext

\* The end of a qualified wait.
LEMMA QualifiedOverQuiet ==
    ASSUME Shape, QualifiedOver
    PROVE  SameLoops /\ StillRunning /\ SameRuns /\ ~ Pending /\ ~ Pending'
<1> USE Zenon
<1>1. In("cycle") /\ Top.at = "edge"
  BY DEF QualifiedOver
<1>2. stack \in Seq(Frames) /\ fatal \in BOOLEAN
  BY DEF Shape, TypeOK
<1> USE <1>2
<1>3. stack # <<>> /\ Top \in CycleFrames /\ Top.act = "cycle" /\ Len(stack) \in Nat \ {0}
  BY SMT, <1>1, InFacts
<1>4. PICK owed \in {FALSE, fatal} : Swap([Top EXCEPT !.at = "checkers", !.owed = owed])
  BY DEF QualifiedOver
<1> DEFINE c == [Top EXCEPT !.at = "checkers", !.owed = owed]
<1> USE <1>3
<1>5. c \in Frames /\ c.act = "cycle" /\ c.at = "checkers" /\ Swap(c)
  <2>1. owed \in BOOLEAN
    OBVIOUS
  <2> QED
    BY <1>4, <2>1, OwedFacts DEF Frames
<1> HIDE DEF c
<1> USE <1>5
<1>6. SameLoops /\ StillRunning /\ SameRuns
  BY SwapQuiet
<1>7. stack' # <<>> /\ c = stack'[Len(stack')]
  <2>1. stack' \in Seq(Frames) /\ Len(stack') = Len(stack) /\ stack'[Len(stack)] = c
    BY SwapFacts
  <2> QED
    BY SMT, <2>1
<1>8. ~ Owes(Top) /\ ~ Owes(c)
  BY SMT, <1>1 DEF Owes
<1> QED
  BY <1>6, <1>7, <1>8, PendingNow, PendingNext

\* The services are done.
LEMMA ServicesQuiet ==
    ASSUME Shape, In("cycle"), Top.at = "services",
           Swap([Top EXCEPT !.at = AfterServices(Top.how)])
    PROVE  SameLoops /\ StillRunning /\ SameRuns /\ (Pending' <=> Pending)
<1>1. stack \in Seq(Frames)
  BY Zenon DEF Shape, TypeOK
<1> USE <1>1
<1>2. stack # <<>> /\ Top \in CycleFrames /\ Top.act = "cycle" /\ Len(stack) \in Nat \ {0}
  BY InFacts
<1> DEFINE c == [Top EXCEPT !.at = AfterServices(Top.how)]
<1>3. /\ AfterServices(Top.how) \in {"edge", "services", "tick", "checkers"}
      /\ AfterServices(Top.how) = "tick" => Top.how # "sync"
  BY Zenon DEF AfterServices
<1> USE <1>2
<1>4. /\ c \in Frames /\ c.act = "cycle" /\ c.how = Top.how /\ c.at = AfterServices(Top.how)
      /\ Swap(c)
  BY Zenon, <1>3, AtFacts DEF Frames
<1> HIDE DEF c
<1> USE <1>4
<1>5. SameLoops /\ StillRunning /\ SameRuns
  BY Zenon, SwapQuiet
<1>6. stack' # <<>> /\ c = stack'[Len(stack')]
  <2>1. stack' \in Seq(Frames) /\ Len(stack') = Len(stack) /\ stack'[Len(stack)] = c
    BY Zenon, SwapFacts
  <2> QED
    BY <2>1
<1>7. Owes(Top) <=> Owes(c)
  BY DEF Owes, AfterServices
<1> QED
  BY Zenon, <1>5, <1>6, <1>7, PendingNow, PendingNext

\* The checkers are done.
LEMMA CheckersQuiet ==
    ASSUME Shape, In("cycle"), Top.at = "checkers",
           IF Top.how = "loop" THEN Swap(Cycle("loop", "edge"))
           ELSE stack' = [Callers EXCEPT ![Len(stack) - 1].abort = Top.owed]
    PROVE  SameLoops /\ StillRunning /\ SameRuns /\ ~ Pending /\ ~ Pending'

\* and for a cycle that returns to the run coroutine.
<1>ReturnQuiet.
    ASSUME Shape, In("cycle"), Top.how # "loop",
           stack' = [Callers EXCEPT ![Len(stack) - 1].abort = Top.owed]
    PROVE  SameLoops /\ StillRunning /\ SameRuns
  <2> USE Zenon, <1>ReturnQuiet
  <2>1. /\ stack' \in Seq(Frames) /\ Len(stack') = Len(stack) - 1
        /\ Len(stack') \in 1 .. Len(stack) /\ stack[Len(stack')].act = "run"
        /\ \A i \in 1 .. Len(stack') - 1 : stack'[i] = stack[i]
        /\ Alike(stack[Len(stack')], stack'[Len(stack')])
    BY ReturnFacts
  <2>2. stack \in Seq(Frames) /\ Top = stack[Len(stack)] /\ Top.act = "cycle"
    BY InFacts, TypeParts DEF Shape
  <2>3. PICK n : n = Len(stack')
    OBVIOUS
  <2>4. /\ Len(stack) \in Nat /\ DOMAIN stack = 1 .. Len(stack)
        /\ n \in 1 .. Len(stack) /\ n = Len(stack) - 1 /\ DOMAIN stack' = 1 .. n
    BY SMT, <2>1, <2>3
  <2> USE <2>4
  <2>5. \A i \in DOMAIN stack : i = Len(stack) \/ i = n \/ (i \in DOMAIN stack' /\ stack'[i] = stack[i])
    BY SMT, <2>1
  <2>6. \A i \in DOMAIN stack' : i \in DOMAIN stack /\ (i = n \/ stack'[i] = stack[i])
    BY SMT, <2>1, <2>3
  <2>7. /\ stack[Len(stack)].act = "cycle" /\ stack[n].act = "run" /\ n \in DOMAIN stack'
        /\ stack'[n].act = "run" /\ stack'[n].slot = stack[n].slot
    <3>1. n \in DOMAIN stack'
      BY SMT
    <3> QED
      BY <2>1, <2>2, <3>1 DEF Alike
  <2>8. SameLoops
    BY <2>5, <2>6, <2>7 DEF SameLoops
  <2>9. SameRuns
    <3>1. ASSUME NEW i \in DOMAIN stack, stack[i].act = "run"
          PROVE  i \in DOMAIN stack' /\ stack'[i].act = "run" /\ stack'[i].slot = stack[i].slot
      <4>1. CASE i = n
        BY <2>7, <4>1
      <4>2. CASE i # n
        BY <2>5, <2>7, <3>1
      <4> QED
        BY <4>1, <4>2
    <3>2. ASSUME NEW i \in DOMAIN stack', stack'[i].act = "run"
          PROVE  i \in DOMAIN stack /\ stack[i].act = "run" /\ stack[i].slot = stack'[i].slot
      <4>1. CASE i = n
        BY <2>7, <4>1
      <4>2. CASE i # n
        BY <2>6, <3>2, <4>2
      <4> QED
        BY <4>1, <4>2
    <3> QED
      BY <3>1, <3>2 DEF SameRuns
  <2>10. StillRunning
    BY <2>9 DEF StillRunning, SameRuns, Running
  <2> QED
    BY <2>8, <2>9, <2>10

<1> USE Zenon
<1>1. stack \in Seq(Frames)
  BY DEF Shape, TypeOK
<1> USE <1>1
<1>2. /\ stack # <<>> /\ Top = stack[Len(stack)] /\ Top.act = "cycle" /\ Len(stack) \in Nat \ {0}
  BY SMT, InFacts
<1> USE <1>2
<1>3. ~ Pending
  BY PendingNow DEF Owes
<1>4. CASE Top.how = "loop"
  <2>1. PICK c \in Frames : c = Cycle("loop", "edge") /\ c.act = "cycle" /\ c.at = "edge"
    BY CycleFacts DEF Frames
  <2> USE <2>1
  <2>2. Swap(c)
    BY <1>4
  <2>3. SameLoops /\ StillRunning /\ SameRuns
    BY <2>2, SwapQuiet
  <2>4. stack' # <<>> /\ c = stack'[Len(stack')]
    <3>1. stack' \in Seq(Frames) /\ Len(stack') = Len(stack) /\ stack'[Len(stack)] = c
      BY <2>2, SwapFacts
    <3> QED
      BY SMT, <3>1
  <2>5. ~ Pending'
    BY <2>4, PendingNext DEF Owes
  <2> QED
    BY <1>3, <2>3, <2>5
<1>5. CASE Top.how # "loop"
  <2>1. SameLoops /\ StillRunning /\ SameRuns
    BY <1>5, <1>ReturnQuiet
  <2>2. /\ stack' \in Seq(Frames) /\ Len(stack') = Len(stack) - 1
        /\ Len(stack') \in 1 .. Len(stack) /\ stack[Len(stack')].act = "run"
        /\ \A i \in 1 .. Len(stack') - 1 : stack'[i] = stack[i]
        /\ Alike(stack[Len(stack')], stack'[Len(stack')])
    BY <1>5, ReturnFacts
  <2> USE <2>2
  <2>3. stack[Len(stack')].slot = run
    <3>1. ~ Base(Top)
      BY <1>5 DEF Base
    <3>2. Calls(stack[Len(stack) - 1], stack[Len(stack)])
      <4>1. Len(stack) \in 1 .. Len(stack) /\ ~ Base(stack[Len(stack)]) /\ Shaped
        BY SMT, <3>1 DEF Shape
      <4> QED
        BY <4>1, Called
    <3> QED
      BY <3>2 DEF Calls
  <2>4. PICK n \in 1 .. Len(stack) : n = Len(stack')
    OBVIOUS
  <2> USE <2>4
  <2>5. n - 1 \in 1 .. Len(stack) /\ ~ Owes(stack[n - 1])
    BY <2>3, RunOwesNothing
  <2>6. stack'[n - 1] = stack[n - 1] /\ stack' # <<>> /\ stack'[n].act = "run"
    <3>1. n - 1 \in 1 .. Len(stack') - 1 /\ stack' # <<>>
      BY SMT, <2>5
    <3> QED
      BY <3>1 DEF Alike
  <2>7. ~ Pending'
    BY <2>5, <2>6, PendingNext
  <2> QED
    BY <1>3, <2>1, <2>7
<1> QED
  BY <1>4, <1>5

\* The run coroutine calls a cycle.
LEMMA RunCyclesQuiet ==
    ASSUME NEW how \in {"qualified", "sync"}, Shape, RunCycles(how)
    PROVE  SameLoops /\ StillRunning /\ SameRuns /\ ~ Pending /\ ~ Pending'
<1> USE Zenon
<1>1. In("run") /\ Top.slot = run /\ Push(Cycle(how, "edge"))
  BY DEF RunCycles, Segment
<1>2. stack \in Seq(Frames)
  BY DEF Shape, TypeOK
<1> USE <1>1, <1>2
<1>3. stack # <<>> /\ Top = stack[Len(stack)] /\ Top.act = "run" /\ Len(stack) \in 1 .. Len(stack)
  BY SMT, InFacts
<1>4. PICK c \in Frames : c = Cycle(how, "edge") /\ c.act = "cycle" /\ c.at = "edge"
  <2>1. how \in {"loop", "qualified", "sync"}
    OBVIOUS
  <2> QED
    BY CycleFacts DEF Frames
<1> USE <1>4
<1>5. Push(c)
  OBVIOUS
<1>6. SameLoops /\ StillRunning /\ SameRuns
  BY PushQuiet
<1>7. ~ Pending
  BY <1>3, RunOwesNothing, PendingNow
<1>8. stack' # <<>> /\ c = stack'[Len(stack')]
  BY SMT, PushFacts
<1>9. ~ Pending'
  BY <1>8, PendingNext DEF Owes
<1> QED
  BY <1>6, <1>7, <1>9

Rest == Registered /\ Sized /\ Covered

\* The invariant holds when bootstrap begins.
LEMMA InitRest == Init => Rest
<1> USE Zenon
<1> SUFFICES ASSUME Init PROVE Rest
  OBVIOUS
<1>1. /\ stack = <<Boot(1)>> /\ Boot(1).act = "boot" /\ Boot(1).i = 1
      /\ run \notin finished /\ kind[run] = "Ready"
  BY SMT, BootFacts, SlotFacts DEF Init
<1>2. /\ stack # <<>> /\ Len(stack) = 1 /\ DOMAIN stack = {1}
      /\ stack[1].act = "boot" /\ stack[1].i = 1
  BY SMT, <1>1
<1>3. slots \in Seq(Slots) /\ Len(slots) \in Nat /\ DOMAIN slots = 1 .. Len(slots)
  BY SMT, InitShape DEF Shape, TypeOK
<1> USE <1>2
<1>4. Sized
  BY DEF Sized
<1>5. Covered
  <2>1. Left \subseteq Range(slots)
    BY DEF Left
  <2>2. Ahead(stack[1]) = Range(slots)
    BY <1>3 DEF Ahead, Range
  <2> QED
    BY <2>1, <2>2 DEF Covered
<1>6. Registered
  <2>1. CASE Capsule
    BY <1>1, <2>1 DEF Registered, Init
  <2>2. CASE ~ Capsule
    BY <2>2 DEF Registered
  <2> QED
    BY <2>1, <2>2
<1> QED
  BY <1>4, <1>5, <1>6 DEF Rest

\* What bootstrap has not reached.
LEMMA BootAhead ==
    ASSUME Shape, Rest, In("boot")
    PROVE  /\ Len(stack) = 1 /\ DOMAIN stack = {1} /\ Top = stack[1] /\ Top.act = "boot"
           /\ \A u \in Slots : ~ Running(u)
           /\ \A u \in Left : \E j \in Top.i .. Len(slots) : u = slots[j]
<1> USE Zenon
<1>1. stack \in Seq(Frames) /\ Shaped
  BY DEF Shape, TypeOK
<1> USE <1>1
<1>2. stack # <<>> /\ Top.act = "boot" /\ Top = stack[Len(stack)] /\ Len(stack) \in 1 .. Len(stack)
  BY SMT, InFacts
<1> USE <1>2
<1>3. Len(stack) = 1
  BY BaseFirst DEF Base
<1> USE <1>3
<1>4. DOMAIN stack = {1} /\ 1 + 1 .. Len(stack) = {}
  BY SMT
<1> USE <1>4
<1>5. \A u \in Slots : ~ Running(u)
  BY DEF Running
<1>6. Innermost(1)
  BY DEF Innermost
<1>7. Left \subseteq Ahead(stack[1])
  BY <1>6 DEF Rest, Covered
<1> QED
  BY <1>5, <1>7 DEF Ahead

\* What a tick on top of the stack knows.
LEMMA TickAhead ==
    ASSUME Shape, Rest, In("tick")
    PROVE  /\ Left \subseteq Ahead(Top)
           /\ Top.size = Len(slots) /\ Top.resumed \subseteq DOMAIN slots
           /\ Top.excluded = run => Running(run)
<1> USE Zenon
<1>1. stack \in Seq(Frames) /\ Shaped
  BY DEF Shape, TypeOK
<1> USE <1>1
<1>2. /\ stack # <<>> /\ Top \in TickFrames /\ Top.act = "tick" /\ Top = stack[Len(stack)]
      /\ Len(stack) \in Nat \ {0}
  BY SMT, InFacts
<1> USE <1>2
<1>3. PICK n \in 1 .. Len(stack) : n = Len(stack) /\ n \in DOMAIN stack /\ n + 1 .. Len(stack) = {}
  BY SMT
<1> USE <1>3
<1>4. Innermost(n)
  BY DEF Innermost
<1>5. Left \subseteq Ahead(Top) /\ Top.size = Len(slots) /\ Top.resumed \subseteq DOMAIN slots
  BY <1>4 DEF Rest, Covered, Sized
<1>6. ASSUME Top.excluded = run PROVE Running(run)
  <2>1. ~ Base(stack[n])
    BY DEF Base
  <2>2. n - 1 \in 1 .. Len(stack) /\ Calls(stack[n - 1], stack[n])
    BY <2>1, Called
  <2>3. PICK k \in 1 .. Len(stack) : k = n - 1
    BY SMT, <2>2
  <2>4. stack[k].act = "cycle" /\ Excluded(stack[k].how) = run
    BY <1>6, <2>2, <2>3 DEF Calls
  <2> USE <2>4
  <2>5. stack[k].how = "qualified"
    BY SlotFacts DEF Excluded
  <2>6. ~ Base(stack[k])
    BY <2>5 DEF Base
  <2>7. k - 1 \in 1 .. Len(stack) /\ Calls(stack[k - 1], stack[k])
    BY <2>6, Called
  <2>8. k - 1 \in DOMAIN stack
    BY SMT, <2>7
  <2>9. stack[k - 1].act = "run" /\ stack[k - 1].slot = run
    BY <2>7 DEF Calls
  <2> QED
    BY <2>8, <2>9 DEF Running
<1> QED
  BY <1>5, <1>6

\* Every step keeps what Rest says.
LEMMA NextRest == NoTaskInTick /\ Shape /\ Rest /\ [Next]_vars => Rest'
\* Only bootstrap() and tick() have a position among the slots.
<1>LoopFacts.
    ASSUME stack \in Seq(Frames), NEW k \in DOMAIN stack
    PROVE  /\ stack[k].act \in {"boot", "cycle", "run", "tick"}
           /\ stack[k].act \in {"boot", "tick"} => stack[k].i \in Nat \ {0}
  <2> USE <1>LoopFacts
  <2>1. stack[k] \in Frames
    OBVIOUS
  <2> USE <2>1
  <2>2. stack[k].act = "boot" => stack[k].i \in Nat \ {0}
    BY FrameKinds DEF BootFrames
  <2>3. stack[k].act = "tick" => stack[k].i \in Nat \ {0}
    BY FrameKinds DEF TickFrames
  <2> QED
    BY Zenon, <2>2, <2>3, FrameKinds

\* A slot that is ahead stays ahead when slots are added behind.
<1>AheadGrows.
    ASSUME slots \in Seq(Slots), slots' \in Seq(Slots), Len(slots) <= Len(slots'),
           \A j \in 1 .. Len(slots) : slots'[j] = slots[j],
           NEW f, f.i \in Nat \ {0}, NEW u, u \in Ahead(f)
    PROVE  u \in Ahead(f)'
  <2> USE Zenon, <1>AheadGrows
  <2>1. CASE f.act = "boot"
    <3>1. PICK j \in f.i .. Len(slots) : u = slots[j]
      BY <2>1 DEF Ahead
    <3>2. j \in f.i .. Len(slots') /\ u = slots'[j]
      BY SMT, <3>1
    <3> QED
      BY <2>1, <3>2 DEF Ahead
  <2>2. CASE f.act = "tick" /\ f.at = "resume"
    <3>1. PICK j \in (f.i .. Len(slots)) \ f.resumed : u = slots[j]
      BY <2>2 DEF Ahead
    <3>2. j \in (f.i .. Len(slots')) \ f.resumed /\ u = slots'[j]
      BY SMT, <3>1
    <3> QED
      BY <2>2, <3>2 DEF Ahead
  <2>3. CASE ~ (f.act = "boot") /\ ~ (f.act = "tick" /\ f.at = "resume")
    BY <2>3 DEF Ahead
  <2> QED
    BY <2>1, <2>2, <2>3

\* Only the loops and the slots they look at matter for Covered.
<1>CoveredKept.
    ASSUME Covered, SameLoops, stack \in Seq(Frames), stack' \in Seq(Frames),
           slots \in Seq(Slots), slots' \in Seq(Slots), Len(slots) <= Len(slots'),
           \A j \in 1 .. Len(slots) : slots'[j] = slots[j],
           Left' \subseteq Left
    PROVE  Covered'
  <2> USE <1>CoveredKept
  <2>1. /\ Len(stack) \in Nat /\ DOMAIN stack = 1 .. Len(stack)
        /\ Len(stack') \in Nat /\ DOMAIN stack' = 1 .. Len(stack')
    OBVIOUS
  <2>2. ASSUME NEW k \in DOMAIN stack', Innermost(k)', NEW u, u \in Left'
        PROVE  u \in Ahead(stack[k])'
    <3>1. stack'[k].act \in {"boot", "tick"} /\ \A m \in k + 1 .. Len(stack') : stack'[m].act # "tick"
      BY Zenon, <2>2 DEF Innermost
    <3>2. k \in DOMAIN stack /\ stack'[k] = stack[k]
      BY Zenon, <3>1 DEF SameLoops
    <3>3. \A m \in k + 1 .. Len(stack) : m \in DOMAIN stack
      OBVIOUS
    <3>4. \A m \in k + 1 .. Len(stack) : m \in DOMAIN stack' => m \in k + 1 .. Len(stack')
      OBVIOUS
    <3>5. \A m \in k + 1 .. Len(stack) : stack[m].act # "tick"
      BY Zenon, <3>1, <3>3, <3>4 DEF SameLoops
    <3>6. Innermost(k)
      BY Zenon, <3>1, <3>2, <3>5 DEF Innermost
    <3>7. u \in Ahead(stack[k])
      BY Zenon, <2>2, <3>2, <3>6 DEF Covered
    <3>8. stack[k].i \in Nat \ {0}
      BY Zenon, <3>1, <3>2, <1>LoopFacts
    <3>9. PICK f : f = stack[k]
      BY Zenon
    <3>10. u \in Ahead(f)'
      BY Zenon, <3>7, <3>8, <3>9, <1>AheadGrows
    <3> QED
      BY Zenon, <3>2, <3>9, <3>10
  <2>3. ASSUME \A k \in DOMAIN stack' : stack'[k].act \in {"cycle", "run"}
        PROVE  Left' = {}
    <3>1. \A k \in DOMAIN stack : stack[k].act \in {"cycle", "run"}
      BY Zenon, <2>3, <1>LoopFacts DEF SameLoops
    <3> QED
      BY Zenon, <3>1 DEF Covered
  <2> QED
    BY Zenon, <2>2, <2>3 DEF Covered

\* The flags keep their size while no slot is added.
<1>SizedKept.
    ASSUME Sized, SameLoops, UNCHANGED slots
    PROVE  Sized'
  <2> USE Zenon, <1>SizedKept
  <2>1. ASSUME NEW k \in DOMAIN stack', stack'[k].act = "tick"
        PROVE  stack'[k].size = Len(slots') /\ stack'[k].resumed \subseteq DOMAIN slots'
    <3>1. k \in DOMAIN stack /\ stack'[k] = stack[k]
      BY <2>1 DEF SameLoops
    <3> QED
      BY <2>1, <3>1 DEF Sized
  <2> QED
    BY <2>1 DEF Sized

\* A slot that is left now was left before, or has just become Ready or stopped.
<1>LeftShrinks.
    ASSUME slots' \in Seq(Slots), Range(slots') \subseteq Range(slots),
           \A u \in Slots : kind'[u] = "Ready" /\ u \notin finished' =>
                /\ kind[u] = "Ready" /\ u \notin finished
                /\ Running(u) => Running(u)'
    PROVE  Left' \subseteq Left
  <2> USE <1>LeftShrinks
  <2> SUFFICES ASSUME NEW u \in Left' PROVE u \in Left
    BY Zenon
  <2>1. u \in Range(slots') /\ kind'[u] = "Ready" /\ u \notin finished' /\ ~ Running(u)'
    BY Zenon DEF Left
  <2>2. u \in Slots
    BY <2>1 DEF Range
  <2> QED
    BY Zenon, <2>2 DEF Left

\* A step that leaves the loops and the slots alone.
<1>Quiet.
    ASSUME Shape, Shape', Sized, Covered, SameLoops, StillRunning, UNCHANGED <<slots, kind, finished>>
    PROVE  Sized' /\ Covered'
  <2> USE <1>Quiet
  <2>1. /\ stack \in Seq(Frames) /\ stack' \in Seq(Frames)
        /\ slots \in Seq(Slots) /\ slots' \in Seq(Slots)
    BY Zenon DEF Shape, TypeOK
  <2>2. UNCHANGED slots /\ UNCHANGED kind /\ UNCHANGED finished
    OBVIOUS
  <2> USE <2>1, <2>2
  <2>3. Left' \subseteq Left
    BY Zenon, <1>LeftShrinks DEF StillRunning
  <2>4. Len(slots) <= Len(slots') /\ \A j \in 1 .. Len(slots) : slots'[j] = slots[j]
    OBVIOUS
  <2> QED
    BY Zenon, <2>3, <2>4, <1>SizedKept, <1>CoveredKept

\* Registered actors stay registered.
<1>RegisteredKept.
    ASSUME Capsule => Actors \subseteq Range(slots), Range(slots) \subseteq Range(slots')
    PROVE  Registered'
  BY <1>RegisteredKept, Zenon DEF Registered

\* The actors are registered before the first clock cycle and the first tick.
<1>RegisteredBefore.
    ASSUME Shape, Registered, In("cycle") \/ In("tick")
    PROVE  Capsule => Actors \subseteq Range(slots)
  <2> USE <1>RegisteredBefore
  <2> SUFFICES ASSUME Capsule, ~ Actors \subseteq Range(slots) PROVE FALSE
    BY Zenon
  <2>1. stack # <<>> /\ Top.act \in {"cycle", "tick"}
    BY Zenon DEF In
  <2>2. /\ stack[1].act = "boot"
        /\ Len(stack) = 1 \/ (Len(stack) = 2 /\ stack[2].act = "run")
    BY Zenon, <2>1 DEF Registered
  <2> QED
    BY <2>1, <2>2 DEF Top

\* Steps of a cycle: nothing becomes Ready, so nothing is left behind.
<1>EdgeRest. ASSUME Shape, Shape', Rest, Edge PROVE Rest'
  <2> USE <1>EdgeRest
  <2>1. In("cycle") /\ UNCHANGED <<slots, kind, finished>>
    BY Zenon DEF Edge
  <2>2. Sized' /\ Covered'
    BY Zenon, <2>1, EdgeQuiet, <1>Quiet DEF Rest
  <2>3. Registered'
    BY Zenon, <2>1, <1>RegisteredBefore, <1>RegisteredKept DEF Rest
  <2> QED
    BY <2>2, <2>3 DEF Rest

\* The return from a qualified wait.
<1>QualifiedOverRest. ASSUME Shape, Shape', Rest, QualifiedOver PROVE Rest'
  <2> USE <1>QualifiedOverRest
  <2>1. In("cycle") /\ UNCHANGED <<slots, kind, finished>>
    BY Zenon DEF QualifiedOver, slotVars
  <2>2. Sized' /\ Covered'
    BY Zenon, <2>1, QualifiedOverQuiet, <1>Quiet DEF Rest
  <2>3. Registered'
    BY Zenon, <2>1, <1>RegisteredBefore, <1>RegisteredKept DEF Rest
  <2> QED
    BY <2>2, <2>3 DEF Rest

\* A task is added while no tick goes on: its slot is not Ready and the flags of no tick are too few.
<1>StartTaskRest.
    ASSUME NoTaskInTick, Shape, Shape', Rest, NEW site \in {"post_eval", "checker"},
           In("cycle"), Top.at \in {"services", "checkers"}, StartTask(site)
    PROVE  Rest'
  <2> USE Zenon, <1>StartTaskRest
  <2>1. Shape' /\ stack \in Seq(Frames) /\ slots \in Seq(Slots) /\ Shaped
    BY DEF Shape, TypeOK
  <2> USE <2>1
  <2>2. /\ stack # <<>> /\ Top = stack[Len(stack)] /\ Len(stack) \in 1 .. Len(stack)
        /\ Top.act = "cycle"
    BY SMT, InFacts
  <2>3. site \in Sites /\ UNCHANGED <<kind, finished>>
    BY DEF StartTask
  <2>4. PICK s \in Tasks : slots' = Append(slots, s) /\ Push(Run(s))
    BY DEF StartTask
  <2>5. s \in Slots /\ Run(s) \in Frames /\ Run(s).act = "run" /\ Run(s).slot = s
    BY SlotFacts, RunFacts DEF Frames
  <2>6. SameLoops /\ StillRunning
    BY <2>4, <2>5, PushQuiet
  <2>7. /\ slots' \in Seq(Slots) /\ Len(slots) <= Len(slots')
        /\ \A j \in 1 .. Len(slots) : slots'[j] = slots[j]
        /\ Range(slots) \subseteq Range(slots') /\ Range(slots') \subseteq Range(slots) \cup {s}
    <3>1. slots \in Seq(Slots) /\ s \in Slots /\ slots' = Append(slots, s)
      BY <2>4, <2>5
    <3>2. /\ slots' \in Seq(Slots) /\ Len(slots) <= Len(slots')
          /\ \A j \in 1 .. Len(slots) : slots'[j] = slots[j]
      BY SMT, <3>1
    <3>3. /\ \A j \in DOMAIN slots : j \in DOMAIN slots' /\ slots'[j] = slots[j]
          /\ \A j \in DOMAIN slots' : j \in DOMAIN slots \/ slots'[j] = s
      BY SMT, <3>1
    <3>4. Range(slots) \subseteq Range(slots')
      BY <3>3 DEF Range
    <3>5. Range(slots') \subseteq Range(slots) \cup {s}
      BY <3>3 DEF Range
    <3> QED
      BY <3>2, <3>4, <3>5
  <2>8. stack' \in Seq(Frames) /\ Len(stack) + 1 \in DOMAIN stack' /\ stack'[Len(stack) + 1] = Run(s)
    BY SMT, <2>4, <2>5, PushFacts
  <2>9. Running(s)'
    BY <2>5, <2>8 DEF Running
  <2> USE <2>7
  <2>10. Left' \subseteq Left
    <3> SUFFICES ASSUME NEW u \in Left' PROVE u \in Left
      OBVIOUS
    <3>1. u \in Range(slots') /\ kind'[u] = "Ready" /\ u \notin finished' /\ ~ Running(u)'
      BY DEF Left
    <3>2. u # s /\ u \in Slots
      BY SMT, <2>9, <3>1 DEF Range
    <3> QED
      BY <2>3, <2>6, <3>2 DEF Left, StillRunning
  <2>11. Covered'
    BY <2>6, <2>8, <2>10, <1>CoveredKept DEF Rest
  <2>12. Len(stack) = 1
    <3>1. Base(Top)
      <4>1. CASE ~ Base(Top)
        <5>1. Calls(stack[Len(stack) - 1], Top)
          BY <2>2, <4>1, Called
        <5> QED
          BY <2>2, <2>3, <5>1 DEF Calls, NoTaskInTick
      <4> QED
        BY SMT, <4>1
    <3> QED
      BY <2>2, <3>1, BaseFirst
  <2>13. Sized'
    <3>1. ASSUME NEW k \in DOMAIN stack', stack'[k].act = "tick" PROVE FALSE
      <4>1. k \in DOMAIN stack /\ stack[k].act = "tick"
        BY <2>6, <3>1 DEF SameLoops
      <4>2. k = Len(stack)
        BY SMT, <2>12, <4>1
      <4> QED
        BY <2>2, <4>1, <4>2
    <3> QED
      BY <3>1 DEF Sized
  <2>14. Registered'
    BY <1>RegisteredBefore, <1>RegisteredKept DEF Rest
  <2> QED
    BY SMT, <2>11, <2>13, <2>14 DEF Rest

\* The services.
<1>ServicesRest. ASSUME NoTaskInTick, Shape, Shape', Rest, Services PROVE Rest'
  <2> USE Zenon, <1>ServicesRest
  <2>1. In("cycle") /\ Top.at = "services"
    BY DEF Services
  <2> USE <2>1
  <2>2. CASE StartTask("post_eval")
    BY <2>2, <1>StartTaskRest
  <2>3. CASE /\ Swap([Top EXCEPT !.at = AfterServices(Top.how)])
             /\ UNCHANGED <<slotVars, holds, fatal>>
    <3>1. UNCHANGED <<slots, kind, finished>>
      BY <2>3 DEF slotVars
    <3>2. SameLoops /\ StillRunning
      BY <2>3, ServicesQuiet
    <3>3. Sized' /\ Covered'
      BY <3>1, <3>2, <1>Quiet DEF Rest
    <3>4. Registered'
      BY <3>1, <1>RegisteredBefore, <1>RegisteredKept DEF Rest
    <3> QED
      BY <3>3, <3>4 DEF Rest
  <2> QED
    BY <2>2, <2>3 DEF Services

\* The checkers.
<1>CheckersRest. ASSUME NoTaskInTick, Shape, Shape', Rest, Checkers PROVE Rest'
  <2> USE Zenon, <1>CheckersRest
  <2>1. In("cycle") /\ Top.at = "checkers"
    BY DEF Checkers
  <2> USE <2>1
  <2>2. CASE StartTask("checker")
    BY <2>2, <1>StartTaskRest
  <2>3. ASSUME UNCHANGED <<slotVars, holds, fatal>>,
               IF Top.how = "loop" THEN Swap(Cycle("loop", "edge"))
               ELSE stack' = [Callers EXCEPT ![Len(stack) - 1].abort = Top.owed]
        PROVE  Rest'
    <3>1. UNCHANGED <<slots, kind, finished>>
      BY <2>3 DEF slotVars
    <3>2. SameLoops /\ StillRunning
      BY <2>3, CheckersQuiet
    <3>3. Sized' /\ Covered'
      BY <3>1, <3>2, <1>Quiet DEF Rest
    <3>4. Registered'
      BY <3>1, <1>RegisteredBefore, <1>RegisteredKept DEF Rest
    <3> QED
      BY <3>3, <3>4 DEF Rest
  <2> QED
    BY <2>2, <2>3 DEF Checkers

\* The run coroutine lets time pass.
<1>RunCyclesRest.
    ASSUME NEW how \in {"qualified", "sync"}, Shape, Shape', Rest, RunCycles(how)
    PROVE  Rest'
  <2> USE Zenon, <1>RunCyclesRest
  <2>1. UNCHANGED <<slots, kind, finished>> /\ (Capsule => Actors \subseteq Range(slots))
    BY DEF RunCycles, Segment, slotVars
  <2>2. Sized' /\ Covered'
    BY <2>1, RunCyclesQuiet, <1>Quiet DEF Rest
  <2>3. Registered'
    BY <2>1, <1>RegisteredKept
  <2> QED
    BY <2>2, <2>3 DEF Rest

\* Steps that touch neither slots nor stack.
<1>SameRest.
    ASSUME Shape, Shape', Rest, UNCHANGED <<slots, kind, finished, stack>>
    PROVE  Rest'
  <2> USE <1>SameRest
  <2>1. SameLoops
    BY Zenon DEF SameLoops
  <2>2. StillRunning
    BY DEF StillRunning, Running
  <2>3. Sized' /\ Covered'
    BY Zenon, <2>1, <2>2, <1>Quiet DEF Rest
  <2>4. Registered'
    BY DEF Rest, Registered
  <2> QED
    BY Zenon, <2>3, <2>4 DEF Rest

\* The running coroutine stops, and is no longer live and Ready.
<1>LeaveRest.
    ASSUME Shape, Shape', Rest, NEW s \in Slots, Segment(s), Pop, UNCHANGED slots,
           \A u \in Slots : kind'[u] = "Ready" /\ u \notin finished' =>
               u # s /\ kind[u] = "Ready" /\ u \notin finished
    PROVE  Rest'
  <2> USE Zenon, <1>LeaveRest
  <2>1. /\ In("run") /\ Top.slot = s /\ (Capsule => Actors \subseteq Range(slots))
    BY DEF Segment
  <2>2. stack \in Seq(Frames) /\ stack' \in Seq(Frames) /\ slots \in Seq(Slots) /\ slots' \in Seq(Slots)
    BY DEF Shape, TypeOK
  <2> USE <2>1
  <2>3. stack # <<>> /\ Top.act = "run"
    BY DEF In
  <2>4. SameLoops /\ \A u \in Slots : u # s => (Running(u) <=> Running(u)')
    BY <2>2, <2>3, PopQuiet
  <2>5. Left' \subseteq Left
    BY <2>2, <2>4, <1>LeftShrinks
  <2>6. Len(slots) <= Len(slots') /\ \A j \in 1 .. Len(slots) : slots'[j] = slots[j]
    BY SMT
  <2>7. Sized' /\ Covered'
    BY <2>2, <2>4, <2>5, <2>6, <1>SizedKept, <1>CoveredKept DEF Rest
  <2>8. Registered'
    BY <1>RegisteredKept
  <2> QED
    BY <2>7, <2>8 DEF Rest

\* A coroutine that suspends is not Ready any more,
<1>SuspendRest. ASSUME NEW s \in Slots, Shape, Shape', Rest, Suspend(s) PROVE Rest'
  <2> USE Zenon, <1>SuspendRest
  <2>1. Shape' /\ kind \in [Slots -> Kinds]
    BY DEF Shape, TypeOK
  <2>2. Segment(s) /\ Pop /\ UNCHANGED slots /\ UNCHANGED finished
    BY DEF Suspend
  <2>3. PICK k \in Kinds \ {"Ready", "Done"} : kind' = [kind EXCEPT ![s] = k]
    BY DEF Suspend
  <2>4. \A u \in Slots : kind'[u] = "Ready" /\ u \notin finished' =>
                 u # s /\ kind[u] = "Ready" /\ u \notin finished
    BY SMT, <2>1, <2>2, <2>3
  <2> QED
    BY <2>1, <2>2, <2>4, <1>LeaveRest

\* and one that ends is finished.
<1>FinishRest. ASSUME NEW s \in Slots, Shape, Shape', Rest, Finish(s) PROVE Rest'
  <2> USE <1>FinishRest
  <2>1. Shape' /\ kind \in [Slots -> Kinds]
    BY Zenon DEF Shape, TypeOK
  <2>2. Segment(s) /\ Pop /\ UNCHANGED slots /\ finished' = finished \cup {s}
    BY Zenon DEF Finish
  <2>3. \E k : kind' = [kind EXCEPT ![s] = k]
    BY Zenon DEF Finish
  <2>4. \A u \in Slots : kind'[u] = "Ready" /\ u \notin finished' =>
                 u # s /\ kind[u] = "Ready" /\ u \notin finished
    BY <2>1, <2>2, <2>3
  <2> QED
    BY Zenon, <2>1, <2>2, <2>4, <1>LeaveRest

\* After the drive loop nothing is on the stack.
<1>TeardownRest. ASSUME Shape, Rest, Teardown PROVE Rest'
  <2> USE <1>TeardownRest
  <2>1. stack' = <<>> /\ slots' = <<>>
    BY Zenon DEF Teardown
  <2>2. DOMAIN stack' = {} /\ Range(slots') = {}
    BY <2>1 DEF Range
  <2>3. Left' = {}
    BY Zenon, <2>2 DEF Left
  <2> QED
    BY Zenon, <2>1, <2>2, <2>3 DEF Rest, Registered, Sized, Covered

\* bootstrap() passes over no slot that is Ready.
<1>BootResumeRest. ASSUME Shape, Rest, BootResume PROVE Rest'
  <2> USE Zenon, <1>BootResumeRest
  <2>1. /\ In("boot") /\ Top.i <= Len(slots) /\ UNCHANGED <<slots, finished>>
    BY DEF BootResume, BootSize
  <2>2. /\ Len(stack) = 1 /\ DOMAIN stack = {1} /\ Top = stack[1] /\ Top.act = "boot"
        /\ \A u \in Slots : ~ Running(u)
        /\ \A u \in Left : \E j \in Top.i .. Len(slots) : u = slots[j]
    BY <2>1, BootAhead
  <2>3. stack \in Seq(Frames) /\ stack # <<>> /\ slots \in Seq(Slots) /\ kind \in [Slots -> Kinds]
    BY <2>1 DEF Shape, TypeOK, In
  <2> USE <2>3
  <2>4. Top.i \in Nat \ {0} /\ Top.i + 1 \in Nat \ {0}
    BY SMT, <2>1, InFacts
  <2>5. PICK s \in Slots : s = slots[Top.i]
    BY SMT, <2>1, <2>4
  <2> DEFINE b == Boot(Top.i + 1)
  <2>6. b \in Frames /\ b.act = "boot" /\ b.i = Top.i + 1
    BY <2>4, BootFacts DEF Frames
  <2>7. Run(s) \in Frames /\ Run(s).act = "run" /\ Run(s).slot = s
    BY RunFacts DEF Frames
  <2>8. \/ kind[s] = "Ready" /\ s \notin finished /\ SwapPush(b, Run(s)) /\ UNCHANGED kind
        \/ s \in finished /\ Swap(b) /\ kind' = [kind EXCEPT ![s] = "Done"]
        \/ kind[s] # "Ready" /\ Swap(b) /\ UNCHANGED kind
    BY <2>5 DEF BootResume
  <2> HIDE DEF b
  <2> USE <2>6
  <2>9. /\ stack' \in Seq(Frames) /\ stack'[1] = b
        /\ \/ DOMAIN stack' = {1} /\ ~ (kind[s] = "Ready" /\ s \notin finished)
           \/ DOMAIN stack' = {1, 2} /\ Len(stack') = 2 /\ stack'[2] = Run(s)
    <3>1. CASE Swap(b) /\ ~ (kind[s] = "Ready" /\ s \notin finished)
      <4>1. stack' \in Seq(Frames) /\ Len(stack') = 1 /\ stack'[1] = b
        BY <2>2, <3>1, SwapFacts
      <4> QED
        BY SMT, <3>1, <4>1
    <3>2. CASE SwapPush(b, Run(s))
      <4>1. stack' \in Seq(Frames) /\ Len(stack') = 1 + 1 /\ stack'[1] = b /\ stack'[1 + 1] = Run(s)
        BY <2>2, <2>7, <3>2, SwapPushFacts
      <4> QED
        BY SMT, <4>1
    <3> QED
      BY <2>8, <3>1, <3>2
  <2> USE <2>9
  <2>10. \A u \in Left' : u \in Left /\ u # s
    <3> SUFFICES ASSUME NEW u \in Left' PROVE u \in Left /\ u # s
      OBVIOUS
    <3>1. u \in Range(slots) /\ kind'[u] = "Ready" /\ u \notin finished /\ ~ Running(u)'
      BY <2>1 DEF Left
    <3>2. u \in Slots
      BY SMT, <3>1 DEF Range
    <3>3. u # s
      <4>1. CASE DOMAIN stack' = {1, 2} /\ stack'[2] = Run(s)
        <5>1. Running(s)'
          BY <2>7, <4>1 DEF Running
        <5> QED
          BY <3>1, <5>1
      <4>2. CASE ~ (kind[s] = "Ready" /\ s \notin finished)
        BY <2>8, <3>1, <4>2
      <4> QED
        BY <4>1, <4>2
    <3>4. kind[u] = "Ready"
      BY SMT, <2>8, <3>1, <3>2
    <3> QED
      BY <2>2, <3>1, <3>2, <3>3, <3>4 DEF Left
  <2>11. Left' \subseteq Ahead(stack[1])'
    <3> SUFFICES ASSUME NEW u \in Left' PROVE \E j \in Top.i + 1 .. Len(slots') : u = slots'[j]
      BY DEF Ahead
    <3>1. PICK j \in Top.i .. Len(slots) : u = slots[j]
      BY <2>2, <2>10
    <3>2. j # Top.i
      BY <2>5, <2>10, <3>1
    <3>3. j \in Top.i + 1 .. Len(slots)
      BY SMT, <2>4, <3>2
    <3> QED
      BY <2>1, <3>1, <3>3
  <2>12. Covered'
    BY <2>7, <2>11 DEF Covered, Innermost
  <2>13. Sized'
    BY <2>7 DEF Sized
  <2>14. Registered'
    <3> SUFFICES ASSUME Capsule, ~ Actors \subseteq Range(slots)
                 PROVE  /\ slots = <<run>> /\ stack'[1].act = "boot" /\ stack'[1].i = Len(stack')
                        /\ Len(stack') = 2 /\ stack'[2].act = "run" /\ stack'[2].slot = run
      BY <2>1 DEF Registered
    <3>1. slots = <<run>> /\ Top.i = 1 /\ kind[run] = "Ready" /\ run \notin finished
      <4>1. Len(stack) # 2
        BY SMT, <2>2
      <4> QED
        BY <2>2 DEF Rest, Registered
    <3>2. s = run /\ Top.i + 1 = 2
      BY SMT, <2>5, <3>1
    <3> QED
      BY <2>7, <3>1, <3>2
  <2> QED
    BY <2>12, <2>13, <2>14 DEF Rest

\* When it ends none is ahead, so none is Ready.
<1>BootEndRest. ASSUME Shape, Rest, BootEnd PROVE Rest'
  <2> USE Zenon, <1>BootEndRest
  <2>1. /\ In("boot") /\ Top.i > Len(slots) /\ UNCHANGED <<kind, finished>>
        /\ Swap(Cycle("loop", "edge"))
    BY DEF BootEnd, BootSize
  <2> USE <2>1
  <2>2. /\ Len(stack) = 1 /\ DOMAIN stack = {1} /\ Top = stack[1] /\ Top.act = "boot"
        /\ \A u \in Slots : ~ Running(u)
        /\ \A u \in Left : \E j \in Top.i .. Len(slots) : u = slots[j]
    BY BootAhead
  <2>3. stack \in Seq(Frames) /\ stack # <<>> /\ slots \in Seq(Slots)
    BY DEF Shape, TypeOK, In
  <2> USE <2>3
  <2>4. Top.i \in Nat \ {0} /\ Top.i .. Len(slots) = {}
    <3>1. Top.i \in Nat \ {0}
      BY ONLY <2>1, <2>3, InFacts
    <3> QED
      BY SMT, <3>1
  <2> USE <2>2
  <2>5. Left = {}
    BY <2>4
  <2>6. Range(slots') = Range(slots) /\ slots' \in Seq(Slots)
    <3>1. CASE UNCHANGED slots
      BY <3>1
    <3>2. ASSUME NEW i \in DOMAIN slots, slots[i] = run,
                 slots' = SubSeq(slots, 1, i - 1) \o SubSeq(slots, i + 1, Len(slots)) \o <<run>>
          PROVE  Range(slots') = Range(slots) /\ slots' \in Seq(Slots)
      <4>1. i \in 1 .. Len(slots)
        BY SMT
      <4> DEFINE t == SubSeq(slots, 1, i - 1) \o SubSeq(slots, i + 1, Len(slots)) \o <<slots[i]>>
      <4>2. t \in Seq(Slots) /\ Range(t) = Range(slots)
        BY ONLY <2>3, <4>1, MoveLast, Zenon
      <4>3. slots' = t
        BY <3>2
      <4> HIDE DEF t
      <4> QED
        BY <4>2, <4>3
    <3> QED
      BY <3>2 DEF BootEnd
  <2>7. /\ Cycle("loop", "edge") \in Frames /\ Cycle("loop", "edge").act = "cycle"
    BY SMT, CycleFacts DEF Frames
  <2>8. DOMAIN stack' = {1} /\ stack'[1].act = "cycle"
    <3>1. stack' \in Seq(Frames) /\ Len(stack') = 1 /\ stack'[1] = Cycle("loop", "edge")
      BY <2>7, SwapFacts
    <3>2. DOMAIN stack' = {1}
      BY SMT, <3>1
    <3> QED
      BY <2>7, <3>1, <3>2
  <2>9. Left' \subseteq Left
    BY <2>6, <1>LeftShrinks
  <2>10. Covered' /\ Sized'
    BY <2>5, <2>8, <2>9 DEF Covered, Innermost, Sized
  <2>11. Capsule => Actors \subseteq Range(slots)
    <3> SUFFICES ASSUME Capsule, ~ Actors \subseteq Range(slots) PROVE FALSE
      OBVIOUS
    <3>1. slots = <<run>> /\ Top.i = Len(stack)
      BY DEF Rest, Registered
    <3> QED
      BY SMT, <3>1
  <2> QED
    BY <2>6, <2>10, <2>11, <1>RegisteredKept DEF Rest

\* A tick that is innermost is the only loop Covered speaks of.
<1>TickCovered.
    ASSUME stack' \in Seq(Frames), NEW n \in DOMAIN stack', stack'[n].act = "tick",
           \A k \in n + 1 .. Len(stack') : stack'[k].act = "run",
           Left' \subseteq Ahead(stack[n])'
    PROVE  Covered'
  <2> USE <1>TickCovered
  <2>1. \A k \in DOMAIN stack' : k = n \/ n \in k + 1 .. Len(stack') \/ k \in n + 1 .. Len(stack')
    OBVIOUS
  <2> QED
    BY Zenon, <2>1 DEF Covered, Innermost

\* Pass 1 makes coroutines Ready that are all ahead of pass 2.
<1>TickStartRest. ASSUME Shape, Shape', Rest, TickStart PROVE Rest'
  <2> USE Zenon, <1>TickStartRest
  <2>1. /\ In("cycle") /\ Top.at = "tick" /\ UNCHANGED <<slots, finished>>
    BY DEF TickStart
  <2>2. Shape' /\ stack \in Seq(Frames) /\ slots \in Seq(Slots)
    BY DEF Shape, TypeOK
  <2> USE <2>2
  <2>3. stack # <<>> /\ Top \in CycleFrames /\ Top = stack[Len(stack)] /\ Len(stack) \in Nat \ {0}
    BY SMT, <2>1, InFacts
  <2>4. PICK next \in {"edge", "checkers"} :
             SwapPush([Top EXCEPT !.at = next], Tick(Excluded(Top.how)))
    BY DEF TickStart
  <2>5. PICK c \in Frames : c.act = "cycle" /\ c = [Top EXCEPT !.at = next]
    <3>1. next \in {"edge", "services", "tick", "checkers"} /\ next # "tick"
      BY SMT
    <3> QED
      BY <2>3, <3>1, AtFacts DEF Frames
  <2>6. PICK t \in Frames : /\ t = Tick(Excluded(Top.how)) /\ t.act = "tick" /\ t.at = "resume"
                            /\ t.size = Len(slots) /\ t.resumed = {} /\ t.i = 1
    BY ExcludedFacts, TickFacts DEF Frames
  <2>7. SwapPush(c, t)
    BY <2>4, <2>5, <2>6
  <2>8. PICK n \in Nat : n = Len(stack) + 1
    BY SMT
  <2>9. /\ stack' \in Seq(Frames) /\ Len(stack') = n /\ n \in DOMAIN stack' /\ stack'[n] = t
        /\ \A k \in DOMAIN stack' : k = n \/ stack'[k] = c \/ (k \in DOMAIN stack /\ stack'[k] = stack[k])
        /\ n + 1 .. Len(stack') = {}
    <3>1. /\ stack' \in Seq(Frames) /\ Len(stack') = Len(stack) + 1
          /\ \A i \in 1 .. Len(stack) - 1 : stack'[i] = stack[i]
          /\ stack'[Len(stack)] = c /\ stack'[Len(stack) + 1] = t
      BY <2>3, <2>7, SwapPushFacts
    <3>2. /\ Len(stack') = n /\ n \in DOMAIN stack' /\ n + 1 .. Len(stack') = {}
          /\ DOMAIN stack = 1 .. Len(stack)
          /\ \A k \in DOMAIN stack' : k = n \/ k = Len(stack) \/ k \in 1 .. Len(stack) - 1
          /\ \A k \in 1 .. Len(stack) - 1 : k \in 1 .. Len(stack)
      BY ONLY <2>8, <3>1
    <3> QED
      BY <3>1, <3>2
  <2>10. ASSUME NEW u \in Left' PROVE u \in Ahead(t)'
    <3>1. u \in Range(slots')
      BY DEF Left
    <3>2. PICK j \in DOMAIN slots' : u = slots'[j]
      BY <3>1 DEF Range
    <3>3. j \in (1 .. Len(slots')) \ {}
      BY SMT
    <3> QED
      BY <2>6, <3>2, <3>3 DEF Ahead
  <2>11. Covered'
    <3>1. Left' \subseteq Ahead(stack[n])'
      BY <2>9, <2>10
    <3> QED
      BY <2>6, <2>9, <3>1, <1>TickCovered
  <2>12. Sized'
    BY <2>1, <2>5, <2>6, <2>9 DEF Rest, Sized
  <2>13. Registered'
    BY <2>1, <1>RegisteredBefore, <1>RegisteredKept DEF Rest
  <2> QED
    BY <2>11, <2>12, <2>13 DEF Rest

\* A tick resumes the first slot that is due, or finds none.
<1>ResumeNextRest. ASSUME Shape, Rest, ResumeNext PROVE Rest'
  <2> USE Zenon, <1>ResumeNextRest
  <2>1. In("tick") /\ Top.at = "resume" /\ UNCHANGED <<slots, finished>>
    BY DEF ResumeNext
  <2>2. /\ stack \in Seq(Frames) /\ slots \in Seq(Slots) /\ kind \in [Slots -> Kinds]
        /\ slots' \in Seq(Slots)
    BY <2>1 DEF Shape, TypeOK
  <2>3. /\ stack # <<>> /\ Top \in TickFrames /\ Top.act = "tick" /\ Top = stack[Len(stack)]
        /\ Len(stack) \in Nat \ {0} /\ Top.i \in Nat \ {0}
    BY SMT, <2>1, <2>2, InFacts
  <2>4. /\ Left \subseteq Ahead(Top) /\ Top.size = Len(slots) /\ Top.resumed \subseteq DOMAIN slots
        /\ Top.excluded = run => Running(run)
    BY <2>1, TickAhead
  <2>5. PICK r \in ReadResumed(Top) :
            \/ /\ Due(Top, r) = {}
               /\ Swap([Top EXCEPT !.at = "recheck"])
               /\ UNCHANGED kind
            \/ \E i \in Due(Top, r) :
                  LET s == slots[i]
                      f == [Top EXCEPT !.i = i + 1, !.changed = TRUE,
                                       !.resumed = Marked(Top, i)]
                  IN  /\ \A j \in Due(Top, r) : i <= j
                      /\ IF s \in finished
                         THEN Swap(f) /\ kind' = [kind EXCEPT ![s] = "Done"]
                         ELSE SwapPush(f, Run(s)) /\ UNCHANGED kind
    BY DEF ResumeNext
  <2>6. r = Top.resumed
    <3>1. r \subseteq DOMAIN slots /\ r \cap 1 .. Top.size = Top.resumed
      BY DEF ReadResumed
    <3>2. DOMAIN slots = 1 .. Top.size
      BY SMT, <2>4
    <3> QED
      BY <3>1, <3>2
  <2>7. ASSUME NEW u \in Left PROVE \E j \in Due(Top, r) : u = slots[j]
    <3>1. u \in Range(slots) /\ kind[u] = "Ready" /\ ~ Running(u)
      BY DEF Left
    <3>2. PICK j \in (Top.i .. Len(slots)) \ Top.resumed : u = slots[j]
      BY <2>3, <2>4 DEF Ahead
    <3>3. u \in Slots
      BY SMT, <2>2, <3>1 DEF Range
    <3>4. Top.excluded \in {NoSlot, run}
      BY <2>3 DEF TickFrames
    <3>5. u # Top.excluded
      BY <2>4, <3>1, <3>3, <3>4, SlotFacts
    <3> QED
      BY <2>6, <3>1, <3>2, <3>5 DEF Due
  <2>8. PICK n \in Nat : n = Len(stack)
    BY SMT, <2>3
  <2>9. CASE Due(Top, r) = {} /\ Swap([Top EXCEPT !.at = "recheck"]) /\ UNCHANGED kind
    <3> DEFINE h == [Top EXCEPT !.at = "recheck"]
    <3>0. h \in TickFrames /\ h.act = "tick" /\ h.size = Top.size /\ h.resumed = Top.resumed
      BY ONLY Zenon, <2>3, RecheckFacts
    <3> HIDE DEF h
    <3>1. PICK g \in Frames : g = h /\ g.act = "tick" /\ g.size = Top.size /\ g.resumed = Top.resumed
      BY ONLY Zenon, <3>0 DEF Frames
    <3> USE <3>1
    <3>2. Swap(g)
      BY <2>9 DEF h
    <3>3. /\ stack' \in Seq(Frames) /\ Len(stack') = Len(stack)
          /\ \A i \in 1 .. Len(stack) - 1 : stack'[i] = stack[i]
          /\ stack'[Len(stack)] = g
      BY <2>2, <2>3, <3>2, SwapFacts
    <3>4. /\ n \in DOMAIN stack' /\ n + 1 .. Len(stack') = {}
          /\ \A k \in DOMAIN stack' : k = n \/ (k \in DOMAIN stack /\ k \in 1 .. Len(stack) - 1)
      BY ONLY <2>3, <2>8, <3>3
    <3> USE <3>3
    <3>5. \A k \in DOMAIN stack : stack[k].act = "run" => k \in DOMAIN stack' /\ stack'[k] = stack[k]
      <4>1. \A k \in DOMAIN stack : k = n \/ (k \in DOMAIN stack' /\ k \in 1 .. Len(stack) - 1)
        BY ONLY <2>8, <3>3
      <4> QED
        BY <2>3, <2>8, <4>1
    <3>6. \A u \in Slots : Running(u) => Running(u)'
      BY <3>5 DEF Running
    <3>7. Left' \subseteq Left
      BY <2>1, <2>2, <2>9, <3>6, <1>LeftShrinks
    <3>8. Left' = {}
      BY <2>7, <2>9, <3>7
    <3>9. Covered'
      BY <2>8, <3>4, <3>8, <1>TickCovered
    <3>10. Sized'
      <4>1. \A k \in DOMAIN stack' : stack'[k] = g \/ (k \in DOMAIN stack /\ stack'[k] = stack[k])
        BY <2>8, <3>4
      <4>2. g.size = Len(slots') /\ g.resumed \subseteq DOMAIN slots' /\ UNCHANGED slots
        BY <2>1, <2>4
      <4> QED
        BY <4>1, <4>2 DEF Rest, Sized
    <3> QED
      BY <2>1, <3>9, <3>10, <1>RegisteredBefore, <1>RegisteredKept DEF Rest
  <2>10. ASSUME NEW i \in Due(Top, r), \A j \in Due(Top, r) : i <= j, NEW s, s = slots[i],
                NEW f, f = [Top EXCEPT !.i = i + 1, !.changed = TRUE, !.resumed = Marked(Top, i)],
                \/ s \in finished /\ Swap(f) /\ kind' = [kind EXCEPT ![s] = "Done"]
                \/ s \notin finished /\ SwapPush(f, Run(s)) /\ UNCHANGED kind
         PROVE  Rest'
    <3>1. i \in Nat \ {0} /\ i \in 1 .. Len(slots) /\ s \in Slots
      <4>1. i \in Nat \ {0} /\ i \in 1 .. Len(slots) /\ slots[i] \in Slots
        <5>1. slots \in Seq(Slots) /\ Top \in TickFrames /\ i \in Due(Top, r)
          BY <2>2, <2>3
        <5> QED
          BY ONLY Zenon, <5>1, DueFacts
      <4> QED
        BY <2>10, <4>1
    <3> USE <3>1
    <3>2. /\ f \in Frames /\ f.act = "tick" /\ f.at = "resume" /\ f.size = Top.size
          /\ f.resumed = Marked(Top, i) /\ f.i = i + 1
      <4> DEFINE g == [Top EXCEPT !.i = i + 1, !.changed = TRUE, !.resumed = Marked(Top, i)]
      <4>1. /\ g \in TickFrames /\ g.act = "tick" /\ g.at = Top.at /\ g.size = Top.size
            /\ g.resumed = Marked(Top, i) /\ g.i = i + 1
        <5>1. Top \in TickFrames /\ i \in Nat \ {0}
          BY <2>3
        <5> HIDE DEF g
        <5> QED
          BY ONLY Zenon, <5>1, MarkFacts DEF g
      <4>2. f = g
        BY <2>10
      <4> HIDE DEF g
      <4> QED
        BY <2>1, <4>1, <4>2 DEF Frames
    <3>3. Run(s) \in Frames /\ Run(s).act = "run" /\ Run(s).slot = s
      BY RunFacts DEF Frames
    <3> USE <3>2, <3>3
    <3>4. /\ stack' \in Seq(Frames)
          /\ \A k \in 1 .. Len(stack) - 1 : stack'[k] = stack[k]
          /\ stack'[Len(stack)] = f
          /\ \/ s \in finished /\ Len(stack') = Len(stack)
             \/ Len(stack') = Len(stack) + 1 /\ stack'[Len(stack) + 1] = Run(s)
      <4>1. CASE s \in finished /\ Swap(f)
        BY <2>2, <2>3, <4>1, SwapFacts
      <4>2. CASE SwapPush(f, Run(s))
        BY <2>2, <2>3, <4>2, SwapPushFacts
      <4> QED
        BY <2>10, <4>1, <4>2
    <3>5. /\ n \in DOMAIN stack'
          /\ \A k \in DOMAIN stack : k = n \/ (k \in DOMAIN stack' /\ k \in 1 .. Len(stack) - 1)
          /\ \A k \in DOMAIN stack' : \/ k = n \/ (k \in DOMAIN stack /\ k \in 1 .. Len(stack) - 1)
                                      \/ k = Len(stack) + 1 /\ Len(stack') = Len(stack) + 1
          /\ \A k \in n + 1 .. Len(stack') : k = Len(stack) + 1 /\ Len(stack') = Len(stack) + 1
          /\ Len(stack') = Len(stack) + 1 => Len(stack) + 1 \in DOMAIN stack'
          /\ Len(stack') # Len(stack) + 1 \/ Len(stack') # Len(stack)
      BY ONLY <2>2, <2>3, <2>8, <3>4
    <3> USE <3>4
    <3>6. \A u \in Slots : Running(u) => Running(u)'
      <4>1. \A k \in DOMAIN stack : stack[k].act = "run" => k \in DOMAIN stack' /\ stack'[k] = stack[k]
        BY <2>3, <2>8, <3>5
      <4> QED
        BY <4>1 DEF Running
    <3>7. s \in finished \/ Running(s)'
      BY <3>5 DEF Running
    <3>8. ASSUME NEW u \in Left' PROVE u \in Left /\ u # s
      <4>1. u \in Range(slots) /\ kind'[u] = "Ready" /\ u \notin finished /\ ~ Running(u)'
        BY <2>1 DEF Left
      <4>2. u # s
        BY <3>7, <4>1
      <4>3. u \in Slots
        BY ONLY <2>2, <4>1 DEF Range
      <4>4. kind[u] = "Ready"
        BY <2>2, <2>10, <4>1, <4>3
      <4> QED
        BY <3>6, <4>1, <4>2, <4>3, <4>4 DEF Left
    <3>9. ASSUME NEW u \in Left' PROVE u \in Ahead(f)'
      <4>1. PICK j \in Due(Top, r) : u = slots[j]
        BY <2>7, <3>8
      <4>2. i <= j /\ j # i
        BY <2>10, <3>8, <4>1
      <4>3. j \in Top.i .. Len(slots) /\ j \notin r
        BY DEF Due
      <4>4. j \in i + 1 .. Len(slots) /\ j \notin {i} \cap 1 .. Top.size
        BY SMT, <4>2, <4>3
      <4>5. j \in (f.i .. Len(slots')) \ f.resumed /\ u = slots'[j]
        BY <2>1, <2>6, <4>1, <4>3, <4>4 DEF Marked
      <4> QED
        BY <4>5 DEF Ahead
    <3>10. Covered'
      <4>1. Left' \subseteq Ahead(stack[n])'
        BY <2>8, <3>9
      <4>2. stack'[n].act = "tick" /\ \A k \in n + 1 .. Len(stack') : stack'[k].act = "run"
        BY <2>8, <3>5
      <4> QED
        BY <3>5, <4>1, <4>2, <1>TickCovered
    <3>11. Sized'
      <4>1. f.resumed \subseteq DOMAIN slots
        BY SMT, <2>4 DEF Marked
      <4>2. \A k \in DOMAIN stack' : stack'[k].act = "tick" =>
               k = n \/ (k \in DOMAIN stack /\ stack'[k] = stack[k])
        BY <3>5
      <4> QED
        BY <2>1, <2>4, <2>8, <4>1, <4>2 DEF Rest, Sized
    <3> QED
      BY <2>1, <3>10, <3>11, <1>RegisteredBefore, <1>RegisteredKept DEF Rest
  <2> QED
    BY <2>5, <2>9, <2>10

\* Another round looks again at every slot not resumed, and only those woke.
<1>RecheckRest. ASSUME Shape, Shape', Rest, Recheck PROVE Rest'
  <2> USE Zenon, <1>RecheckRest
  <2>1. In("tick") /\ Top.at = "recheck" /\ UNCHANGED <<slots, finished>>
    BY DEF Recheck
  <2>2. Shape' /\ stack \in Seq(Frames) /\ slots \in Seq(Slots) /\ kind \in [Slots -> Kinds] /\ Shaped
    BY DEF Shape, TypeOK
  <2> USE <2>1
  <2>3. /\ stack # <<>> /\ Top \in TickFrames /\ Top.act = "tick" /\ Top = stack[Len(stack)]
        /\ Len(stack) \in Nat \ {0}
    BY SMT, <2>2, InFacts
  <2>4. /\ Left \subseteq Ahead(Top) /\ Top.size = Len(slots) /\ Top.resumed \subseteq DOMAIN slots
    BY TickAhead
  <2>5. Left = {}
    BY <2>3, <2>4 DEF Ahead
  <2>6. PICK r \in ReadResumed(Top) :
            /\ kind' = [s \in Slots |-> IF s \in Woken(Top, r) THEN "Ready" ELSE kind[s]]
            /\ IF AnotherRound(Top, Woken(Top, r))
               THEN Swap([Top EXCEPT !.at = "resume", !.i = 1, !.changed = FALSE])
               ELSE Pop
    BY DEF Recheck
  <2>7. r = Top.resumed
    <3>1. r \subseteq DOMAIN slots /\ r \cap 1 .. Top.size = Top.resumed
      BY DEF ReadResumed
    <3>2. DOMAIN slots = 1 .. Top.size
      BY SMT, <2>4
    <3> QED
      BY <3>1, <3>2
  <2>8. PICK n \in Nat : n = Len(stack)
    BY SMT, <2>3
  <2>9. Registered'
    BY <1>RegisteredBefore, <1>RegisteredKept DEF Rest
  <2>10. ASSUME NEW u \in Left', \A v \in Slots : Running(v) => Running(v)'
         PROVE  u \in Woken(Top, r)
    <3>1. u \in Range(slots) /\ kind'[u] = "Ready" /\ u \notin finished /\ ~ Running(u)'
      BY DEF Left
    <3>2. u \in Slots
      BY SMT, <2>2, <3>1 DEF Range
    <3>3. u \notin Left /\ ~ Running(u)
      BY <2>5, <2>10, <3>1, <3>2
    <3>4. kind[u] # "Ready"
      BY <3>3 DEF Left
    <3> QED
      BY <2>6, <3>1, <3>2, <3>4
  <2>11. CASE AnotherRound(Top, Woken(Top, r))
    <3>1. PICK g \in Frames : /\ g = [Top EXCEPT !.at = "resume", !.i = 1, !.changed = FALSE]
                              /\ g.act = "tick" /\ g.at = "resume" /\ g.size = Top.size
                              /\ g.resumed = Top.resumed /\ g.i = 1
      BY <2>3, RoundFacts DEF Frames
    <3>2. Swap(g)
      BY <2>6, <2>11, <3>1
    <3>3. /\ stack' \in Seq(Frames) /\ Len(stack') = Len(stack)
          /\ \A i \in 1 .. Len(stack) - 1 : stack'[i] = stack[i]
          /\ stack'[Len(stack)] = g
      BY <2>2, <2>3, <3>2, SwapFacts
    <3>4. /\ n \in DOMAIN stack' /\ n + 1 .. Len(stack') = {}
          /\ \A k \in DOMAIN stack' : k = n \/ (k \in DOMAIN stack /\ k \in 1 .. Len(stack) - 1)
          /\ \A k \in DOMAIN stack : k = n \/ (k \in DOMAIN stack' /\ k \in 1 .. Len(stack) - 1)
      BY ONLY <2>3, <2>8, <3>3
    <3>5. \A k \in DOMAIN stack : stack[k].act = "run" => k \in DOMAIN stack' /\ stack'[k] = stack[k]
      BY <2>3, <2>8, <3>3, <3>4
    <3>6. \A v \in Slots : Running(v) => Running(v)'
      BY <3>5 DEF Running
    <3>7. ASSUME NEW u \in Left' PROVE u \in Ahead(g)'
      <4>1. PICK j \in DOMAIN slots : u = slots[j] /\ j \notin r
        BY <2>10, <3>6 DEF Woken
      <4>2. j \in 1 .. Len(slots)
        BY SMT
      <4>3. j \in (g.i .. Len(slots')) \ g.resumed /\ u = slots'[j]
        BY <2>7, <3>1, <4>1, <4>2
      <4> QED
        BY <3>1, <4>3 DEF Ahead
    <3>8. Left' \subseteq Ahead(stack[n])'
      BY <2>8, <3>3, <3>7
    <3>9. Covered'
      BY <2>8, <3>1, <3>3, <3>4, <3>8, <1>TickCovered
    <3>10. Sized'
      <4>1. \A k \in DOMAIN stack' : stack'[k] = g \/ (k \in DOMAIN stack /\ stack'[k] = stack[k])
        BY <2>8, <3>3, <3>4
      <4>2. g.size = Len(slots') /\ g.resumed \subseteq DOMAIN slots' /\ UNCHANGED slots
        BY <2>4, <3>1
      <4> QED
        BY <4>1, <4>2 DEF Rest, Sized
    <3> QED
      BY <2>9, <3>9, <3>10 DEF Rest
  <2>12. CASE ~ AnotherRound(Top, Woken(Top, r))
    <3>1. Pop /\ Woken(Top, r) = {}
      BY <2>6, <2>12 DEF AnotherRound
    <3>2. /\ stack' \in Seq(Frames) /\ Len(stack') = Len(stack) - 1
          /\ \A i \in 1 .. Len(stack) - 1 : stack'[i] = stack[i]
      BY <2>2, <2>3, <3>1, PopFacts
    <3>3. /\ \A k \in DOMAIN stack' : k \in DOMAIN stack /\ k \in 1 .. Len(stack) - 1
          /\ \A k \in DOMAIN stack : k = n \/ (k \in DOMAIN stack' /\ k \in 1 .. Len(stack) - 1)
      BY ONLY <2>8, <3>2
    <3>4. \A k \in DOMAIN stack : stack[k].act = "run" => k \in DOMAIN stack' /\ stack'[k] = stack[k]
      BY <2>3, <2>8, <3>2, <3>3
    <3>5. \A v \in Slots : Running(v) => Running(v)'
      BY <3>4 DEF Running
    <3>6. Left' = {}
      BY <2>10, <3>1, <3>5
    <3>7. Covered'
      BY <3>6 DEF Covered
    <3>8. Sized'
      BY <3>2, <3>3 DEF Rest, Sized
    <3> QED
      BY <2>9, <3>7, <3>8 DEF Rest
  <2> QED
    BY <2>11, <2>12

\* The actors the run coroutine appends are ahead of bootstrap.
<1>RegisterActorsRest. ASSUME Shape, Shape', Rest, RegisterActors PROVE Rest'
  <2> USE <1>RegisterActorsRest
  <2>1. /\ In("run") /\ Top.slot = run /\ Capsule /\ slots = <<run>>
        /\ slots' = slots \o [i \in Actors |-> i] /\ UNCHANGED <<kind, finished, stack>>
    BY Zenon DEF RegisterActors
  <2>2. Shape' /\ stack \in Seq(Frames) /\ slots \in Seq(Slots) /\ slots' \in Seq(Slots)
    BY Zenon DEF Shape, TypeOK
  <2>3. /\ stack # <<>> /\ Top = stack[Len(stack)] /\ Top.act = "run"
    BY <2>1, <2>2, InFacts
  <2>4. /\ NActors \in Nat /\ Actors = 1 .. NActors
        /\ Len(slots') = 1 + NActors /\ slots'[1] = run
        /\ \A i \in Actors : i + 1 \in DOMAIN slots' /\ slots'[i + 1] = i
    <3>1. NActors \in Nat /\ Actors = 1 .. NActors
      BY ConstantsAssumption DEF Actors
    <3>2. [i \in Actors |-> i] \in Seq(Actors) /\ Len([i \in Actors |-> i]) = NActors
      BY <3>1
    <3> QED
      BY <2>1, <3>1
  <2>5. Range(slots) \subseteq Range(slots') /\ Actors \subseteq Range(slots')
    <3>1. Range(slots) = {run} /\ 1 \in DOMAIN slots'
      BY <2>1 DEF Range
    <3> QED
      BY Zenon, <2>4, <3>1 DEF Range
  <2>6. Registered'
    BY Zenon, <2>5 DEF Registered
  <2>7. CASE Actors \subseteq Range(slots)
    <3>1. Actors = {}
      BY <2>1, <2>7, SlotFacts DEF Range
    <3>2. NActors = 0
      BY <2>4, <3>1
    <3>3. UNCHANGED slots
      BY <2>1, <2>4, <3>2
    <3> QED
      BY Zenon, <2>1, <2>2, <3>3, <1>SameRest
  <2>8. CASE ~ Actors \subseteq Range(slots)
    <3>1. /\ stack[1].act = "boot" /\ stack[1].i = Len(stack)
          /\ Len(stack) = 1 \/ (Len(stack) = 2 /\ stack[2].act = "run" /\ stack[2].slot = run)
      BY Zenon, <2>1, <2>3, <2>8 DEF Rest, Registered
    <3>2. Len(stack) = 2 /\ stack[1].i = 2 /\ stack[2].act = "run" /\ stack[2].slot = run
      BY <2>3, <3>1
    <3>3. DOMAIN stack' = {1, 2} /\ stack' = stack
      BY <2>1, <3>2
    <3>4. Running(run)'
      BY Zenon, <3>2, <3>3 DEF Running
    <3>5. PICK f : f = stack'[1]
      BY Zenon
    <3>6. ASSUME NEW u \in Left' PROVE u \in Ahead(f)'
      <4>1. u \in Range(slots') /\ u # run
        BY Zenon, <3>4 DEF Left
      <4>2. PICK j \in DOMAIN slots' : u = slots'[j]
        BY Zenon, <4>1 DEF Range
      <4>3. j # 1
        BY Zenon, <2>4, <4>1, <4>2
      <4>4. j \in 2 .. Len(slots')
        BY <4>3
      <4> QED
        BY Zenon, <3>1, <3>2, <3>3, <3>5, <4>2, <4>4 DEF Ahead
    <3>7. Left' \subseteq Ahead(stack[1])'
      BY Zenon, <3>5, <3>6
    <3>8. Covered' /\ Sized'
      BY Zenon, <3>1, <3>2, <3>3, <3>7 DEF Covered, Innermost, Sized
    <3> QED
      BY Zenon, <2>6, <3>8 DEF Rest
  <2> QED
    BY Zenon, <2>7, <2>8

<1> USE Zenon
<1> SUFFICES ASSUME NoTaskInTick, Shape, Rest, [Next]_vars PROVE Rest'
  OBVIOUS
<1>0. Shape'
  BY NextShape
<1> USE <1>0
<1>1. CASE BootResume \/ BootEnd
  BY <1>1, <1>BootResumeRest, <1>BootEndRest
<1>2. CASE Edge \/ QualifiedOver \/ Services \/ Checkers
  BY <1>2, <1>EdgeRest, <1>QualifiedOverRest, <1>ServicesRest, <1>CheckersRest
<1>3. CASE TickStart \/ ResumeNext \/ Recheck
  BY <1>3, <1>TickStartRest, <1>ResumeNextRest, <1>RecheckRest
<1>4. CASE RegisterActors \/ Teardown
  BY <1>4, <1>RegisterActorsRest, <1>TeardownRest
<1>5. ASSUME NEW s \in Slots, Suspend(s) \/ Finish(s) PROVE Rest'
  BY <1>5, <1>SuspendRest, <1>FinishRest
<1>6. ASSUME NEW how \in {"qualified", "sync"}, RunCycles(how) PROVE Rest'
  BY <1>6, <1>RunCyclesRest
<1>7. CASE RaiseFatal \/ Over \/ UNCHANGED vars
  <2>1. UNCHANGED <<slots, kind, finished, stack>>
    BY <1>7 DEF RaiseFatal, Over, vars, slotVars
  <2> QED
    BY <2>1, <1>SameRest
<1> QED
  BY <1>1, <1>2, <1>3, <1>4, <1>5, <1>6, <1>7 DEF Next

\* The inductive invariant, whatever the numbers of actors, handlers and cycles.
LEMMA Invariance == ASSUME NoTaskInTick PROVE Spec => []IInv
<1>1. Init => IInv
  BY Zenon, InitShape, InitRest DEF IInv, Rest
<1>2. IInv /\ [Next]_vars => IInv'
  BY Zenon, NextShape, NextRest DEF IInv, Rest
<1> QED
  BY <1>1, <1>2, PTL DEF Spec

\* Between two cycles of the drive loop no live coroutine is left Ready, however
\* many actors there are, whatever they wait for and whatever the run coroutine
\* does between two waits: provided no handler suspends inside a tick, where
\* resumed[] has no flag for the slot it adds.
THEOREM NothingLeft == ASSUME NoTaskInTick PROVE Spec => []NoReadyLeftBehind
<1>1. ASSUME IInv PROVE NoReadyLeftBehind
  <2> SUFFICES ASSUME stack = <<Cycle("loop", "edge")>>, NEW s \in Range(slots), kind[s] = "Ready"
               PROVE  s \in finished
    BY Zenon DEF NoReadyLeftBehind
  <2>1. DOMAIN stack = {1} /\ stack[1] = Cycle("loop", "edge")
    OBVIOUS
  <2> USE <2>1
  <2>2. stack[1].act = "cycle"
    BY Zenon, CycleFacts
  <2>3. Left = {}
    BY Zenon, <1>1, <2>2 DEF IInv, Covered
  <2>4. ~ Running(s)
    BY Zenon, <2>2 DEF Running
  <2> QED
    BY Zenon, <2>3, <2>4 DEF Left
<1> QED
  BY <1>1, Invariance, PTL

-----------------------------------------------------------------------------
\* The countdowns.  What a step of the scheduler does to Known, Queued, Fresh
\* and Timed.

\* The stack is still that of bootstrap, if it was.
SameBottom ==
    stack' # <<>> /\ stack'[1].act = "cycle" => stack # <<>> /\ stack[1].act = "cycle"

\* The same coroutines run.
LEMMA RunsKept ==
    ASSUME SameRuns, NEW u
    PROVE  Running(u) <=> Running(u)'
BY Zenon DEF SameRuns, Running

\* The coroutines that are live and Ready are the same if nothing is written.
LEMMA LeftKept ==
    ASSUME SameRuns, UNCHANGED <<slots, kind, finished>>
    PROVE  Left' = Left
<1>1. \A u : Running(u) <=> Running(u)'
  BY Zenon, RunsKept
<1>2. UNCHANGED slots /\ UNCHANGED kind /\ UNCHANGED finished
  OBVIOUS
<1> QED
  BY Zenon, <1>1 DEF Left

\* A slot that was never written is in step.
LEMMA UnwaitedInTime == ASSUME NEW u, wait[u] = NoWait PROVE InTime(u)
BY DEF InTime, NoWait

\* At a posedge whoever is Ready and not running has never waited.
LEMMA EdgeFresh ==
    ASSUME Shape, Rest, Fresh, In("cycle"), NEW u \in Left
    PROVE  wait[u] = NoWait
<1>1. stack \in Seq(Frames) /\ Shaped
  BY Zenon DEF Shape, TypeOK
<1> USE <1>1
<1>2. PICK n \in 1 .. Len(stack) : n = Len(stack) /\ stack[n].act = "cycle" /\ n + 1 .. Len(stack) = {}
  BY InFacts
<1> USE <1>2
<1>3. CASE Base(stack[n])
  <2>1. n = 1
    BY Zenon, <1>3, BaseFirst
  <2>2. Len(stack) = 1 /\ stack \in Seq(Frames)
    BY Zenon, <2>1
  <2>3. \A k \in DOMAIN stack : k = n
    BY ONLY <2>2
  <2> QED
    BY Zenon, <2>3 DEF Rest, Covered
<1>4. CASE ~ Base(stack[n])
  <2>1. n - 1 \in 1 .. Len(stack) /\ Calls(stack[n - 1], stack[n])
    BY Zenon, <1>4, Called
  <2>2. PICK k \in DOMAIN stack : k = n - 1 /\ \A m \in k + 1 .. Len(stack) : m = n
    BY <2>1
  <2>3. LetsTimePass(stack[k])
    BY Zenon, <2>1, <2>2 DEF Calls, LetsTimePass
  <2> QED
    BY Zenon, <2>2, <2>3 DEF Fresh
<1> QED
  BY Zenon, <1>3, <1>4

\* A tick passes over a slot, or resumes a coroutine that is live and Ready.
LEMMA ResumeFacts ==
    ASSUME Shape, Rest, ResumeNext
    PROVE  /\ stack' \in Seq(Frames)
           /\ stack[Len(stack)].act = "tick" /\ stack'[Len(stack)].act = "tick"
           /\ \A k \in 1 .. Len(stack) - 1 : stack'[k] = stack[k]
           /\ stack[Len(stack)].resumed \subseteq stack'[Len(stack)].resumed
           /\ \A u \in Slots : u \notin finished \/ u \notin Range(slots) => kind'[u] = kind[u]
           /\ \/ Len(stack') = Len(stack)
              \/ \E i \in 1 .. Len(slots) :
                    /\ Len(stack') = Len(stack) + 1 /\ stack'[Len(stack) + 1] = Run(slots[i])
                    /\ i \in stack'[Len(stack)].resumed
                    /\ stack'[Len(stack)].at = "resume" /\ stack'[Len(stack)].i = i + 1
                    /\ kind[slots[i]] = "Ready" /\ slots[i] \notin finished /\ UNCHANGED kind
<1> USE Zenon
<1>1. In("tick") /\ Top.at = "resume"
  BY DEF ResumeNext
<1>2. stack \in Seq(Frames) /\ slots \in Seq(Slots) /\ kind \in [Slots -> Kinds]
  BY DEF Shape, TypeOK
<1> USE <1>2
<1>3. /\ stack # <<>> /\ Top \in TickFrames /\ Top.act = "tick" /\ Top = stack[Len(stack)]
      /\ Len(stack) \in Nat \ {0}
  BY SMT, <1>1, InFacts
<1>4. PICK r \in ReadResumed(Top) :
          \/ /\ Due(Top, r) = {}
             /\ Swap([Top EXCEPT !.at = "recheck"])
             /\ UNCHANGED kind
          \/ \E i \in Due(Top, r) :
                LET s == slots[i]
                    f == [Top EXCEPT !.i = i + 1, !.changed = TRUE,
                                     !.resumed = Marked(Top, i)]
                IN  /\ \A j \in Due(Top, r) : i <= j
                    /\ IF s \in finished
                       THEN Swap(f) /\ kind' = [kind EXCEPT ![s] = "Done"]
                       ELSE SwapPush(f, Run(s)) /\ UNCHANGED kind
  BY DEF ResumeNext
<1> USE <1>3
<1>5. CASE Swap([Top EXCEPT !.at = "recheck"]) /\ UNCHANGED kind
  <2> DEFINE h == [Top EXCEPT !.at = "recheck"]
  <2>1. h \in TickFrames /\ h.act = "tick" /\ h.resumed = Top.resumed
    BY ONLY Zenon, <1>3, RecheckFacts
  <2> HIDE DEF h
  <2>2. h \in Frames /\ Swap(h)
    BY <1>5, <2>1 DEF h, Frames
  <2>3. /\ stack' \in Seq(Frames) /\ Len(stack') = Len(stack)
        /\ \A k \in 1 .. Len(stack) - 1 : stack'[k] = stack[k]
        /\ stack'[Len(stack)] = h
    BY <2>2, SwapFacts
  <2> QED
    BY <1>5, <2>1, <2>3
<1>6. ASSUME NEW i \in Due(Top, r), NEW s, s = slots[i],
             NEW f, f = [Top EXCEPT !.i = i + 1, !.changed = TRUE, !.resumed = Marked(Top, i)],
             \/ s \in finished /\ Swap(f) /\ kind' = [kind EXCEPT ![s] = "Done"]
             \/ s \notin finished /\ SwapPush(f, Run(s)) /\ UNCHANGED kind
      PROVE  /\ stack' \in Seq(Frames) /\ stack'[Len(stack)].act = "tick"
             /\ \A k \in 1 .. Len(stack) - 1 : stack'[k] = stack[k]
             /\ stack[Len(stack)].resumed \subseteq stack'[Len(stack)].resumed
             /\ \A u \in Slots : u \notin finished \/ u \notin Range(slots) => kind'[u] = kind[u]
             /\ \/ Len(stack') = Len(stack)
                \/ /\ i \in 1 .. Len(slots) /\ i \in stack'[Len(stack)].resumed
                   /\ Len(stack') = Len(stack) + 1 /\ stack'[Len(stack) + 1] = Run(slots[i])
                   /\ stack'[Len(stack)].at = "resume" /\ stack'[Len(stack)].i = i + 1
                   /\ kind[slots[i]] = "Ready" /\ slots[i] \notin finished /\ UNCHANGED kind
  <2>1. i \in Nat \ {0} /\ i \in 1 .. Len(slots) /\ slots[i] \in Slots /\ kind[slots[i]] = "Ready"
    <3>1. slots \in Seq(Slots) /\ Top \in TickFrames /\ i \in Due(Top, r)
      OBVIOUS
    <3> QED
      BY ONLY Zenon, <3>1, DueFacts
  <2> USE <2>1
  <2>2. f \in Frames /\ f.act = "tick" /\ f.at = "resume" /\ f.i = i + 1 /\ f.resumed = Marked(Top, i)
    <3> DEFINE g == [Top EXCEPT !.i = i + 1, !.changed = TRUE, !.resumed = Marked(Top, i)]
    <3>1. g \in TickFrames /\ g.act = "tick" /\ g.at = Top.at /\ g.i = i + 1 /\ g.resumed = Marked(Top, i)
      <4>1. Top \in TickFrames /\ i \in Nat \ {0}
        OBVIOUS
      <4> HIDE DEF g
      <4> QED
        BY ONLY Zenon, <4>1, MarkFacts DEF g
    <3>2. f = g
      BY <1>6
    <3> HIDE DEF g
    <3> QED
      BY <1>1, <3>1, <3>2 DEF Frames
  <2>3. Run(s) \in Frames
    BY <1>6, RunFacts DEF Frames
  <2> USE <2>2
  <2>4. /\ stack' \in Seq(Frames)
        /\ \A k \in 1 .. Len(stack) - 1 : stack'[k] = stack[k]
        /\ stack'[Len(stack)] = f
        /\ \/ Len(stack') = Len(stack)
           \/ /\ s \notin finished /\ UNCHANGED kind
              /\ Len(stack') = Len(stack) + 1 /\ stack'[Len(stack) + 1] = Run(s)
    <3>1. CASE Swap(f)
      BY <3>1, SwapFacts
    <3>2. CASE s \notin finished /\ SwapPush(f, Run(s)) /\ UNCHANGED kind
      BY <2>3, <3>2, SwapPushFacts
    <3> QED
      BY <1>6, <3>1, <3>2
  <2>5. s \in Range(slots)
    <3>1. i \in DOMAIN slots
      BY SMT
    <3> QED
      BY <1>6, <3>1 DEF Range
  <2>6. \A u \in Slots : u \notin finished \/ u \notin Range(slots) => kind'[u] = kind[u]
    BY <1>6, <2>5
  <2>7. i \in Marked(Top, i) /\ Top.resumed \subseteq Marked(Top, i)
    <3>1. Len(stack) \in DOMAIN stack
      BY SMT
    <3>2. Top.size = Len(slots)
      BY <3>1 DEF Rest, Sized
    <3> QED
      BY <3>2 DEF Marked
  <2>8. /\ stack'[Len(stack)].act = "tick" /\ stack'[Len(stack)].at = "resume"
        /\ stack'[Len(stack)].i = i + 1 /\ i \in stack'[Len(stack)].resumed
        /\ stack[Len(stack)].resumed \subseteq stack'[Len(stack)].resumed
    BY <2>4, <2>7
  <2> QED
    BY <1>6, <2>4, <2>6, <2>8
<1> QED
  BY <1>4, <1>5, <1>6

\* Who runs when a tick has resumed a coroutine, or none.
LEMMA ResumeRuns ==
    ASSUME Shape, Rest, ResumeNext
    PROVE  /\ \A u : Running(u) => Running(u)'
           /\ \A u : Running(u)' => \/ Running(u)
                                    \/ Len(stack') = Len(stack) + 1 /\ stack'[Len(stack) + 1] = Run(u)
           /\ \A k \in DOMAIN stack' : \/ k = Len(stack')
                                       \/ /\ stack'[Len(stack)].act = "tick"
                                          /\ Len(stack) \in k .. Len(stack')
           /\ Len(stack) \in DOMAIN stack' /\ Len(stack) > 1
<1> USE Zenon
<1>1. /\ stack' \in Seq(Frames) /\ stack[Len(stack)].act = "tick" /\ stack'[Len(stack)].act = "tick"
      /\ \A k \in 1 .. Len(stack) - 1 : stack'[k] = stack[k]
      /\ \/ Len(stack') = Len(stack)
         \/ \E i \in 1 .. Len(slots) :
               Len(stack') = Len(stack) + 1 /\ stack'[Len(stack) + 1] = Run(slots[i])
  BY ResumeFacts
<1>2. stack \in Seq(Frames) /\ slots \in Seq(Slots) /\ Shaped /\ In("tick")
  BY DEF Shape, TypeOK, ResumeNext
<1> USE <1>2
<1>3. PICK n \in 1 .. Len(stack) : n = Len(stack)
  BY SMT, InFacts
<1> USE <1>1, <1>3
<1>4. n > 1
  <2>1. ~ Base(stack[n])
    BY DEF Base
  <2>2. n - 1 \in 1 .. Len(stack)
    BY <2>1, Called
  <2> QED
    BY ONLY <2>2
<1>5. Len(stack') = n \/ Len(stack') = n + 1
  OBVIOUS
<1>6. /\ n \in DOMAIN stack' /\ n \in Nat
      /\ \A k \in DOMAIN stack : k = n \/ (k \in DOMAIN stack' /\ k \in 1 .. n - 1)
      /\ \A k \in DOMAIN stack' : \/ k = n \/ (k \in DOMAIN stack /\ k \in 1 .. n - 1)
                                  \/ k = n + 1 /\ Len(stack') = n + 1
      /\ \A k \in DOMAIN stack' : k = Len(stack') \/ n \in k .. Len(stack')
  <2>1. n \in Nat \ {0} /\ n = Len(stack) /\ stack \in Seq(Frames) /\ stack' \in Seq(Frames)
    BY InFacts
  <2>2. DOMAIN stack = 1 .. n /\ DOMAIN stack' = 1 .. Len(stack')
    BY ONLY <2>1
  <2>3. CASE Len(stack') = n
    <3>1. DOMAIN stack' = 1 .. n /\ n \in Nat \ {0} /\ DOMAIN stack = 1 .. n
      BY ONLY <2>1, <2>3
    <3> QED
      BY ONLY <2>3, <3>1
  <2>4. CASE Len(stack') = n + 1
    <3>1. DOMAIN stack' = 1 .. n + 1 /\ n \in Nat \ {0} /\ DOMAIN stack = 1 .. n
      BY ONLY <2>1, <2>4
    <3> QED
      BY ONLY <2>4, <3>1
  <2> QED
    BY <1>5, <2>3, <2>4
<1> USE <1>6
<1>7. \A u : Running(u) => Running(u)'
  BY DEF Running
<1>8. ASSUME NEW u, Running(u)'
      PROVE  Running(u) \/ (Len(stack') = Len(stack) + 1 /\ stack'[Len(stack) + 1] = Run(u))
  <2>1. PICK k \in DOMAIN stack' : stack'[k].act = "run" /\ stack'[k].slot = u
    BY <1>8 DEF Running
  <2>2. CASE k \in DOMAIN stack /\ k \in 1 .. n - 1
    BY <2>1, <2>2 DEF Running
  <2>3. CASE k = n + 1 /\ Len(stack') = n + 1
    <3>1. PICK i \in 1 .. Len(slots) : stack'[n + 1] = Run(slots[i])
      <4>1. n + 1 # n
        BY SMT
      <4> QED
        BY <2>3, <4>1
    <3>2. slots[i] \in Slots
      BY SMT
    <3>3. u = slots[i]
      BY <2>1, <2>3, <3>1, <3>2, RunFacts
    <3> QED
      BY <2>3, <3>1, <3>3
  <2> QED
    BY <2>1, <2>2, <2>3
<1>9. /\ \A k \in DOMAIN stack' : \/ k = Len(stack')
                                  \/ stack'[Len(stack)].act = "tick" /\ Len(stack) \in k .. Len(stack')
      /\ Len(stack) \in DOMAIN stack' /\ Len(stack) > 1
  BY <1>4
<1> QED
  BY <1>7, <1>8, <1>9

\* A coroutine that a tick resumes was ready to run, and not running.
LEMMA ResumedLeft ==
    ASSUME Shape, Shape', Rest, ResumeNext, NEW s \in Slots,
           Len(stack') = Len(stack) + 1, stack'[Len(stack) + 1] = Run(s)
    PROVE  s \in Left
<1> USE Zenon
<1>1. /\ \A k \in 1 .. Len(stack) - 1 : stack'[k] = stack[k]
      /\ stack[Len(stack)].act = "tick"
      /\ \/ Len(stack') = Len(stack)
         \/ \E i \in 1 .. Len(slots) :
               /\ stack'[Len(stack) + 1] = Run(slots[i])
               /\ kind[slots[i]] = "Ready" /\ slots[i] \notin finished
  BY ResumeFacts
<1>2. stack \in Seq(Frames) /\ stack' \in Seq(Frames) /\ slots \in Seq(Slots)
  BY DEF Shape, TypeOK
<1> USE <1>2
<1>3. Len(stack') # Len(stack) /\ Len(stack) + 1 \in DOMAIN stack'
  BY SMT
<1>4. PICK i \in 1 .. Len(slots) : /\ stack'[Len(stack) + 1] = Run(slots[i])
                                   /\ kind[slots[i]] = "Ready" /\ slots[i] \notin finished
  BY <1>1, <1>3
<1>5. slots[i] \in Slots /\ i \in DOMAIN slots
  BY SMT
<1>6. s = slots[i] /\ Run(s).act = "run" /\ Run(s).slot = s
  <2>1. Run(s) = Run(slots[i])
    BY <1>4
  <2>2. Run(slots[i]).slot = slots[i]
    BY <1>5, RunFacts
  <2>3. Run(s).act = "run" /\ Run(s).slot = s
    BY RunFacts
  <2> QED
    BY <2>1, <2>2, <2>3
<1> USE <1>6
<1>7. s \in Range(slots)
  BY <1>5 DEF Range
<1>8. ~ Running(s)
  <2> SUFFICES ASSUME NEW k \in DOMAIN stack, stack[k].act = "run", stack[k].slot = s
               PROVE  FALSE
    BY DEF Running
  <2>1. k = Len(stack) \/ (k \in 1 .. Len(stack) - 1 /\ k \in DOMAIN stack' /\ k # Len(stack) + 1)
    BY SMT
  <2>2. stack'[k] = stack[k] /\ k \in DOMAIN stack' /\ k # Len(stack) + 1
    BY <1>1, <2>1
  <2>3. NoReentry'
    <3>1. Shape' => NoReentry'
      BY OnceRunning, PTL
    <3> QED
      BY <3>1
  <2> QED
    BY <1>3, <2>2, <2>3 DEF NoReentry
<1> QED
  BY <1>4, <1>7, <1>8 DEF Left

\* The run coroutine is the second or the third activation.
RunPlaced ==
    \A k \in 1 .. Len(stack) : stack[k].act = "run" /\ stack[k].slot = run =>
        k = IF stack[1].act = "boot" THEN 2 ELSE 3

\* So it is in every state.
LEMMA RunPlaces == Shape => RunPlaced
BY Zenon, RunPlace DEF RunPlaced

\* A coroutine that leaves the stack runs no more; the tick to come stays to come.
LEMMA LeaveRuns ==
    ASSUME Shape, NEW s \in Slots, In("run"), Top.slot = s, Pop
    PROVE  /\ stack # <<>> /\ stack' # <<>> /\ stack \in Seq(Frames) /\ stack' \in Seq(Frames)
           /\ SameLoops
           /\ ~ Running(s)' /\ \A u \in Slots : Running(u)' => Running(u)
           /\ \A u \in Slots : u # s => (Running(u) <=> Running(u)')
           /\ \A k \in DOMAIN stack' : k \in DOMAIN stack /\ stack'[k] = stack[k]
           /\ FirstAge = Debt /\ Debt' = Debt
<1> USE Zenon
<1>1. stack \in Seq(Frames) /\ Shaped
  BY DEF Shape, TypeOK
<1> USE <1>1
<1>2. /\ stack # <<>> /\ Top = stack[Len(stack)] /\ Top.act = "run" /\ Top.slot \in Slots
      /\ Len(stack) \in Nat \ {0}
  BY SMT, InFacts
<1>3. /\ stack' \in Seq(Frames) /\ Len(stack') = Len(stack) - 1
      /\ \A i \in 1 .. Len(stack) - 1 : stack'[i] = stack[i]
  BY <1>2, PopFacts
<1>4. Len(stack) - 1 \in 1 .. Len(stack) /\ Calls(stack[Len(stack) - 1], Top)
  BY LeaveFacts
<1>5. /\ \A k \in DOMAIN stack' : k \in 1 .. Len(stack) - 1 /\ k \in DOMAIN stack /\ k # Len(stack)
      /\ stack' # <<>> /\ Len(stack) \in DOMAIN stack /\ Len(stack) - 1 \in 1 .. Len(stack) - 1
  <2>1. /\ Len(stack) \in Nat \ {0} /\ DOMAIN stack = 1 .. Len(stack)
        /\ DOMAIN stack' = 1 .. Len(stack) - 1 /\ Len(stack) - 1 \in 1 .. Len(stack)
    BY ONLY <1>1, <1>3, <1>4
  <2>2. stack' # <<>>
    BY ONLY <2>1
  <2> QED
    BY ONLY <2>1
<1>6. \A k \in DOMAIN stack' : k \in DOMAIN stack /\ stack'[k] = stack[k] /\ k # Len(stack)
  BY <1>3, <1>5
<1>7. SameLoops /\ \A u \in Slots : u # s => (Running(u) <=> Running(u)')
  BY <1>2, PopQuiet
<1>8. ~ Running(s)'
  <2> SUFFICES ASSUME NEW k \in DOMAIN stack', stack'[k].act = "run", stack'[k].slot = s
               PROVE  FALSE
    BY DEF Running
  <2> QED
    BY <1>2, <1>5, <1>6, OnceRunning DEF NoReentry
<1>9. PICK c : c = stack[Len(stack) - 1] /\ c = stack'[Len(stack')]
  BY <1>3, <1>5
<1> USE <1>9
<1>10. c.act \in {"boot", "tick"} \/ (c.act = "cycle" /\ c.at \in {"services", "checkers"})
  BY <1>2, <1>4 DEF Calls
<1>11. Pending <=> Owes(c)
  BY <1>2, PendingNow
<1>12. Pending' <=> Owes(c)
  <2>1. CASE c.act \in {"boot", "tick"}
    BY <1>5, <2>1, PendingNext DEF Owes
  <2>2. CASE c.act = "cycle"
    BY <1>5, <2>2, PendingNext
  <2> QED
    BY <1>10, <2>1, <2>2
<1>13. FirstAge = IF Owes(c) THEN 1 ELSE 0
  BY SMT, <1>10 DEF FirstAge, Owes
<1>14. FirstAge = Debt /\ Debt' = Debt
  BY <1>11, <1>12, <1>13 DEF Debt
<1>15. \A u \in Slots : Running(u)' => Running(u)
  BY <1>6 DEF Running
<1> QED
  BY <1>2, <1>3, <1>5, <1>7, <1>8, <1>14

\* When bootstrap begins nobody has waited.
LEMMA InitTimes == Init => Times
<1> SUFFICES ASSUME Init PROVE Times
  OBVIOUS
<1>1. /\ kind = [s \in Slots |-> "Ready"] /\ finished = {} /\ stack = <<Boot(1)>>
      /\ wait = [s \in Slots |-> NoWait]
      /\ slots = IF Capsule THEN <<run>> ELSE [i \in 1 .. run |-> i]
  BY Zenon DEF Init
<1>2. /\ DOMAIN stack = {1} /\ stack[1].act = "boot" /\ stack # <<>> /\ Len(stack) = 1
  BY <1>1, BootFacts
<1>3. \A u : ~ Running(u)
  BY Zenon, <1>2 DEF Running
<1>4. Known
  BY Zenon, <1>1, <1>3 DEF Known
<1>5. Queued
  <2>1. ASSUME Capsule PROVE Queued
    <3>1. DOMAIN slots = {1} /\ slots[1] = run
      BY <1>1, <2>1
    <3>2. Range(slots) \cap Tasks = {}
      BY Zenon, <3>1, SlotFacts DEF Range
    <3> QED
      BY Zenon, <1>2, <2>1, <3>1, <3>2 DEF Queued
  <2>2. ASSUME ~ Capsule PROVE Queued
    <3>1. DOMAIN slots = 1 .. run /\ \A i \in 1 .. run : slots[i] = i
      BY Zenon, <1>1, <2>2
    <3>2. \A i \in 1 .. run : i \notin Tasks
      BY SlotFacts DEF Tasks
    <3> USE <3>1
    <3>3. Range(slots) \cap Tasks = {}
      BY Zenon, <3>2 DEF Range
    <3>4. \A i, j \in DOMAIN slots : slots[i] = run /\ i < j => FALSE
      OBVIOUS
    <3> QED
      BY Zenon, <3>3, <3>4 DEF Queued
  <2> QED
    BY Zenon, <2>1, <2>2
<1>6. \A u \in Left : u \in Slots /\ wait[u] = NoWait
  <2>1. slots \in Seq(Slots)
    BY Zenon, InitShape DEF Shape, TypeOK
  <2>2. \A u \in Range(slots) : u \in Slots
    BY <2>1 DEF Range
  <2> QED
    BY Zenon, <1>1, <2>2 DEF Left
<1>7. Fresh
  BY Zenon, <1>6 DEF Fresh
<1>8. Timed
  <2>1. ASSUME NEW u \in Slots PROVE InStep(u)
    <3>1. kind[u] = "Ready"
      BY Zenon, <1>1
    <3>2. u \in Left => InTime(u)
      BY Zenon, <1>6, UnwaitedInTime
    <3> QED
      BY <3>1, <3>2 DEF InStep
  <2> QED
    BY Zenon, <2>1 DEF Timed
<1> QED
  BY Zenon, <1>4, <1>5, <1>7, <1>8 DEF Times

\* Every step keeps the countdowns right.
LEMMA NextTimes == NoTaskInTick /\ Shape /\ Rest /\ Times /\ [Next]_vars => Times'
\* Steps that leave bootstrap and the ticks alone leave the bottom alone.
<1>Bottom.
    ASSUME Shape, stack # <<>>, SameLoops
    PROVE  SameBottom
  <2> USE <1>Bottom
  <2>1. Base(stack[1]) /\ 1 \in DOMAIN stack
    BY DEF Shape, Shaped, TypeOK
  <2>2. stack[1].act \in {"boot", "cycle"}
    BY Zenon, <2>1 DEF Base
  <2>3. CASE stack[1].act = "boot"
    BY Zenon, <2>1, <2>3 DEF SameLoops, SameBottom
  <2> QED
    BY Zenon, <2>2, <2>3 DEF SameBottom

\* Whoever starts to run is registered, live and Ready; nobody else is written.
<1>KnownKept.
    ASSUME Known, stack # <<>>, Range(slots) \subseteq Range(slots'),
           \A u \in Slots : Running(u)' =>
               \/ Running(u)
               \/ kind[u] = "Ready" /\ u \notin finished /\ u \in Range(slots'),
           \A u \in Slots : Running(u)' \/ u \notin Range(slots') =>
               kind'[u] = kind[u] /\ (u \in finished' => u \in finished),
           \A u \in Slots \ Range(slots') : wait[u] = NoWait => wait'[u] = NoWait
    PROVE  Known'
  BY <1>KnownKept, Zenon DEF Known

\* No slot is added or moved.
<1>QueuedKept.
    ASSUME Queued, UNCHANGED slots, SameBottom
    PROVE  Queued'
  <2> USE Zenon, <1>QueuedKept
  <2>1. \A i, j \in DOMAIN slots' : slots'[i] = slots'[j] => i = j
    BY DEF Queued
  <2>2. ~ Capsule \/ (stack' # <<>> /\ stack'[1].act = "cycle") =>
            \A i, j \in DOMAIN slots' : slots'[i] = run /\ i < j => slots'[j] \in Tasks
    BY DEF Queued, SameBottom
  <2>3. Sites \cap {"post_eval", "checker"} = {} => Range(slots') \cap Tasks = {}
    BY DEF Queued
  <2> QED
    BY <2>1, <2>2, <2>3 DEF Queued

\* The run coroutine is not started, and nobody becomes Ready after a wait.
<1>FreshKept.
    ASSUME Fresh, SameLoops, stack \in Seq(Frames), stack' \in Seq(Frames),
           \A k \in DOMAIN stack' : stack'[k].act = "run" /\ stack'[k].slot = run =>
               k \in DOMAIN stack /\ stack[k].act = "run" /\ stack[k].slot = run,
           \A u \in Left' : wait'[u] = NoWait \/ (u \in Left /\ (wait[u] = NoWait => wait'[u] = NoWait))
    PROVE  Fresh'
  <2> USE Zenon, <1>FreshKept
  <2> SUFFICES ASSUME NEW k \in DOMAIN stack', LetsTimePass(stack[k])',
                      \A m \in k + 1 .. Len(stack') : stack'[m].act # "tick",
                      NEW u \in Left'
               PROVE  wait'[u] = NoWait
    BY DEF Fresh
  <2>1. \/ stack'[k].act = "boot"
        \/ stack'[k].act = "run" /\ stack'[k].slot = run /\ Sites \cap {"qualified", "sync"} # {}
    BY DEF LetsTimePass
  <2>2. k \in DOMAIN stack /\ LetsTimePass(stack[k])
    BY DEF SameLoops, LetsTimePass
  <2> USE <2>2
  <2>3. \A m \in k + 1 .. Len(stack) : m \in DOMAIN stack
    BY SMT
  <2>4. \A m \in k + 1 .. Len(stack) : m \in DOMAIN stack' => m \in k + 1 .. Len(stack')
    BY SMT
  <2>5. \A m \in k + 1 .. Len(stack) : stack[m].act # "tick"
    BY <2>3, <2>4 DEF SameLoops
  <2>6. \A v \in Left : wait[v] = NoWait
    BY <2>5 DEF Fresh
  <2> QED
    BY <2>6

\* A tick on top of the stack hides who may let time pass.
<1>FreshInTick.
    ASSUME stack' \in Seq(Frames), stack' # <<>>, stack'[Len(stack')].act = "tick"
    PROVE  Fresh'
  <2> USE <1>FreshInTick
  <2>1. \A k \in DOMAIN stack' : k = Len(stack') \/ Len(stack') \in k + 1 .. Len(stack')
    OBVIOUS
  <2>2. \A k \in DOMAIN stack' : LetsTimePass(stack[k])' => stack'[k].act # "tick"
    BY Zenon DEF LetsTimePass
  <2> QED
    BY Zenon, <2>1, <2>2 DEF Fresh

\* A slot that is not written stays in step while the debt stays the same.
<1>InStepKept.
    ASSUME NEW u, InStep(u), Debt' = Debt,
           kind'[u] = kind[u], cycles'[u] = cycles[u], timedOut'[u] = timedOut[u],
           wait'[u] = wait[u], u \in Left' => u \in Left \/ wait[u] = NoWait
    PROVE  InStep(u)'
  <2> USE Zenon, <1>InStepKept
  <2>1. wait[u] = NoWait => InTime(u)
    BY UnwaitedInTime
  <2>2. InTime(u) => InTime(u)'
    BY DEF InTime
  <2> QED
    BY <2>1, <2>2 DEF InStep

\* A step of a cycle that writes no slot.
<1>CalmTimes.
    ASSUME Shape, Shape', stack # <<>>, Times, SameLoops, SameRuns, Pending' <=> Pending,
           UNCHANGED slotVars
    PROVE  Times'
  <2> USE Zenon, <1>CalmTimes
  <2>1. /\ UNCHANGED slots /\ UNCHANGED kind /\ UNCHANGED cycles /\ UNCHANGED timedOut
        /\ UNCHANGED finished /\ UNCHANGED wait
    BY DEF slotVars
  <2>2. stack \in Seq(Frames) /\ stack' \in Seq(Frames)
    BY DEF Shape, TypeOK
  <2> USE <2>1
  <2>3. Known'
    BY RunsKept, <1>KnownKept DEF Times
  <2>4. Queued'
    BY <1>Bottom, <1>QueuedKept DEF Times
  <2>5. Left' = Left
    BY LeftKept
  <2>6. Fresh'
    BY <2>2, <2>5, <1>FreshKept DEF Times, SameRuns
  <2>7. Debt' = Debt
    BY DEF Debt
  <2>8. Timed'
    BY <2>5, <2>7, <1>InStepKept DEF Times, Timed
  <2> QED
    BY <2>3, <2>4, <2>6, <2>8 DEF Times

\* A posedge counts for every wait, unless no tick follows it.
<1>EdgeTimes. ASSUME Shape, Shape', Rest, Times, Edge PROVE Times'
  <2> USE Zenon, <1>EdgeTimes
  <2>1. /\ In("cycle")
        /\ wait' = [s \in Slots |-> [wait[s] EXCEPT !.age =
                       IF @ > wait[s].n \/ Top.how = "sync" THEN @ ELSE @ + 1]]
        /\ UNCHANGED slots /\ UNCHANGED kind /\ UNCHANGED cycles
        /\ UNCHANGED timedOut /\ UNCHANGED finished
    BY DEF Edge
  <2> USE <2>1
  <2>2. /\ stack \in Seq(Frames) /\ stack' \in Seq(Frames) /\ slots \in Seq(Slots)
        /\ wait \in [Slots -> Waits] /\ cycles \in [Slots -> 0 .. MaxWait] /\ stack # <<>>
    BY TypeParts DEF Shape, TypeOK, SlotTypes, In
  <2>3. SameLoops /\ SameRuns /\ ~ Pending /\ (Pending' <=> Top.how # "sync")
    BY EdgeQuiet
  <2>4. \A u \in Slots :
           /\ wait'[u].on = wait[u].on /\ wait'[u].n = wait[u].n
           /\ wait'[u].age = IF wait[u].age > wait[u].n \/ Top.how = "sync" THEN wait[u].age
                             ELSE wait[u].age + 1
           /\ wait[u] = NoWait => wait'[u] = NoWait
    <3> SUFFICES ASSUME NEW u \in Slots
                 PROVE  /\ wait'[u].on = wait[u].on /\ wait'[u].n = wait[u].n
                        /\ wait'[u].age = IF wait[u].age > wait[u].n \/ Top.how = "sync"
                                          THEN wait[u].age ELSE wait[u].age + 1
                        /\ wait[u] = NoWait => wait'[u] = NoWait
      OBVIOUS
    <3>1. PICK w \in Waits : w = wait[u]
      BY SMT, <2>2
    <3>2. wait'[u] = [w EXCEPT !.age = IF w.age > w.n \/ Top.how = "sync" THEN w.age ELSE w.age + 1]
      BY <3>1
    <3>3. w = NoWait => w.age > w.n
      BY SMT DEF NoWait
    <3> QED
      BY SMT, <3>1, <3>3 DEF Waits
  <2> USE <2>3
  <2>5. Known'
    BY <2>2, <2>4, RunsKept, <1>KnownKept DEF Times
  <2>6. Queued'
    BY <2>2, <1>Bottom, <1>QueuedKept DEF Times
  <2>7. Left' = Left /\ \A u \in Left : u \in Slots
    <3>1. Left' = Left
      BY LeftKept
    <3>2. \A u \in Range(slots) : u \in Slots
      BY SMT, <2>2 DEF Range
    <3> QED
      BY <3>1, <3>2 DEF Left
  <2>8. Fresh'
    BY <2>2, <2>4, <2>7, <1>FreshKept DEF Times, SameRuns
  <2>9. ASSUME NEW u \in Slots, InStep(u) PROVE InStep(u)'
    <3>1. u \in Left' => InTime(u)'
      <4>1. u \in Left' => wait[u] = NoWait
        BY <2>7, EdgeFresh DEF Times
      <4>2. u \in Left' => wait'[u] = NoWait
        BY <2>4, <4>1
      <4> QED
        BY SMT, <4>2 DEF InTime, NoWait
    <3>2. kind[u] = "WaitUntil" => wait'[u].on = "WaitUntil" /\ wait'[u].n = 0
      BY <2>4, <2>9 DEF InStep
    <3>3. ASSUME kind[u] \in {"WaitCycles", "WaitUntilTimeout"}
          PROVE  /\ wait'[u].on = kind[u] /\ cycles[u] > 0
                 /\ cycles[u] + wait'[u].age = wait'[u].n + Debt'
      <4>1. /\ wait[u].on = kind[u] /\ cycles[u] > 0
            /\ cycles[u] + wait[u].age = wait[u].n + Debt
        BY <2>9, <3>3 DEF InStep
      <4>2. Debt = 0 /\ (Top.how = "sync" => Debt' = 0) /\ (Top.how # "sync" => Debt' = 1)
        BY DEF Debt
      <4>3. cycles[u] \in Nat /\ wait[u].age \in Nat /\ wait[u].n \in Int
        BY SMT, <2>2 DEF Waits
      <4>4. /\ wait'[u].on = wait[u].on /\ wait'[u].n = wait[u].n
            /\ wait'[u].age = IF wait[u].age > wait[u].n \/ Top.how = "sync" THEN wait[u].age
                              ELSE wait[u].age + 1
        BY <2>4
      <4> QED
        BY ONLY <4>1, <4>2, <4>3, <4>4
    <3> QED
      BY <3>1, <3>2, <3>3 DEF InStep
  <2>10. Timed'
    BY <2>9 DEF Times, Timed
  <2> QED
    BY <2>5, <2>6, <2>8, <2>10 DEF Times

\* A handler starts its coroutine, which is registered and running at once.
<1>StartTaskTimes.
    ASSUME Shape, Shape', Times, NEW site \in {"post_eval", "checker"},
           In("cycle"), Top.at \in {"services", "checkers"}, StartTask(site)
    PROVE  Times'
  <2> USE Zenon, <1>StartTaskTimes
  <2>1. /\ stack \in Seq(Frames) /\ slots \in Seq(Slots) /\ Shape'
        /\ stack' \in Seq(Frames) /\ slots' \in Seq(Slots)
    BY DEF Shape, TypeOK
  <2>2. stack # <<>> /\ Top = stack[Len(stack)] /\ Top.act = "cycle" /\ Len(stack) \in Nat \ {0}
    BY SMT, <2>1, InFacts
  <2>3. /\ site \in Sites /\ UNCHANGED kind /\ UNCHANGED cycles /\ UNCHANGED timedOut
        /\ UNCHANGED finished /\ UNCHANGED wait
    BY DEF StartTask
  <2>4. PICK s \in Tasks : s \notin Range(slots) /\ slots' = Append(slots, s) /\ Push(Run(s))
    BY DEF StartTask
  <2>5. s \in Slots /\ s # run /\ Run(s) \in Frames /\ Run(s).act = "run" /\ Run(s).slot = s
    BY <2>4, SlotFacts, RunFacts DEF Frames
  <2>6. PICK n \in Nat : n = Len(stack)
    BY SMT, <2>2
  <2>7. /\ stack' # <<>> /\ Len(stack') = n + 1 /\ n + 1 - 1 = n /\ stack'[n] = stack[n]
        /\ stack'[n + 1] = Run(s) /\ n + 1 \in DOMAIN stack'
        /\ \A k \in DOMAIN stack : k \in DOMAIN stack' /\ stack'[k] = stack[k]
        /\ \A k \in DOMAIN stack' : (k \in DOMAIN stack /\ stack'[k] = stack[k]) \/ stack'[k] = Run(s)
    <3>1. /\ Len(stack') = Len(stack) + 1
          /\ \A i \in 1 .. Len(stack) : stack'[i] = stack[i]
          /\ stack'[Len(stack) + 1] = Run(s)
      BY <2>1, <2>4, <2>5, PushFacts
    <3> QED
      BY ONLY <2>1, <2>2, <2>6, <3>1
  <2>8. /\ Running(s)' /\ \A u : Running(u) => Running(u)'
        /\ \A u : u # s /\ Running(u)' => Running(u)
    BY <2>5, <2>7 DEF Running
  <2>9. /\ \A j \in DOMAIN slots : j \in DOMAIN slots' /\ slots'[j] = slots[j]
        /\ \A j \in DOMAIN slots' : j \in DOMAIN slots \/ (slots'[j] = s /\ j = Len(slots) + 1)
        /\ \A j \in DOMAIN slots : j \in Nat /\ j <= Len(slots)
        /\ Len(slots) + 1 \in DOMAIN slots' /\ slots'[Len(slots) + 1] = s
    <3>1. slots \in Seq(Slots) /\ s \in Slots /\ slots' = Append(slots, s)
      BY <2>1, <2>4, <2>5
    <3> QED
      BY ONLY <3>1
  <2> USE <2>9
  <2>10. Range(slots) \subseteq Range(slots') /\ s \in Range(slots') /\ Range(slots') \subseteq Range(slots) \cup {s}
    <3>1. Range(slots) \subseteq Range(slots')
      BY DEF Range
    <3>2. s \in Range(slots')
      BY DEF Range
    <3>3. Range(slots') \subseteq Range(slots) \cup {s}
      BY DEF Range
    <3> QED
      BY <3>1, <3>2, <3>3
  <2>11. kind[s] = "Ready" /\ s \notin finished
    BY <2>2, <2>4, <2>5 DEF Times, Known
  <2>12. Known'
    BY <2>2, <2>3, <2>8, <2>10, <2>11, <1>KnownKept DEF Times
  <2>13. SameLoops
    BY <2>5, <2>7 DEF SameLoops
  <2>14. Queued'
    <3>1. \A i, j \in DOMAIN slots' : slots'[i] = slots'[j] => i = j
      <4> SUFFICES ASSUME NEW i \in DOMAIN slots', NEW j \in DOMAIN slots', slots'[i] = slots'[j]
                   PROVE  i = j
        OBVIOUS
      <4>1. \A k \in DOMAIN slots : slots[k] # s
        BY <2>4 DEF Range
      <4> QED
        BY <4>1 DEF Times, Queued
    <3>2. ASSUME ~ Capsule \/ (stack' # <<>> /\ stack'[1].act = "cycle"),
                 NEW i \in DOMAIN slots', NEW j \in DOMAIN slots', slots'[i] = run, i < j
          PROVE  slots'[j] \in Tasks
      <4>1. ~ Capsule \/ (stack # <<>> /\ stack[1].act = "cycle")
        BY <2>2, <2>13, <3>2, <1>Bottom DEF SameBottom
      <4>2. i \in DOMAIN slots /\ slots[i] = run
        BY <2>5, <3>2
      <4> QED
        BY <2>4, <3>2, <4>1, <4>2 DEF Times, Queued
    <3>3. Sites \cap {"post_eval", "checker"} # {}
      BY <2>3
    <3> QED
      BY <3>1, <3>2, <3>3 DEF Queued
  <2>15. Left' \subseteq Left
    BY <2>3, <2>8, <2>10 DEF Left
  <2>16. Fresh'
    BY <2>1, <2>3, <2>5, <2>7, <2>13, <2>15, <1>FreshKept DEF Times
  <2>17. Pending' <=> Pending
    <3>1. Pending <=> Owes(stack[n])
      BY <2>2, <2>6, PendingNow
    <3>2. Run(s) = stack'[Len(stack')] /\ stack'[Len(stack') - 1] = stack[n]
      BY ONLY <2>6, <2>7
    <3>3. Pending' <=> Owes(stack[n])
      BY <2>5, <2>7, <3>2, PendingNext
    <3> QED
      BY <3>1, <3>3
  <2>18. Timed'
    BY <2>3, <2>15, <2>17, <1>InStepKept DEF Times, Timed, Debt
  <2> QED
    BY <2>12, <2>14, <2>16, <2>18 DEF Times

\* The end of a qualified wait,
<1>QualifiedOverTimes. ASSUME Shape, Shape', Times, QualifiedOver PROVE Times'
  <2> USE <1>QualifiedOverTimes
  <2>1. stack # <<>> /\ UNCHANGED slotVars
    BY Zenon DEF QualifiedOver, In
  <2> QED
    BY Zenon, <2>1, QualifiedOverQuiet, <1>CalmTimes

\* the services,
<1>ServicesTimes. ASSUME Shape, Shape', Times, Services PROVE Times'
  <2> USE <1>ServicesTimes
  <2>1. In("cycle") /\ Top.at = "services" /\ stack # <<>>
    BY Zenon DEF Services, In
  <2>2. CASE StartTask("post_eval")
    BY Zenon, <2>1, <2>2, <1>StartTaskTimes
  <2>3. CASE /\ Swap([Top EXCEPT !.at = AfterServices(Top.how)])
             /\ UNCHANGED <<slotVars, holds, fatal>>
    BY Zenon, <2>1, <2>3, ServicesQuiet, <1>CalmTimes
  <2> QED
    BY Zenon, <2>2, <2>3 DEF Services

\* the checkers,
<1>CheckersTimes. ASSUME Shape, Shape', Times, Checkers PROVE Times'
  <2> USE <1>CheckersTimes
  <2>1. In("cycle") /\ Top.at = "checkers" /\ stack # <<>>
    BY Zenon DEF Checkers, In
  <2>2. CASE StartTask("checker")
    BY Zenon, <2>1, <2>2, <1>StartTaskTimes
  <2>3. ASSUME UNCHANGED <<slotVars, holds, fatal>>,
               IF Top.how = "loop" THEN Swap(Cycle("loop", "edge"))
               ELSE stack' = [Callers EXCEPT ![Len(stack) - 1].abort = Top.owed]
        PROVE  Times'
    BY Zenon, <2>1, <2>3, CheckersQuiet, <1>CalmTimes
  <2> QED
    BY Zenon, <2>2, <2>3 DEF Checkers

\* and the beginning of a cycle of the run coroutine's own.
<1>RunCyclesTimes.
    ASSUME NEW how \in {"qualified", "sync"}, Shape, Shape', Times, RunCycles(how)
    PROVE  Times'
  <2> USE <1>RunCyclesTimes
  <2>1. stack # <<>> /\ UNCHANGED slotVars
    BY Zenon DEF RunCycles, Segment, In
  <2> QED
    BY Zenon, <2>1, RunCyclesQuiet, <1>CalmTimes

\* Steps that touch neither slots nor stack.
<1>SameTimes.
    ASSUME Shape, Shape', Times, UNCHANGED slotVars, UNCHANGED stack
    PROVE  Times'
  <2> USE Zenon, <1>SameTimes
  <2>1. Pending' <=> Pending
    BY SMT DEF Pending, Owes, Top
  <2>2. SameLoops /\ SameRuns
    BY DEF SameLoops, SameRuns
  <2>3. CASE stack # <<>>
    BY <2>1, <2>2, <2>3, <1>CalmTimes
  <2>4. CASE stack = <<>>
    <3>1. /\ UNCHANGED slots /\ UNCHANGED kind /\ UNCHANGED cycles /\ UNCHANGED timedOut
          /\ UNCHANGED finished /\ UNCHANGED wait
      BY DEF slotVars
    <3>2. DOMAIN stack = {} /\ DOMAIN stack' = {} /\ stack' = <<>>
      BY SMT, <2>4
    <3> USE <3>1
    <3>3. Left' = Left
      BY <2>2, LeftKept
    <3> USE <3>2
    <3>4. Known'
      BY DEF Times, Known, Running
    <3>5. Queued'
      BY <1>QueuedKept DEF Times, SameBottom
    <3>6. Fresh'
      BY DEF Fresh
    <3>7. Timed'
      BY <2>1, <3>3, <1>InStepKept DEF Times, Timed, Debt
    <3> QED
      BY <3>4, <3>5, <3>6, <3>7 DEF Times
  <2> QED
    BY <2>3, <2>4

\* A tick leaves out at most the run coroutine, and that only while it runs.
<1>ExcludedRuns.
    ASSUME Shape, In("cycle"), Excluded(Top.how) = run
    PROVE  Running(run)
  <2> USE <1>ExcludedRuns
  <2>1. stack \in Seq(Frames) /\ Shaped
    BY Zenon DEF Shape, TypeOK
  <2> USE <2>1
  <2>2. PICK n \in 1 .. Len(stack) : n = Len(stack) /\ stack[n] = Top /\ stack[n].act = "cycle"
    BY InFacts
  <2>3. stack[n].how = "qualified"
    BY Zenon, <2>2, SlotFacts DEF Excluded
  <2>4. ~ Base(stack[n])
    BY Zenon, <2>2, <2>3 DEF Base
  <2>5. n - 1 \in 1 .. Len(stack) /\ Calls(stack[n - 1], stack[n])
    BY Zenon, <2>4, Called
  <2>6. n - 1 \in DOMAIN stack
    BY <2>5
  <2> QED
    BY Zenon, <2>2, <2>5, <2>6 DEF Calls, Running

\* Pass 1 counts every wait down once, and takes back what the posedge was ahead.
<1>PassOneInStep.
    ASSUME SlotTypes, NEW u \in Slots, NEW excluded, PassOne(excluded), UNCHANGED wait,
           u \in Range(slots) \ {excluded} \/ kind[u] \in {"Ready", "Done"},
           InStep(u), Debt = 1, Debt' = 0, u \in Left' /\ kind[u] = "Ready" => u \in Left
    PROVE  InStep(u)'
  <2> USE <1>PassOneInStep
  <2>1. /\ kind[u] \in Kinds /\ cycles[u] \in Nat /\ wait[u].age \in Nat /\ wait[u].n \in Int
        /\ wait'[u] = wait[u] /\ Debt' = 0
    BY DEF SlotTypes, Waits
  <2>2. PICK ticked : ticked = Range(slots) \ {excluded}
    BY Zenon
  <2>3. /\ kind'[u] = IF u \in ticked /\ PassOneReady(u) THEN "Ready" ELSE kind[u]
        /\ cycles'[u] = IF u \in ticked THEN Countdown(u) ELSE cycles[u]
        /\ timedOut'[u] = IF u \in ticked /\ kind[u] = "WaitUntilTimeout" /\ PassOneReady(u)
                          THEN Expires(u) ELSE timedOut[u]
    BY Zenon, <2>2 DEF PassOne
  <2>4. CASE kind[u] \in {"Ready", "Done"}
    <3>1. kind'[u] = kind[u] /\ timedOut'[u] = timedOut[u]
      <4>1. ~ PassOneReady(u) /\ kind[u] # "WaitUntilTimeout"
        BY <2>4 DEF PassOneReady, PredKinds
      <4> QED
        BY Zenon, <2>3, <4>1
    <3>2. u \in Left' => u \in Left
      <4>1. u \in Left' => kind'[u] = "Ready"
        BY Zenon DEF Left
      <4> QED
        BY Zenon, <3>1, <4>1
    <3>3. InTime(u) => InTime(u)'
      BY Zenon, <2>1, <3>1 DEF InTime
    <3> QED
      BY <2>4, <3>1, <3>2, <3>3 DEF InStep
  <2>5. CASE kind[u] = "WaitUntil" /\ u \in ticked
    <3>1. wait[u].on = "WaitUntil" /\ wait[u].n = 0 /\ kind'[u] \in {"Ready", "WaitUntil"}
      BY Zenon, <2>3, <2>5 DEF InStep
    <3>2. InTime(u)'
      BY ONLY Zenon, <2>1, <3>1 DEF InTime
    <3> QED
      BY ONLY Zenon, <2>1, <3>1, <3>2 DEF InStep
  <2>6. CASE kind[u] = "WaitCycles" /\ u \in ticked
    <3>1. /\ wait[u].on = "WaitCycles" /\ cycles[u] > 0
          /\ cycles[u] + wait[u].age = wait[u].n + 1
      BY Zenon, <2>6 DEF InStep
    <3>2. /\ kind'[u] = IF cycles[u] <= 1 THEN "Ready" ELSE "WaitCycles"
          /\ cycles'[u] = cycles[u] - 1
      <4>1. PassOneReady(u) <=> cycles[u] <= 1
        BY ONLY <2>6 DEF PassOneReady, PredKinds
      <4>2. Countdown(u) = cycles[u] - 1
        BY ONLY <2>6, <3>1 DEF Countdown
      <4> QED
        BY ONLY <2>3, <2>6, <4>1, <4>2
    <3>3. cycles[u] <= 1 => InTime(u)'
      BY ONLY <2>1, <3>1 DEF InTime
    <3>4. cycles[u] > 1 => u \notin Left'
      <4>1. u \in Left' => kind'[u] = "Ready"
        BY Zenon DEF Left
      <4> QED
        BY ONLY <2>1, <3>2, <4>1
    <3> QED
      BY ONLY <2>1, <3>1, <3>2, <3>3, <3>4 DEF InStep
  <2>7. CASE kind[u] = "WaitUntilTimeout" /\ u \in ticked
    <3>1. /\ wait[u].on = "WaitUntilTimeout" /\ cycles[u] > 0
          /\ cycles[u] + wait[u].age = wait[u].n + 1
      BY Zenon, <2>7 DEF InStep
    <3>2. CASE u \in holds \/ cycles[u] <= 1
      <4>1. kind'[u] = "Ready" /\ (timedOut'[u] => cycles[u] <= 1)
        BY Zenon, <2>3, <2>7, <3>2 DEF PassOneReady, PredKinds, Expires
      <4>2. InTime(u)'
        <5>1. wait[u].age <= wait[u].n /\ (cycles[u] <= 1 => wait[u].age = wait[u].n)
          BY ONLY <2>1, <3>1
        <5> QED
          BY ONLY Zenon, <2>1, <3>1, <4>1, <5>1 DEF InTime
      <4> QED
        BY ONLY Zenon, <4>1, <4>2 DEF InStep
    <3>3. CASE u \notin holds /\ cycles[u] > 1
      <4>1. kind'[u] = "WaitUntilTimeout" /\ cycles'[u] = cycles[u] - 1
        <5>1. ~ PassOneReady(u)
          BY ONLY <2>1, <2>7, <3>3 DEF PassOneReady, PredKinds
        <5>2. Countdown(u) = cycles[u] - 1
          BY ONLY <2>1, <2>7, <3>3 DEF Countdown
        <5> QED
          BY ONLY <2>3, <2>7, <5>1, <5>2
      <4>2. u \notin Left'
        BY Zenon, <4>1 DEF Left
      <4> QED
        <5>1. cycles'[u] > 0 /\ cycles'[u] + wait'[u].age = wait'[u].n + Debt'
          BY ONLY <2>1, <3>1, <3>3, <4>1
        <5> QED
          BY ONLY Zenon, <2>1, <3>1, <4>1, <4>2, <5>1 DEF InStep
    <3> QED
      BY ONLY <2>1, <3>2, <3>3
  <2>8. u \in ticked \/ kind[u] \in {"Ready", "Done"}
    BY Zenon, <2>2
  <2> QED
    BY ONLY <2>1, <2>4, <2>5, <2>6, <2>7, <2>8 DEF Kinds

\* Pass 1 of a tick.
<1>TickStartTimes. ASSUME Shape, Times, TickStart PROVE Times'
  <2> USE Zenon, <1>TickStartTimes
  <2>1. /\ In("cycle") /\ Top.at = "tick" /\ PassOne(Excluded(Top.how))
        /\ UNCHANGED slots /\ UNCHANGED finished /\ UNCHANGED wait
    BY DEF TickStart
  <2>2. stack \in Seq(Frames) /\ slots \in Seq(Slots) /\ SlotTypes
    BY TypeParts DEF Shape, TypeOK
  <2> USE <2>2
  <2>3. /\ stack # <<>> /\ Top \in CycleFrames /\ Top = stack[Len(stack)] /\ Top.act = "cycle"
        /\ Len(stack) \in Nat \ {0}
    BY ONLY <2>1, <2>2, InFacts
  <2>4. Top.how # "sync"
    BY SMT, <2>1, <2>3 DEF CycleFrames
  <2>5. PICK next \in {"edge", "checkers"} :
             SwapPush([Top EXCEPT !.at = next], Tick(Excluded(Top.how)))
    BY DEF TickStart
  <2>6. PICK c \in Frames : c.act = "cycle" /\ c = [Top EXCEPT !.at = next]
    <3>1. next \in {"edge", "services", "tick", "checkers"} /\ next # "tick"
      BY SMT, <2>5
    <3> QED
      BY <2>3, <3>1, AtFacts DEF Frames
  <2>7. PICK t \in Frames : t = Tick(Excluded(Top.how)) /\ t.act = "tick"
    BY ExcludedFacts, TickFacts DEF Frames
  <2>8. /\ stack' \in Seq(Frames) /\ stack' # <<>> /\ stack'[Len(stack')] = t
        /\ \A k \in DOMAIN stack' :
              stack'[k] = t \/ stack'[k] = c \/ (k \in DOMAIN stack /\ stack'[k] = stack[k])
        /\ \A k \in DOMAIN stack :
              k = Len(stack) \/ (k \in DOMAIN stack' /\ stack'[k] = stack[k])
        /\ stack'[1].act = stack[1].act
    <3>1. SwapPush(c, t)
      BY <2>5, <2>6, <2>7
    <3>2. /\ stack' \in Seq(Frames) /\ Len(stack') = Len(stack) + 1
          /\ \A i \in 1 .. Len(stack) - 1 : stack'[i] = stack[i]
          /\ stack'[Len(stack)] = c /\ stack'[Len(stack) + 1] = t
      BY <2>3, <3>1, SwapPushFacts
    <3>3. /\ \A k \in DOMAIN stack' : \/ k = Len(stack) + 1 \/ k = Len(stack)
                                      \/ k \in DOMAIN stack /\ k \in 1 .. Len(stack) - 1
          /\ \A k \in DOMAIN stack :
                k = Len(stack) \/ (k \in DOMAIN stack' /\ k \in 1 .. Len(stack) - 1)
          /\ stack' # <<>>
          /\ Len(stack) = 1 \/ 1 \in 1 .. Len(stack) - 1
      <4>1. /\ Len(stack) \in Nat \ {0} /\ DOMAIN stack = 1 .. Len(stack)
            /\ DOMAIN stack' = 1 .. Len(stack) + 1
        BY ONLY <2>2, <2>3, <3>2
      <4>2. stack' # <<>>
        BY ONLY <4>1
      <4> QED
        BY ONLY <4>1
    <3> QED
      BY <2>3, <2>6, <3>2, <3>3
  <2>9. \A u : Running(u) <=> Running(u)'
    BY <2>3, <2>6, <2>7, <2>8 DEF Running
  <2>10. \A u \in Slots : u \notin Range(slots) \ {Excluded(Top.how)} => kind'[u] = kind[u]
    BY <2>1 DEF PassOne
  <2>11. \A u \in Slots : kind[u] = "Ready" => kind'[u] = kind[u]
    BY <2>1 DEF PassOne
  <2>12. Known'
    BY <2>1, <2>3, <2>9, <2>10, <2>11 DEF Times, Known
  <2>13. Queued'
    BY <2>1, <2>3, <2>8, <1>QueuedKept DEF Times, SameBottom
  <2>14. Fresh'
    BY <2>7, <2>8, <1>FreshInTick
  <2>15. Debt = 1 /\ Debt' = 0
    <3>1. Pending
      BY <2>1, <2>3, <2>4, PendingNow DEF Owes
    <3>2. ~ Pending'
      BY <2>7, <2>8, PendingNext
    <3> QED
      BY <3>1, <3>2 DEF Debt
  <2>16. ASSUME NEW u \in Slots \ finished PROVE InStep(u)'
    <3>1. u \in Range(slots) \ {Excluded(Top.how)} \/ kind[u] \in {"Ready", "Done"}
      <4>1. u \notin Range(slots) => kind[u] = "Ready"
        BY <2>3 DEF Times, Known
      <4>2. u = Excluded(Top.how) => kind[u] = "Ready"
        <5>1. u = Excluded(Top.how) => Excluded(Top.how) = run
          BY ExcludedFacts, SlotFacts
        <5> QED
          BY <2>1, <5>1, <1>ExcludedRuns DEF Times, Known
      <4> QED
        BY <4>1, <4>2
    <3>2. u \in Left' /\ kind[u] = "Ready" => u \in Left
      BY <2>1, <2>9 DEF Left
    <3>3. InStep(u)
      BY DEF Times, Timed
    <3> QED
      BY <2>1, <2>15, <3>1, <3>2, <3>3, <1>PassOneInStep
  <2>17. Timed'
    BY <2>1, <2>16 DEF Timed
  <2> QED
    BY <2>12, <2>13, <2>14, <2>17 DEF Times

\* bootstrap() resumes who has never run, before any clock cycle.
<1>BootResumeTimes. ASSUME Shape, Rest, Times, BootResume PROVE Times'
  <2> USE Zenon, <1>BootResumeTimes
  <2>1. /\ In("boot") /\ Top.i <= Len(slots)
        /\ UNCHANGED slots /\ UNCHANGED cycles /\ UNCHANGED timedOut
        /\ UNCHANGED finished /\ UNCHANGED wait
    BY DEF BootResume, BootSize
  <2> USE <2>1
  <2>2. /\ Len(stack) = 1 /\ DOMAIN stack = {1} /\ Top = stack[1] /\ Top.act = "boot"
        /\ \A u \in Slots : ~ Running(u)
    BY BootAhead
  <2>3. stack \in Seq(Frames) /\ stack # <<>> /\ slots \in Seq(Slots) /\ kind \in [Slots -> Kinds]
    BY DEF Shape, TypeOK, In
  <2> USE <2>3
  <2>4. Top.i \in Nat \ {0} /\ Top.i + 1 \in Nat \ {0}
    BY SMT, InFacts
  <2>5. PICK s \in Slots : s = slots[Top.i] /\ s \in Range(slots)
    <3>1. slots[Top.i] \in Slots /\ Top.i \in DOMAIN slots
      BY SMT, <2>4
    <3> QED
      BY <3>1 DEF Range
  <2>6. PICK b \in Frames : b = Boot(Top.i + 1) /\ b.act = "boot"
    BY <2>4, BootFacts DEF Frames
  <2>7. Run(s) \in Frames /\ Run(s).act = "run" /\ Run(s).slot = s
    BY <2>5, RunFacts DEF Frames
  <2> USE <2>6
  <2>8. \/ kind[s] = "Ready" /\ s \notin finished /\ SwapPush(b, Run(s)) /\ UNCHANGED kind
        \/ s \in finished /\ Swap(b) /\ kind' = [kind EXCEPT ![s] = "Done"]
        \/ kind[s] # "Ready" /\ Swap(b) /\ UNCHANGED kind
    BY <2>5 DEF BootResume
  <2>9. /\ stack' \in Seq(Frames) /\ stack' # <<>> /\ stack'[1] = b
        /\ \/ Len(stack') = 1 /\ DOMAIN stack' = {1}
           \/ /\ Len(stack') = 2 /\ DOMAIN stack' = {1, 2} /\ stack'[2] = Run(s)
              /\ Len(stack') - 1 = 1
              /\ kind[s] = "Ready" /\ s \notin finished /\ UNCHANGED kind
    <3>1. CASE Swap(b)
      <4>1. stack' \in Seq(Frames) /\ Len(stack') = 1 /\ stack'[1] = b
        BY <2>2, <3>1, SwapFacts
      <4> QED
        BY ONLY <4>1
    <3>2. CASE kind[s] = "Ready" /\ s \notin finished /\ SwapPush(b, Run(s)) /\ UNCHANGED kind
      <4>1. stack' \in Seq(Frames) /\ Len(stack') = 1 + 1 /\ stack'[1] = b /\ stack'[1 + 1] = Run(s)
        BY <2>2, <2>7, <3>2, SwapPushFacts
      <4> QED
        BY ONLY <3>2, <4>1
    <3> QED
      BY <2>8, <3>1, <3>2
  <2>10. \A u : Running(u)' => u = s /\ kind[s] = "Ready" /\ s \notin finished /\ UNCHANGED kind
    BY <2>7, <2>9 DEF Running
  <2>11. \A u \in Slots : u \notin Range(slots) \/ u \notin finished => kind'[u] = kind[u]
    BY <2>5, <2>8
  <2> USE <2>11
  <2>12. Known'
    BY <2>5, <2>10, <1>KnownKept DEF Times
  <2>13. Queued'
    BY <2>9, <1>QueuedKept DEF Times, SameBottom
  <2>14. Left' \subseteq Left
    <3> SUFFICES ASSUME NEW u \in Left' PROVE u \in Left
      OBVIOUS
    <3>1. u \in Range(slots) /\ kind'[u] = "Ready" /\ u \notin finished
      BY DEF Left
    <3>2. u \in Slots
      BY SMT, <3>1 DEF Range
    <3> QED
      BY <2>2, <3>2 DEF Left
  <2>15. \A u \in Left : wait[u] = NoWait
    <3>1. \A m \in 1 + 1 .. Len(stack) : FALSE
      BY SMT, <2>2
    <3> QED
      BY <2>2, <3>1 DEF Times, Fresh, LetsTimePass
  <2>16. Fresh'
    BY <2>14, <2>15 DEF Fresh
  <2>17. ~ Pending /\ ~ Pending'
    <3>1. ~ Pending
      BY <2>2, PendingNow
    <3>2. ~ Pending'
      BY <2>7, <2>9, PendingNext DEF Owes
    <3> QED
      BY <3>1, <3>2
  <2>18. Timed'
    BY <2>14, <2>17, <1>InStepKept DEF Times, Timed, Debt
  <2> QED
    BY <2>12, <2>13, <2>16, <2>18 DEF Times

\* Moving an element to the end repeats none.
<1>MoveLastOnce.
    ASSUME NEW S, NEW s \in Seq(S), NEW k \in 1 .. Len(s),
           \A i, j \in 1 .. Len(s) : s[i] = s[j] => i = j
    PROVE  LET t == SubSeq(s, 1, k - 1) \o SubSeq(s, k + 1, Len(s)) \o <<s[k]>>
           IN  \A i, j \in 1 .. Len(s) : t[i] = t[j] => i = j
  <2> USE <1>MoveLastOnce
  <2> DEFINE t == SubSeq(s, 1, k - 1) \o SubSeq(s, k + 1, Len(s)) \o <<s[k]>>
             h(i) == IF i = Len(s) THEN k ELSE IF i < k THEN i ELSE i + 1
  <2>1. Len(s) \in Nat /\ k \in Nat /\ k >= 1 /\ k <= Len(s)
    OBVIOUS
  <2>2. /\ \A i \in 1 .. Len(s) - 1 : t[i] = s[IF i < k THEN i ELSE i + 1]
        /\ t[Len(s)] = s[k]
    <3>1. s \in Seq(S) /\ k \in 1 .. Len(s)
      OBVIOUS
    <3> QED
      BY ONLY Zenon, <3>1, MoveLast
  <2> HIDE DEF t
  <2>3. \A i \in 1 .. Len(s) : t[i] = s[h(i)]
    <3>1. \A i \in 1 .. Len(s) : i = Len(s) \/ (i # Len(s) /\ i \in 1 .. Len(s) - 1)
      BY ONLY <2>1
    <3> QED
      BY Zenon, <2>2, <3>1
  <2>4. /\ \A i \in 1 .. Len(s) : h(i) \in 1 .. Len(s)
        /\ \A i, j \in 1 .. Len(s) : h(i) = h(j) => i = j
    BY ONLY <2>1
  <2> HIDE DEF h
  <2>5. \A i, j \in 1 .. Len(s) : t[i] = t[j] => i = j
    BY Zenon, <2>3, <2>4
  <2> QED
    BY Zenon, <2>5 DEF t

\* bootstrap() ends: the run coroutine's slot is behind the actors'.
<1>BootEndTimes. ASSUME Shape, Rest, Times, BootEnd PROVE Times'
  <2> USE Zenon, <1>BootEndTimes
  <2>1. /\ In("boot") /\ UNCHANGED kind /\ UNCHANGED cycles /\ UNCHANGED timedOut
        /\ UNCHANGED finished /\ UNCHANGED wait /\ Swap(Cycle("loop", "edge"))
    BY DEF BootEnd
  <2>2. /\ Len(stack) = 1 /\ DOMAIN stack = {1} /\ Top = stack[1] /\ Top.act = "boot"
        /\ \A u \in Slots : ~ Running(u)
    BY <2>1, BootAhead
  <2>3. stack \in Seq(Frames) /\ stack # <<>> /\ slots \in Seq(Slots)
    BY <2>1 DEF Shape, TypeOK, In
  <2>4. PICK c \in Frames : c = Cycle("loop", "edge") /\ c.act = "cycle" /\ c.at = "edge"
    BY SMT, CycleFacts DEF Frames
  <2>5. stack' # <<>> /\ DOMAIN stack' = {1} /\ stack'[1] = c /\ Len(stack') = 1
    <3>1. stack' \in Seq(Frames) /\ Len(stack') = 1 /\ stack'[1] = c
      BY <2>1, <2>2, <2>3, <2>4, SwapFacts
    <3>2. DOMAIN stack' = {1} /\ stack' # <<>>
      BY SMT, <3>1
    <3> QED
      BY <3>1, <3>2
  <2> USE <2>5
  <2>6. \A u : ~ Running(u)'
    BY <2>4 DEF Running
  <2>7. /\ Range(slots') = Range(slots)
        /\ \A i, j \in DOMAIN slots' : slots'[i] = slots'[j] => i = j
        /\ \A i, j \in DOMAIN slots' : slots'[i] = run /\ i < j => slots'[j] \in Tasks
    <3>1. CASE ~ Capsule /\ UNCHANGED slots
      BY <3>1 DEF Times, Queued
    <3>2. ASSUME NEW i \in DOMAIN slots, slots[i] = run,
                 slots' = SubSeq(slots, 1, i - 1) \o SubSeq(slots, i + 1, Len(slots)) \o <<run>>
          PROVE  /\ Range(slots') = Range(slots)
                 /\ \A k, j \in DOMAIN slots' : slots'[k] = slots'[j] => k = j
                 /\ \A k, j \in DOMAIN slots' : slots'[k] = run /\ k < j => slots'[j] \in Tasks
      <4>1. i \in 1 .. Len(slots) /\ DOMAIN slots = 1 .. Len(slots) /\ Len(slots) \in Nat
        BY SMT
      <4>2. \A k, j \in 1 .. Len(slots) : slots[k] = slots[j] => k = j
        BY <4>1 DEF Times, Queued
      <4> DEFINE t == SubSeq(slots, 1, i - 1) \o SubSeq(slots, i + 1, Len(slots)) \o <<slots[i]>>
      <4>3. t \in Seq(Slots) /\ Range(t) = Range(slots) /\ Len(t) = Len(slots) /\ t[Len(slots)] = slots[i]
        BY ONLY <2>3, <4>1, MoveLast, Zenon
      <4>4. \A k, j \in 1 .. Len(slots) : t[k] = t[j] => k = j
        BY ONLY <2>3, <4>1, <4>2, <1>MoveLastOnce, Zenon
      <4>5. slots' = t
        BY <3>2
      <4> HIDE DEF t
      <4>6. DOMAIN slots' = 1 .. Len(slots)
        BY ONLY <4>3, <4>5
      <4> USE <4>5
      <4>7. \A k, j \in DOMAIN slots' : slots'[k] = slots'[j] => k = j
        BY <4>4, <4>6
      <4>8. \A k, j \in DOMAIN slots' : k < j => k # Len(slots)
        BY ONLY <4>6
      <4>9. \A k \in DOMAIN slots' : slots'[k] = run => k = Len(slots)
        <5>1. Len(slots) \in DOMAIN slots'
          BY ONLY <4>6
        <5> QED
          BY <3>2, <4>3, <4>7, <5>1
      <4> QED
        BY <4>3, <4>7, <4>8, <4>9
    <3> QED
      BY <3>1, <3>2 DEF BootEnd
  <2> USE <2>7
  <2>8. Known'
    BY <2>1, <2>3, <2>6, <1>KnownKept DEF Times
  <2>9. Queued'
    BY DEF Times, Queued
  <2>10. Fresh'
    BY <2>4 DEF Fresh, LetsTimePass
  <2>11. Left' \subseteq Left
    <3>1. \A u \in Range(slots) : u \in Slots
      BY SMT, <2>3 DEF Range
    <3> QED
      BY <2>1, <2>2, <3>1 DEF Left
  <2>12. ~ Pending /\ ~ Pending'
    <3>1. ~ Pending
      BY <2>2, <2>3, PendingNow
    <3>2. ~ Pending'
      BY <2>4, PendingNext DEF Owes
    <3> QED
      BY <3>1, <3>2
  <2>13. Timed'
    BY <2>1, <2>11, <2>12, <1>InStepKept DEF Times, Timed, Debt
  <2> QED
    BY <2>8, <2>9, <2>10, <2>13 DEF Times

\* A tick that resumes the run coroutine has resumed all others.
<1>RunIsLast.
    ASSUME NoTaskInTick, Sites \cap {"qualified", "sync"} # {}, Shape, Shape', Rest, Rest',
           Queued, ResumeNext, Len(stack') = Len(stack) + 1, stack'[Len(stack) + 1] = Run(run), SameBottom
    PROVE  Left' = {}
  <2> USE Zenon, <1>RunIsLast
  <2>1. /\ stack' \in Seq(Frames) /\ stack'[Len(stack)].act = "tick"
        /\ \/ Len(stack') = Len(stack)
           \/ \E i \in 1 .. Len(slots) :
                 /\ stack'[Len(stack) + 1] = Run(slots[i])
                 /\ stack'[Len(stack)].at = "resume" /\ stack'[Len(stack)].i = i + 1
    BY ResumeFacts
  <2>2. Shape' /\ Shaped' /\ stack \in Seq(Frames) /\ slots \in Seq(Slots) /\ UNCHANGED slots
    BY DEF Shape, TypeOK, ResumeNext
  <2>3. Len(stack) \in DOMAIN stack' /\ Len(stack) > 1
    BY ResumeRuns
  <2> USE <2>2
  <2>4. PICK n \in Nat : n = Len(stack) /\ n > 1 /\ n + 1 # n /\ n + 1 # 2 /\ n + 1 \in 1 .. Len(stack')
    BY SMT, <2>3
  <2> USE <2>1, <2>4
  <2>5. PICK i \in 1 .. Len(slots) : /\ stack'[n + 1] = Run(slots[i])
                                     /\ stack'[n].at = "resume" /\ stack'[n].i = i + 1
    <3>1. Len(stack') # Len(stack)
      OBVIOUS
    <3> QED
      OBVIOUS
  <2>6. slots[i] \in Slots /\ i \in DOMAIN slots
    BY SMT
  <2> USE <2>5
  <2>7. slots[i] = run /\ Run(run).act = "run" /\ Run(run).slot = run
    <3>1. Run(slots[i]) = Run(run)
      OBVIOUS
    <3>2. Run(run).act = "run" /\ Run(run).slot = run
      BY SlotFacts, RunFacts
    <3>3. Run(slots[i]).slot = slots[i]
      BY <2>6, RunFacts
    <3> QED
      BY <3>2, <3>3
  <2> USE <2>7
  <2>8. stack' # <<>> /\ stack'[1].act = "cycle"
    <3>1. stack' # <<>> /\ Base(stack'[1])
      <4>1. stack' # <<>>
        BY SMT
      <4> QED
        BY <4>1 DEF Shaped, Base
    <3>2. stack'[1].act # "boot"
      <4>1. stack'[n + 1].act = "run" /\ stack'[n + 1].slot = run
        OBVIOUS
      <4>2. n + 1 = IF stack'[1].act = "boot" THEN 2 ELSE 3
        <5>1. Shape' => RunPlaced'
          BY RunPlaces, PTL
        <5> QED
          BY <5>1 DEF RunPlaced
      <4> QED
        BY <4>2
    <3> QED
      BY <3>1, <3>2 DEF Base
  <2>9. \A j \in DOMAIN slots : i < j => slots[j] \in Tasks
    BY <2>6, <2>8 DEF Queued, SameBottom
  <2>10. Range(slots) \cap Tasks = {}
    BY DEF Queued, NoTaskInTick
  <2>11. \A j \in DOMAIN slots : ~ i < j
    BY <2>9, <2>10 DEF Range
  <2>12. Left' \subseteq Ahead(stack[n])'
    <3>1. Covered'
      BY DEF Rest
    <3>2. \A m \in n + 1 .. Len(stack') : m = n + 1
      BY SMT
    <3>3. Innermost(n)'
      BY <3>2 DEF Innermost
    <3> QED
      BY <2>3, <3>1, <3>3 DEF Covered
  <2>13. PICK f : f = stack'[n]
    OBVIOUS
  <2> USE <2>13
  <2>14. Ahead(f)' = {}
    <3>1. Ahead(f)' = {slots'[j] : j \in (f.i .. Len(slots')) \ f.resumed}
      BY DEF Ahead
    <3>2. f.i .. Len(slots') = {}
      <4>1. f.i = i + 1 /\ DOMAIN slots = 1 .. Len(slots) /\ Len(slots) \in Nat /\ Len(slots') = Len(slots)
        BY SMT
      <4> QED
        BY ONLY <2>11, <4>1
    <3> QED
      BY <3>1, <3>2
  <2> QED
    BY <2>12, <2>14

\* A step inside a tick leaves the bottom of the stack alone.
<1>TickBottom.
    ASSUME Shape, In("tick"), \A k \in 1 .. Len(stack) - 1 : stack'[k] = stack[k]
    PROVE  SameBottom
  <2> USE <1>TickBottom
  <2>1. stack \in Seq(Frames) /\ Shaped
    BY Zenon DEF Shape, TypeOK
  <2> USE <2>1
  <2>2. PICK n \in 1 .. Len(stack) : n = Len(stack) /\ stack[n].act = "tick"
    BY InFacts
  <2>3. ~ Base(stack[n])
    BY Zenon, <2>2 DEF Base
  <2>4. n - 1 \in 1 .. Len(stack)
    BY Zenon, <2>3, Called
  <2>5. 1 \in 1 .. Len(stack) - 1
    BY <2>4
  <2> QED
    BY Zenon, <2>5 DEF SameBottom, In

\* Pass 2 of a tick.
<1>ResumeNextTimes.
    ASSUME NoTaskInTick, Shape, Shape', Rest, Rest', Times, ResumeNext
    PROVE  Times'
  <2> USE Zenon, <1>ResumeNextTimes
  <2>1. /\ In("tick") /\ UNCHANGED slots /\ UNCHANGED cycles /\ UNCHANGED timedOut
        /\ UNCHANGED finished /\ UNCHANGED wait
    BY DEF ResumeNext
  <2>2. /\ stack' \in Seq(Frames) /\ stack'[Len(stack)].act = "tick"
        /\ \A k \in 1 .. Len(stack) - 1 : stack'[k] = stack[k]
        /\ \A u \in Slots : u \notin finished \/ u \notin Range(slots) => kind'[u] = kind[u]
        /\ \/ Len(stack') = Len(stack)
           \/ \E i \in 1 .. Len(slots) :
                 /\ Len(stack') = Len(stack) + 1 /\ stack'[Len(stack) + 1] = Run(slots[i])
                 /\ kind[slots[i]] = "Ready" /\ slots[i] \notin finished
    BY ResumeFacts
  <2>3. /\ \A u : Running(u) => Running(u)'
        /\ \A u : Running(u)' => \/ Running(u)
                                 \/ Len(stack') = Len(stack) + 1 /\ stack'[Len(stack) + 1] = Run(u)
        /\ \A k \in DOMAIN stack' : \/ k = Len(stack')
                                    \/ /\ stack'[Len(stack)].act = "tick"
                                       /\ Len(stack) \in k .. Len(stack')
        /\ Len(stack) \in DOMAIN stack' /\ Len(stack) > 1
    BY ResumeRuns
  <2>4. stack \in Seq(Frames) /\ stack # <<>> /\ slots \in Seq(Slots)
    BY <2>1 DEF Shape, TypeOK, In
  <2>5. stack' # <<>>
    BY SMT, <2>3
  <2>6. \A u \in Slots : Running(u)' => Running(u) \/ u \in Left
    BY <2>3, ResumedLeft
  <2>7. Known'
    <3>1. \A u \in Slots : Running(u)' => kind[u] = "Ready" /\ u \notin finished /\ u \in Range(slots)
      BY <2>6 DEF Times, Known, Left
    <3> QED
      BY <2>1, <2>2, <2>4, <3>1, <1>KnownKept DEF Times
  <2>8. SameBottom
    BY <2>1, <2>2, <1>TickBottom
  <2>9. Queued'
    BY <2>1, <2>8, <1>QueuedKept DEF Times
  <2>10. \A u \in Range(slots) : u \in Slots
    BY SMT, <2>4 DEF Range
  <2>11. Left' \subseteq Left
    BY <2>1, <2>2, <2>3, <2>10 DEF Left
  <2>12. CASE Len(stack') = Len(stack)
    <3>1. stack'[Len(stack')].act = "tick"
      BY <2>2, <2>12
    <3> QED
      <4>1. Fresh'
        BY <2>2, <2>5, <3>1, <1>FreshInTick
      <4>2. ~ Pending /\ ~ Pending'
        BY <2>1, <2>5, <3>1, PendingNow, PendingNext DEF In
      <4>3. Timed'
        BY <2>1, <2>2, <2>11, <4>2, <1>InStepKept DEF Times, Timed, Debt
      <4> QED
        BY <2>7, <2>9, <4>1, <4>3 DEF Times
  <2>13. ASSUME NEW i \in 1 .. Len(slots),
                Len(stack') = Len(stack) + 1, stack'[Len(stack) + 1] = Run(slots[i])
         PROVE  Times'
    <3>1. PICK s \in Slots : s = slots[i] /\ Run(s).act = "run" /\ Run(s).slot = s
      <4>1. slots[i] \in Slots
        BY SMT, <2>4
      <4> QED
        BY <4>1, RunFacts
    <3>2. /\ stack'[Len(stack')] = Run(s) /\ stack'[Len(stack') - 1].act = "tick"
          /\ \A k \in DOMAIN stack' : k = Len(stack') \/ Len(stack) \in k .. Len(stack')
      <4>1. Len(stack') - 1 = Len(stack)
        BY SMT, <2>13
      <4> QED
        BY <2>2, <2>3, <2>13, <3>1, <4>1
    <3>3. ASSUME NEW k \in DOMAIN stack', LetsTimePass(stack[k])',
                 \A m \in k + 1 .. Len(stack') : stack'[m].act # "tick",
                 NEW u \in Left'
          PROVE  wait'[u] = NoWait
      <4>1. k = Len(stack')
        <5>1. k # Len(stack)
          BY <2>2, <3>3 DEF LetsTimePass
        <5>2. Len(stack) \notin k + 1 .. Len(stack')
          BY <2>2, <3>3
        <5> QED
          BY SMT, <3>2, <5>1, <5>2
      <4>2. s = run /\ Sites \cap {"qualified", "sync"} # {}
        BY <3>1, <3>2, <3>3, <4>1 DEF LetsTimePass
      <4>3. Left' = {}
        BY <2>8, <2>13, <3>1, <4>2, <1>RunIsLast DEF Times
      <4> QED
        BY <4>3
    <3>4. Fresh'
      BY <3>3 DEF Fresh
    <3>5. ~ Pending /\ ~ Pending'
      <4>1. ~ Pending
        BY <2>1, PendingNow DEF In
      <4>2. ~ Pending'
        BY <2>5, <3>1, <3>2, PendingNext DEF Owes
      <4> QED
        BY <4>1, <4>2
    <3>6. Timed'
      BY <2>1, <2>2, <2>11, <3>5, <1>InStepKept DEF Times, Timed, Debt
    <3> QED
      BY <2>7, <2>9, <3>4, <3>6 DEF Times
  <2> QED
    BY <2>2, <2>12, <2>13

\* The re-check ends waits whose countdown has not.
<1>RecheckTimes. ASSUME Shape, Rest, Times, Recheck PROVE Times'
  <2> USE Zenon, <1>RecheckTimes
  <2>1. /\ In("tick") /\ Top.at = "recheck" /\ UNCHANGED slots /\ UNCHANGED cycles
        /\ UNCHANGED finished /\ UNCHANGED wait
    BY DEF Recheck
  <2>2. /\ stack \in Seq(Frames) /\ slots \in Seq(Slots) /\ kind \in [Slots -> Kinds] /\ Shaped
        /\ SlotTypes
    BY TypeParts DEF Shape, TypeOK
  <2> USE <2>1, <2>2
  <2>3. /\ stack # <<>> /\ Top \in TickFrames /\ Top.act = "tick" /\ Top = stack[Len(stack)]
        /\ Len(stack) \in Nat \ {0}
    BY SMT, InFacts
  <2> USE <2>3
  <2>4. Left = {}
    BY TickAhead DEF Ahead
  <2>5. PICK woken :
            /\ \A u \in woken : u \in Range(slots) /\ kind[u] \in PredKinds
            /\ kind' = [s \in Slots |-> IF s \in woken THEN "Ready" ELSE kind[s]]
            /\ timedOut' = [s \in Slots |-> IF s \in woken /\ kind[s] = "WaitUntilTimeout"
                                            THEN FALSE ELSE timedOut[s]]
            /\ \/ Swap([Top EXCEPT !.at = "resume", !.i = 1, !.changed = FALSE])
               \/ woken = {} /\ Pop
    <3>1. PICK r \in ReadResumed(Top) :
            /\ kind' = [s \in Slots |-> IF s \in Woken(Top, r) THEN "Ready" ELSE kind[s]]
            /\ timedOut' = [s \in Slots |-> IF s \in Woken(Top, r) /\ kind[s] = "WaitUntilTimeout"
                                            THEN FALSE ELSE timedOut[s]]
            /\ IF AnotherRound(Top, Woken(Top, r))
               THEN Swap([Top EXCEPT !.at = "resume", !.i = 1, !.changed = FALSE])
               ELSE Pop
      BY DEF Recheck
    <3>2. \A u \in Woken(Top, r) : u \in Range(slots) /\ kind[u] \in PredKinds
      BY DEF Woken, Range
    <3>3. \/ Swap([Top EXCEPT !.at = "resume", !.i = 1, !.changed = FALSE])
          \/ Woken(Top, r) = {} /\ Pop
      BY <3>1 DEF AnotherRound
    <3> QED
      BY <3>1, <3>2, <3>3
  <2> USE <2>5
  <2>6. /\ stack' \in Seq(Frames) /\ stack' # <<>>
        /\ \A k \in 1 .. Len(stack) - 1 : stack'[k] = stack[k]
        /\ \A u : Running(u) <=> Running(u)'
        /\ ~ Pending'
        /\ stack'[Len(stack')].act = "tick" \/ woken = {}
    <3>1. CASE Swap([Top EXCEPT !.at = "resume", !.i = 1, !.changed = FALSE])
      <4>1. PICK g \in Frames : /\ g = [Top EXCEPT !.at = "resume", !.i = 1, !.changed = FALSE]
                                /\ g.act = "tick"
        BY RoundFacts DEF Frames
      <4> USE <4>1
      <4>2. Swap(g)
        BY <3>1
      <4>3. /\ stack' \in Seq(Frames) /\ Len(stack') = Len(stack)
            /\ \A i \in 1 .. Len(stack) - 1 : stack'[i] = stack[i]
            /\ stack'[Len(stack)] = g
        BY <4>2, SwapFacts
      <4>4. /\ \A k \in DOMAIN stack' : k = Len(stack) \/ (k \in DOMAIN stack /\ k \in 1 .. Len(stack) - 1)
            /\ \A k \in DOMAIN stack : k = Len(stack) \/ (k \in DOMAIN stack' /\ k \in 1 .. Len(stack) - 1)
            /\ stack' # <<>>
        <5>1. /\ Len(stack) \in Nat \ {0} /\ DOMAIN stack = 1 .. Len(stack)
              /\ DOMAIN stack' = 1 .. Len(stack)
          BY ONLY <2>2, <2>3, <4>3
        <5>2. stack' # <<>>
          BY ONLY <5>1
        <5> QED
          BY ONLY <5>1
      <4> USE <4>3, <4>4
      <4>5. \A u : Running(u) <=> Running(u)'
        BY DEF Running
      <4>6. ~ Pending'
        BY PendingNext
      <4> QED
        BY <4>5, <4>6
    <3>2. CASE woken = {} /\ Pop
      <4>1. /\ stack' \in Seq(Frames) /\ Len(stack') = Len(stack) - 1
            /\ \A i \in 1 .. Len(stack) - 1 : stack'[i] = stack[i]
        BY <3>2, PopFacts
      <4>2. ~ Base(stack[Len(stack)]) /\ Len(stack) \in 1 .. Len(stack)
        BY SMT DEF Base
      <4>3. Len(stack) - 1 \in 1 .. Len(stack) /\ Calls(stack[Len(stack) - 1], stack[Len(stack)])
        BY <4>2, Called
      <4>4. /\ \A k \in DOMAIN stack' : k \in DOMAIN stack /\ k \in 1 .. Len(stack) - 1
            /\ \A k \in DOMAIN stack : k = Len(stack) \/ (k \in DOMAIN stack' /\ k \in 1 .. Len(stack) - 1)
            /\ stack' # <<>> /\ Len(stack) - 1 \in 1 .. Len(stack) - 1
        <5>1. /\ Len(stack) \in Nat \ {0} /\ DOMAIN stack = 1 .. Len(stack)
              /\ DOMAIN stack' = 1 .. Len(stack) - 1 /\ Len(stack) - 1 \in 1 .. Len(stack)
          BY ONLY <2>2, <4>1, <4>3
        <5>2. stack' # <<>>
          BY ONLY <5>1
        <5> QED
          BY ONLY <5>1
      <4> USE <4>1, <4>4
      <4>5. \A u : Running(u) <=> Running(u)'
        BY DEF Running
      <4>6. ~ Pending'
        <5>1. PICK c : c = stack'[Len(stack')]
          OBVIOUS
        <5>2. c = stack[Len(stack) - 1]
          BY <5>1
        <5>3. c.act = "cycle" /\ ~ Owes(c)
          BY <4>3, <5>2 DEF Calls, Owes
        <5> QED
          BY <5>1, <5>3, PendingNext
      <4> QED
        BY <3>2, <4>5, <4>6
    <3> QED
      BY <3>1, <3>2
  <2>7. ~ Pending
    BY PendingNow
  <2> USE <2>6
  <2>8. Known'
    <3>1. \A u \in Slots : kind[u] = "Ready" \/ u \notin Range(slots) => kind'[u] = kind[u]
      OBVIOUS
    <3> QED
      BY <3>1 DEF Times, Known
  <2>9. Queued'
    BY <1>TickBottom, <1>QueuedKept DEF Times
  <2>10. \A u \in Range(slots) : u \in Slots
    BY SMT DEF Range
  <2>11. Left' \subseteq woken
    <3> SUFFICES ASSUME NEW u \in Left' PROVE u \in woken
      OBVIOUS
    <3>1. u \in Range(slots) /\ kind'[u] = "Ready" /\ u \notin finished /\ ~ Running(u)
      BY DEF Left
    <3>2. kind[u] # "Ready" /\ u \in Slots
      BY <2>4, <2>10 DEF Left
    <3> QED
      BY <3>1, <3>2
  <2>12. Fresh'
    <3>1. CASE stack'[Len(stack')].act = "tick"
      BY <3>1, <1>FreshInTick
    <3>2. CASE woken = {}
      BY <2>11, <3>2 DEF Fresh
    <3> QED
      BY <3>1, <3>2
  <2>13. ASSUME NEW u \in Slots, InStep(u) PROVE InStep(u)'
    <3>1. CASE u \in woken
      <4>1. /\ kind[u] \in {"WaitUntil", "WaitUntilTimeout"} /\ kind'[u] = "Ready" /\ wait'[u] = wait[u]
            /\ timedOut'[u] = IF kind[u] = "WaitUntilTimeout" THEN FALSE ELSE timedOut[u]
        BY <3>1 DEF PredKinds
      <4> USE <4>1
      <4>2. CASE kind[u] = "WaitUntil"
        <5>1. wait[u].on = "WaitUntil"
          BY <2>13, <4>2 DEF InStep
        <5>2. InTime(u)'
          BY SMT, <5>1 DEF InTime
        <5> QED
          BY SMT, <5>2 DEF InStep
      <4>3. CASE kind[u] = "WaitUntilTimeout"
        <5>1. /\ wait[u].on = "WaitUntilTimeout" /\ cycles[u] > 0
              /\ cycles[u] + wait[u].age = wait[u].n + 0
          BY <2>7, <2>13, <4>3 DEF InStep, Debt
        <5>2. cycles[u] \in Nat /\ wait[u].age \in Nat /\ wait[u].n \in Int
          BY SMT DEF SlotTypes, Waits
        <5>3. InTime(u)'
          BY SMT, <4>3, <5>1, <5>2 DEF InTime
        <5> QED
          BY SMT, <5>3 DEF InStep
      <4> QED
        BY <4>2, <4>3
    <3>2. CASE u \notin woken
      <4>1. kind'[u] = kind[u] /\ timedOut'[u] = timedOut[u]
        BY <3>2
      <4> QED
        BY <2>7, <2>11, <2>13, <3>2, <1>InStepKept DEF Debt
    <3> QED
      BY <3>1, <3>2
  <2>14. Timed'
    BY <2>13 DEF Times, Timed
  <2> QED
    BY <2>8, <2>9, <2>12, <2>14 DEF Times

\* The actors that the run coroutine registers have never waited.
<1>RegisterActorsTimes. ASSUME Shape, Shape', Rest, Times, RegisterActors PROVE Times'
  <2> USE <1>RegisterActorsTimes
  <2>1. /\ In("run") /\ Capsule /\ slots = <<run>>
        /\ slots' = slots \o [i \in Actors |-> i] /\ UNCHANGED kind /\ UNCHANGED cycles
        /\ UNCHANGED timedOut /\ UNCHANGED finished /\ UNCHANGED stack /\ UNCHANGED wait
    BY Zenon DEF RegisterActors
  <2>2. Shape' /\ stack \in Seq(Frames) /\ stack # <<>> /\ slots' \in Seq(Slots)
    BY Zenon, <2>1 DEF Shape, TypeOK, In
  <2>3. /\ NActors \in Nat /\ Actors = 1 .. NActors /\ Len(slots') = 1 + NActors /\ slots'[1] = run
        /\ \A i \in Actors : slots'[i + 1] = i
    <3>1. NActors \in Nat /\ Actors = 1 .. NActors
      BY ConstantsAssumption DEF Actors
    <3>2. [i \in Actors |-> i] \in Seq(Actors) /\ Len([i \in Actors |-> i]) = NActors
      BY <3>1
    <3> QED
      BY <2>1, <3>1
  <2> USE <2>2
  <2>4. CASE Actors \subseteq Range(slots)
    <3>1. Actors = {}
      BY <2>1, <2>4, SlotFacts DEF Range
    <3>2. NActors = 0
      BY <2>3, <3>1
    <3>3. UNCHANGED slots
      BY <2>1, <2>3, <3>2
    <3>4. UNCHANGED slotVars
      BY Zenon, <2>1, <3>3 DEF slotVars
    <3> QED
      BY Zenon, <2>1, <3>4, <1>SameTimes
  <2>5. CASE ~ Actors \subseteq Range(slots)
    <3>1. stack[1].act = "boot"
      BY Zenon, <2>1, <2>5 DEF Rest, Registered
    <3>2. \A j \in DOMAIN slots' : (j = 1 /\ slots'[j] = run) \/ (j - 1 \in Actors /\ slots'[j] = j - 1)
      <4>1. DOMAIN slots' = 1 .. 1 + NActors
        BY ONLY <2>3
      <4>2. \A j \in DOMAIN slots' : j = 1 \/ (j - 1 \in Actors /\ (j - 1) + 1 = j)
        BY ONLY <2>3, <4>1
      <4> QED
        BY Zenon, <2>3, <4>2
    <3>3. /\ \A i, j \in DOMAIN slots' : slots'[i] = slots'[j] => i = j
          /\ Range(slots') \cap Tasks = {}
      <4>1. \A j \in DOMAIN slots' : j \in Int /\ slots'[j] \notin Tasks
        <5>1. \A j \in Actors : j \notin Tasks
          BY ConstantsAssumption DEF Actors, Tasks, run
        <5>2. \A j \in DOMAIN slots' : j \in Int
          OBVIOUS
        <5> QED
          BY Zenon, <3>2, <5>1, <5>2, SlotFacts
      <4>2. Range(slots') \cap Tasks = {}
        BY Zenon, <4>1 DEF Range
      <4>3. ASSUME NEW i \in DOMAIN slots', NEW j \in DOMAIN slots', slots'[i] = slots'[j]
            PROVE  i = j
        <5>1. i \in Int /\ j \in Int /\ run \notin Actors
          BY Zenon, <4>1, SlotFacts
        <5> QED
          BY <3>2, <4>3, <5>1
      <4> QED
        BY Zenon, <4>2, <4>3
    <3>4. Queued'
      BY Zenon, <2>1, <3>1, <3>3 DEF Queued
    <3>5. Range(slots) \subseteq Range(slots') /\ \A u \in Range(slots') : u \in Slots
      <4>1. Range(slots) = {run} /\ 1 \in DOMAIN slots'
        BY <2>1, <2>3 DEF Range
      <4>2. \A u \in Range(slots') : u \in Slots
        BY DEF Range
      <4> QED
        BY Zenon, <2>3, <4>1, <4>2 DEF Range
    <3>6. \A u : Running(u) <=> Running(u)'
      BY <2>1 DEF Running
    <3>7. Known'
      BY Zenon, <2>1, <3>5, <3>6, <1>KnownKept DEF Times
    <3>8. \A u \in Left' : u \in Left \/ wait[u] = NoWait
      <4>1. \A u \in Left' : u \in Left \/ u \in Slots \ Range(slots)
        BY Zenon, <2>1, <3>5, <3>6 DEF Left
      <4> QED
        BY Zenon, <4>1 DEF Times, Known
    <3>9. SameLoops
      BY Zenon, <2>1 DEF SameLoops
    <3>10. Fresh'
      BY Zenon, <2>1, <3>8, <3>9, <1>FreshKept DEF Times
    <3>11. Pending' <=> Pending
      BY <2>1 DEF Pending, Owes, Top
    <3>12. Timed'
      BY Zenon, <2>1, <3>8, <3>11, <1>InStepKept DEF Times, Timed, Debt
    <3> QED
      BY Zenon, <3>4, <3>7, <3>10, <3>12 DEF Times
  <2> QED
    BY Zenon, <2>4, <2>5

\* A coroutine suspends or ends: nobody else is written.
<1>LeaveTimes.
    ASSUME Shape, Shape', Times, NEW s \in Slots, Segment(s), Pop, UNCHANGED slots,
           \A u \in Slots : u # s => /\ kind'[u] = kind[u] /\ cycles'[u] = cycles[u]
                                     /\ timedOut'[u] = timedOut[u] /\ wait'[u] = wait[u]
                                     /\ u \in finished' <=> u \in finished,
           s \in finished' \/ (InStep(s)' /\ kind'[s] # "Ready")
    PROVE  Times'
  <2> USE Zenon, <1>LeaveTimes
  <2>1. In("run") /\ Top.slot = s
    BY DEF Segment
  <2>2. /\ stack # <<>> /\ stack' # <<>> /\ stack \in Seq(Frames) /\ stack' \in Seq(Frames)
        /\ SameLoops
        /\ ~ Running(s)' /\ \A u \in Slots : Running(u)' => Running(u)
        /\ \A u \in Slots : u # s => (Running(u) <=> Running(u)')
        /\ \A k \in DOMAIN stack' : k \in DOMAIN stack /\ stack'[k] = stack[k]
        /\ Debt' = Debt
    BY <2>1, LeaveRuns
  <2>3. Running(s)
    <3>1. Len(stack) \in DOMAIN stack /\ Top = stack[Len(stack)] /\ Top.act = "run"
      BY ONLY <2>1, <2>2, InFacts
    <3> QED
      BY <2>1, <3>1 DEF Running
  <2>4. s \in Range(slots)
    BY <2>3 DEF Times, Known
  <2>5. Known'
    <3>1. \A u \in Slots : Running(u)' \/ u \notin Range(slots') => u # s
      BY <2>2, <2>4
    <3> QED
      BY <2>2, <3>1, <1>KnownKept DEF Times
  <2>6. Queued'
    BY <2>2, <1>Bottom, <1>QueuedKept DEF Times
  <2>7. \A u \in Left' : u \in Left /\ u \in Slots /\ u # s
    <3>1. slots \in Seq(Slots)
      BY DEF Shape, TypeOK
    <3>2. \A u \in Range(slots) : u \in Slots
      BY ONLY <3>1 DEF Range
    <3> QED
      BY <2>2, <3>2 DEF Left
  <2>8. Fresh'
    BY <2>2, <2>7, <1>FreshKept DEF Times
  <2>9. ASSUME NEW u \in Slots, u \notin finished' PROVE InStep(u)'
    <3>1. CASE u = s
      BY <2>9, <3>1
    <3>2. CASE u # s
      BY <2>2, <2>7, <2>9, <1>InStepKept DEF Times, Timed
    <3> QED
      BY <3>1, <3>2
  <2>10. Timed'
    BY <2>9 DEF Timed
  <2> QED
    BY <2>5, <2>6, <2>8, <2>10 DEF Times

\* A coroutine suspends.
<1>SuspendTimes. ASSUME NEW s \in Slots, Shape, Shape', Times, Suspend(s) PROVE Times'
  <2> USE Zenon, <1>SuspendTimes
  <2>1. Segment(s) /\ Pop /\ UNCHANGED slots /\ UNCHANGED finished /\ In("run")
    BY DEF Suspend, Segment
  <2>2. Shape' /\ SlotTypes
    BY TypeParts DEF Shape
  <2>3. PICK k \in Kinds \ {"Ready", "Done"}, n \in 0 .. MaxWait :
            /\ kind' = [kind EXCEPT ![s] = k]
            /\ IF k = "WaitUntil" THEN n = 0 /\ UNCHANGED cycles
               ELSE n > 0 /\ cycles' = [cycles EXCEPT ![s] = n]
            /\ timedOut' = [timedOut EXCEPT ![s] = IF k = "WaitUntilTimeout" THEN FALSE ELSE @]
            /\ wait' = [wait EXCEPT ![s] = [on |-> k, n |-> n, age |-> FirstAge]]
    BY DEF Suspend
  <2>4. /\ kind \in [Slots -> Kinds] /\ cycles \in [Slots -> 0 .. MaxWait]
        /\ timedOut \in [Slots -> BOOLEAN] /\ wait \in [Slots -> Waits]
    BY <2>2 DEF SlotTypes
  <2> USE <2>1
  <2>5. \A u \in Slots : u # s => /\ kind'[u] = kind[u] /\ cycles'[u] = cycles[u]
                                  /\ timedOut'[u] = timedOut[u] /\ wait'[u] = wait[u]
                                  /\ u \in finished' <=> u \in finished
    BY <2>3, <2>4
  <2>6. /\ kind'[s] = k /\ wait'[s] = [on |-> k, n |-> n, age |-> FirstAge]
        /\ k # "WaitUntil" => cycles'[s] = n /\ n > 0
        /\ k = "WaitUntil" => n = 0
    BY <2>3, <2>4
  <2>7. FirstAge = Debt' /\ Debt' \in {0, 1}
    <3>1. FirstAge = Debt /\ Debt' = Debt
      BY LeaveRuns DEF Segment
    <3> QED
      BY <3>1 DEF Debt
  <2> USE <2>6
  <2>8. s \notin Left' /\ k \in {"WaitUntil", "WaitUntilTimeout", "WaitCycles"}
    BY DEF Left, Kinds
  <2>9. wait'[s].on = k /\ wait'[s].n = n /\ wait'[s].age = Debt'
    BY ONLY <2>6, <2>7
  <2>10. InStep(s)'
    BY ONLY <2>6, <2>7, <2>8, <2>9 DEF InStep
  <2> QED
    BY <2>2, <2>5, <2>10, <1>LeaveTimes

\* A coroutine ends.
<1>FinishTimes. ASSUME NEW s \in Slots, Shape, Shape', Times, Finish(s) PROVE Times'
  <2> USE Zenon, <1>FinishTimes
  <2>1. /\ Segment(s) /\ Pop /\ UNCHANGED slots /\ finished' = finished \cup {s}
        /\ UNCHANGED cycles /\ UNCHANGED timedOut /\ wait' = [wait EXCEPT ![s] = NoWait]
    BY DEF Finish
  <2>2. \E k : kind' = [kind EXCEPT ![s] = k]
    BY DEF Finish
  <2>3. Shape' /\ kind \in [Slots -> Kinds] /\ wait \in [Slots -> Waits]
    BY TypeParts DEF Shape, SlotTypes
  <2> USE <2>1
  <2>4. \A u \in Slots : u # s => /\ kind'[u] = kind[u] /\ cycles'[u] = cycles[u]
                                  /\ timedOut'[u] = timedOut[u] /\ wait'[u] = wait[u]
                                  /\ u \in finished' <=> u \in finished
    BY <2>2, <2>3
  <2>5. s \in finished'
    OBVIOUS
  <2> QED
    BY <2>3, <2>4, <1>LeaveTimes

\* After the drive loop nothing is resumed.
<1>TeardownTimes. ASSUME Times, Teardown PROVE Times'
  <2> USE Zenon, <1>TeardownTimes
  <2>1. /\ stack = <<Cycle("loop", "edge")>> /\ stack' = <<>> /\ slots' = <<>>
        /\ UNCHANGED kind /\ UNCHANGED cycles /\ UNCHANGED timedOut
        /\ UNCHANGED finished /\ UNCHANGED wait
    BY DEF Teardown
  <2> USE <2>1
  <2>2. /\ DOMAIN stack' = {} /\ DOMAIN slots' = {} /\ stack # <<>> /\ Len(stack) = 1
        /\ stack[1] = Cycle("loop", "edge")
    BY SMT
  <2> USE <2>2
  <2>3. Range(slots') = {}
    BY DEF Range
  <2>4. Left' = {}
    BY <2>3 DEF Left
  <2>5. Known' /\ Queued' /\ Fresh'
    BY <2>3 DEF Known, Queued, Fresh, Running
  <2>6. Debt' = Debt
    <3>1. Top.act = "cycle" /\ Top.at = "edge"
      BY CycleFacts DEF Top
    <3>2. ~ Pending
      BY <3>1, PendingNow DEF Owes
    <3>3. ~ Pending'
      BY DEF Pending
    <3> QED
      BY <3>2, <3>3 DEF Debt
  <2>7. Timed'
    BY <2>4, <2>6, <1>InStepKept DEF Times, Timed
  <2> QED
    BY <2>5, <2>7 DEF Times

<1> USE Zenon
<1> SUFFICES ASSUME NoTaskInTick, Shape, Rest, Times, [Next]_vars PROVE Times'
  OBVIOUS
<1>0. Shape' /\ Rest'
  BY NextShape, NextRest
<1> USE <1>0
<1>1. CASE BootResume \/ BootEnd
  BY <1>1, <1>BootResumeTimes, <1>BootEndTimes
<1>2. CASE Edge \/ QualifiedOver \/ Services \/ Checkers
  BY <1>2, <1>EdgeTimes, <1>QualifiedOverTimes, <1>ServicesTimes, <1>CheckersTimes
<1>3. CASE TickStart \/ ResumeNext \/ Recheck
  BY <1>3, <1>TickStartTimes, <1>ResumeNextTimes, <1>RecheckTimes
<1>4. CASE RegisterActors \/ Teardown
  BY <1>4, <1>RegisterActorsTimes, <1>TeardownTimes
<1>5. ASSUME NEW s \in Slots, Suspend(s) \/ Finish(s) PROVE Times'
  BY <1>5, <1>SuspendTimes, <1>FinishTimes
<1>6. ASSUME NEW how \in {"qualified", "sync"}, RunCycles(how) PROVE Times'
  BY <1>6, <1>RunCyclesTimes
<1>7. CASE RaiseFatal \/ Over \/ UNCHANGED vars
  <2>1. UNCHANGED slotVars /\ UNCHANGED stack
    BY <1>7 DEF RaiseFatal, Over, vars, slotVars
  <2> QED
    BY <2>1, <1>SameTimes
<1> QED
  BY <1>1, <1>2, <1>3, <1>4, <1>5, <1>6, <1>7 DEF Next

\* The invariant that relates countdowns and ages.
LEMMA TimeInvariance == ASSUME NoTaskInTick PROVE Spec => []TimeInv
<1>1. Init => TimeInv
  BY Zenon, InitShape, InitRest, InitTimes DEF TimeInv, IInv, Rest
<1>2. TimeInv /\ [Next]_vars => TimeInv'
  BY Zenon, NextShape, NextRest, NextTimes DEF TimeInv, IInv, Rest
<1> QED
  BY <1>1, <1>2, PTL DEF Spec

\* Whoever the scheduler resumes was live, Ready and not running.
LEMMA ResumesLeft ==
    ASSUME Shape, Rest, [Next]_vars, NEW s \in Slots, Resumes(s)
    PROVE  s \in Left
<1> USE Zenon
<1>1. /\ Len(stack') > Len(stack) /\ stack'[Len(stack')] = Run(s)
      /\ In("tick") \/ In("boot")
  BY DEF Resumes
<1>2. stack \in Seq(Frames) /\ stack' \in Seq(Frames) /\ slots \in Seq(Slots) /\ Shape'
  BY NextShape DEF Shape, TypeOK
<1> USE <1>1
<1>3. Len(stack) \in Nat /\ Len(stack') # Len(stack) /\ Len(stack') # Len(stack) - 1
  BY SMT
<1>4. BootResume \/ BootEnd \/ ResumeNext \/ Recheck
  <2>1. Top.act \notin {"cycle", "run"} /\ stack # <<>>
    BY DEF In
  <2>2. stack' # stack
    BY <1>3
  <2>3. stack # <<Cycle("loop", "edge")>>
    <3>1. stack = <<Cycle("loop", "edge")>> => Top = Cycle("loop", "edge")
      BY SMT DEF Top
    <3> QED
      BY <2>1, <3>1, CycleFacts
  <2> QED
    BY <2>2, <2>3 DEF Next, Edge, QualifiedOver, Services, Checkers, TickStart,
       RegisterActors, Suspend, Finish, Segment, RunCycles, RaiseFatal, Teardown, Over,
       In, vars
<1>5. CASE BootResume
  <2>1. /\ Len(stack) = 1 /\ Top = stack[1] /\ \A u \in Slots : ~ Running(u)
        /\ In("boot") /\ Top.i <= Len(slots)
    BY <1>5, BootAhead DEF BootResume, BootSize
  <2>2. stack # <<>> /\ Top.i \in Nat \ {0} /\ Top.i + 1 \in Nat \ {0}
    BY ONLY <1>2, <2>1, InFacts
  <2>3. PICK u \in Slots : u = slots[Top.i] /\ u \in Range(slots)
    <3>1. slots[Top.i] \in Slots /\ Top.i \in DOMAIN slots
      BY SMT, <1>2, <2>1, <2>2
    <3> QED
      BY <3>1 DEF Range
  <2>4. PICK b \in Frames : b = Boot(Top.i + 1)
    BY <2>2, BootFacts DEF Frames
  <2>5. ~ Swap(b)
    BY <1>2, <1>3, <2>2, SwapFacts
  <2>6. kind[u] = "Ready" /\ u \notin finished /\ SwapPush(b, Run(u))
    BY <1>5, <2>3, <2>4, <2>5 DEF BootResume
  <2>7. Run(u) \in Frames /\ Run(u).slot = u /\ Run(s).slot = s
    BY RunFacts DEF Frames
  <2>8. stack'[Len(stack')] = Run(u)
    BY <1>2, <2>2, <2>6, <2>7, SwapPushFacts
  <2>9. u = s
    BY <2>7, <2>8
  <2> QED
    BY <2>1, <2>3, <2>6, <2>9 DEF Left
<1>6. CASE BootEnd
  <2>1. Swap(Cycle("loop", "edge")) /\ stack # <<>>
    BY <1>6 DEF BootEnd, In
  <2>2. Cycle("loop", "edge") \in Frames
    BY SMT, CycleFacts DEF Frames
  <2> QED
    BY <1>2, <1>3, <2>1, <2>2, SwapFacts
<1>7. CASE ResumeNext
  <2>1. Len(stack') = Len(stack) + 1
    BY <1>3, <1>7, ResumeFacts
  <2>2. stack'[Len(stack) + 1] = Run(s)
    BY <2>1
  <2> QED
    BY <1>2, <1>7, <2>1, ResumedLeft
<1>8. CASE Recheck
  <2>1. In("tick")
    BY <1>8 DEF Recheck
  <2>2. stack # <<>> /\ Top \in TickFrames
    BY <1>2, <2>1, InFacts
  <2>3. CASE Pop
    BY <1>2, <1>3, <2>2, <2>3, PopFacts
  <2>4. CASE Swap([Top EXCEPT !.at = "resume", !.i = 1, !.changed = FALSE])
    <3>1. PICK g \in Frames : g = [Top EXCEPT !.at = "resume", !.i = 1, !.changed = FALSE]
      BY <2>2, RoundFacts DEF Frames
    <3>2. Swap(g)
      BY <2>4, <3>1
    <3> QED
      BY <1>2, <1>3, <2>2, <3>2, SwapFacts
  <2> QED
    BY <1>8, <2>3, <2>4 DEF Recheck
<1> QED
  BY <1>4, <1>5, <1>6, <1>7, <1>8

\* `wait N cycles` resumes at exactly the N-th posedge that a tick follows, and a
\* timed wait at that one or before, for any numbers of actors and handlers, any
\* N and any nesting of the run coroutine's own cycles: provided no handler
\* suspends inside a tick.
THEOREM InTimeAlways == ASSUME NoTaskInTick PROVE Spec => WaitsInTime
<1> USE Zenon
<1>1. TimeInv /\ [Next]_vars => [\A s \in Slots : Resumes(s) => InTime(s)]_vars
  <2> SUFFICES ASSUME TimeInv, [Next]_vars, NEW s \in Slots, Resumes(s)
               PROVE  InTime(s)
    OBVIOUS
  <2>1. s \in Left
    BY ResumesLeft DEF TimeInv, IInv, Rest
  <2>2. s \notin finished
    BY <2>1 DEF Left
  <2> QED
    BY <2>1, <2>2 DEF TimeInv, Times, Timed, InStep
<1> QED
  BY <1>1, TimeInvariance, PTL DEF Spec, WaitsInTime

-----------------------------------------------------------------------------
\* One posedge at least between two resumptions, where the run coroutine makes
\* no qualified waits.

\* The only tick is then that of the drive loop.
LEMMA OneTick ==
    ASSUME "qualified" \notin Sites, Shape, NEW k \in 1 .. Len(stack), stack[k].act = "tick"
    PROVE  k = 2 /\ stack[1].act = "cycle"
<1> USE Zenon
<1>1. stack \in Seq(Frames) /\ Shaped
  BY DEF Shape, TypeOK
<1>2. ~ Base(stack[k])
  BY DEF Base
<1> USE <1>1
<1>3. k - 1 \in 1 .. Len(stack) /\ Calls(stack[k - 1], stack[k])
  BY <1>2, Called
<1>4. PICK j \in 1 .. Len(stack) : j = k - 1
  BY <1>3
<1>5. stack[j].act = "cycle" /\ stack[j].how # "sync" /\ stack[j] \in Frames
  <2>1. stack[j] \in Frames
    BY SMT
  <2> QED
    BY <1>3, <1>4, <2>1 DEF Calls
<1> USE <1>5
<1>6. stack[j].how \in {"loop", "qualified", "sync"}
  BY SMT, FrameKinds DEF CycleFrames
<1>7. stack[j].how = "loop"
  <2>1. CASE stack[j].how = "qualified"
    <3>1. ~ Base(stack[j])
      BY <2>1 DEF Base
    <3>2. Calls(stack[j - 1], stack[j])
      BY <3>1, Called
    <3> QED
      BY <3>2 DEF Calls
  <2> QED
    BY <1>6, <2>1
<1>8. j = 1
  BY <1>7, BaseFirst DEF Base
<1>9. k = 2
  BY SMT, <1>4, <1>8
<1> QED
  BY <1>8, <1>9

\* Nobody becomes Ready or suspends, except a coroutine that runs.
LEMMA RestedKept ==
    ASSUME Rested, SameLoops, UNCHANGED slots, slots \in Seq(Slots), Pending' => Pending,
           Left' \subseteq Left, \A u \in Left' : wait'[u] = wait[u],
           \A u \in Slots : Running(u)' => Running(u),
           \A u \in Slots \ finished' :
               \/ u \notin finished /\ kind'[u] = kind[u] /\ wait'[u] = wait[u]
               \/ Running(u) /\ (Pending => wait'[u].age > 0)
    PROVE  Rested'
<1>1. \A j \in DOMAIN slots : slots[j] \in Slots
  OBVIOUS
<1>2. \A u \in Left' : wait'[u] = NoWait \/ wait'[u].age > 0
  BY Zenon DEF Rested
<1>3. ASSUME Pending', NEW u \in Slots \ finished', kind'[u] \notin {"Ready", "Done"}
      PROVE  wait'[u].age > 0
  BY Zenon, <1>3 DEF Rested
<1>4. ASSUME NEW k \in DOMAIN stack', stack'[k].act = "tick",
             NEW j \in DOMAIN slots' \ stack'[k].resumed
      PROVE  /\ ~ Running(slots[j])'
             /\ kind'[slots'[j]] \in PredKinds /\ slots'[j] \notin finished'
                   => wait'[slots'[j]].age > 0
  <2>1. k \in DOMAIN stack /\ stack'[k] = stack[k]
    BY Zenon, <1>4 DEF SameLoops
  <2>2. PICK u \in Slots : u = slots[j] /\ u = slots'[j]
    BY Zenon, <1>1
  <2> USE <2>2
  <2>3. /\ ~ Running(u)
        /\ kind[u] \in PredKinds /\ u \notin finished => wait[u].age > 0
    BY Zenon, <1>4, <2>1 DEF Rested
  <2>4. ~ Running(u)'
    BY Zenon, <2>3
  <2>5. kind'[u] \in PredKinds /\ u \notin finished' => wait'[u].age > 0
    BY Zenon, <2>3
  <2>6. Running(slots[j])' <=> Running(u)'
    BY Zenon DEF Running
  <2> QED
    BY Zenon, <2>4, <2>5
<1> QED
  BY Zenon, <1>4 DEF Rested

\* The same outside ticks, where slots may be added.
LEMMA RestedOutside ==
    ASSUME Rested, \A k \in DOMAIN stack' : stack'[k].act # "tick", Pending' => Pending,
           \A u \in Left' : wait'[u] = NoWait \/ (u \in Left /\ wait'[u] = wait[u]),
           \A u \in Slots \ finished' : kind'[u] \notin {"Ready", "Done"} =>
               u \notin finished /\ kind'[u] = kind[u] /\ wait'[u] = wait[u]
    PROVE  Rested'
<1> USE Zenon
<1>1. \A u \in Left' : wait'[u] = NoWait \/ wait'[u].age > 0
  BY DEF Rested
<1>2. ASSUME Pending', NEW u \in Slots \ finished', kind'[u] \notin {"Ready", "Done"}
      PROVE  wait'[u].age > 0
  BY <1>2 DEF Rested
<1> QED
  BY DEF Rested

\* A step of a cycle that writes no slot.
LEMMA CalmRested ==
    ASSUME Shape, Rested, SameLoops, SameRuns, Pending' <=> Pending, UNCHANGED slotVars
    PROVE  Rested'
<1> USE Zenon
<1>1. /\ UNCHANGED slots /\ UNCHANGED kind /\ UNCHANGED finished /\ UNCHANGED wait
      /\ slots \in Seq(Slots)
  BY DEF slotVars, Shape, TypeOK
<1>2. Left' = Left
  BY <1>1, LeftKept
<1>3. \A u \in Slots : Running(u)' => Running(u)
  BY RunsKept
<1> QED
  BY <1>1, <1>2, <1>3, RestedKept

\* Steps that touch neither slots nor stack.
LEMMA SameRested ==
    ASSUME Shape, Rested, UNCHANGED slotVars, UNCHANGED stack
    PROVE  Rested'
<1>1. Pending' <=> Pending
  BY DEF Pending, Owes, Top
<1>2. SameLoops /\ SameRuns
  BY Zenon DEF SameLoops, SameRuns
<1> QED
  BY Zenon, <1>1, <1>2, CalmRested

\* After a posedge every wait has seen one.
LEMMA EdgeRested == ASSUME Shape, Rest, Times, Rested, Edge PROVE Rested'
<1>1. /\ In("cycle")
      /\ wait' = [s \in Slots |-> [wait[s] EXCEPT !.age =
                     IF @ > wait[s].n \/ Top.how = "sync" THEN @ ELSE @ + 1]]
      /\ UNCHANGED slots /\ UNCHANGED kind /\ UNCHANGED finished
  BY Zenon DEF Edge
<1>2. /\ slots \in Seq(Slots) /\ wait \in [Slots -> Waits] /\ cycles \in [Slots -> 0 .. MaxWait]
      /\ kind \in [Slots -> Kinds]
  BY Zenon, TypeParts DEF Shape, SlotTypes
<1>3. SameLoops /\ SameRuns /\ ~ Pending /\ (Pending' <=> Top.how # "sync")
  BY Zenon, EdgeQuiet
<1>4. \A u \in Slots :
         /\ wait'[u].age = IF wait[u].age > wait[u].n \/ Top.how = "sync" THEN wait[u].age
                           ELSE wait[u].age + 1
         /\ wait[u] = NoWait => wait'[u] = NoWait
         /\ wait[u].age \in Nat /\ wait[u].n \in Int
  <2> SUFFICES ASSUME NEW u \in Slots
               PROVE  /\ wait'[u].age = IF wait[u].age > wait[u].n \/ Top.how = "sync"
                                        THEN wait[u].age ELSE wait[u].age + 1
                      /\ wait[u] = NoWait => wait'[u] = NoWait
                      /\ wait[u].age \in Nat /\ wait[u].n \in Int
    BY Zenon
  <2>1. PICK w \in Waits : w = wait[u]
    BY <1>2
  <2>2. wait'[u] = [w EXCEPT !.age = IF w.age > w.n \/ Top.how = "sync" THEN w.age ELSE w.age + 1]
    BY Zenon, <1>1, <2>1
  <2>3. w = NoWait => w.age > w.n
    BY DEF NoWait
  <2> QED
    BY <2>1, <2>2, <2>3 DEF Waits
<1>5. Left' = Left /\ \A u \in Range(slots) : u \in Slots
  <2>1. Left' = Left
    BY Zenon, <1>1, <1>3, LeftKept
  <2>2. \A u \in Range(slots) : u \in Slots
    BY <1>2 DEF Range
  <2> QED
    BY Zenon, <2>1, <2>2
<1>6. \A u \in Left' : wait'[u] = NoWait
  <2>1. \A u \in Left : u \in Slots /\ wait[u] = NoWait
    BY Zenon, <1>1, <1>5, EdgeFresh DEF Times, Left
  <2> QED
    BY Zenon, <1>4, <1>5, <2>1
<1>7. ASSUME Top.how # "sync", NEW u \in Slots \ finished, kind[u] \notin {"Ready", "Done"}
      PROVE  wait'[u].age > 0
  <2>1. InStep(u)
    BY Zenon DEF Times, Timed
  <2>2. kind[u] \in {"WaitUntil", "WaitCycles", "WaitUntilTimeout"}
    BY <1>2, <1>7 DEF Kinds
  <2>3. wait[u].age > wait[u].n => wait[u].age > 0
    <3>1. CASE kind[u] = "WaitUntil"
      BY <2>1, <3>1 DEF InStep
    <3>2. CASE kind[u] \in {"WaitCycles", "WaitUntilTimeout"}
      <4>1. cycles[u] > 0 /\ cycles[u] + wait[u].age = wait[u].n + 0
        BY Zenon, <1>3, <2>1, <3>2 DEF InStep, Debt
      <4>2. cycles[u] \in Nat
        BY <1>2
      <4> QED
        BY <1>4, <4>1, <4>2
    <3> QED
      BY Zenon, <2>2, <3>1, <3>2
  <2> QED
    BY <1>4, <1>7, <2>3
<1>8. ASSUME NEW k \in DOMAIN stack', stack'[k].act = "tick",
             NEW j \in DOMAIN slots' \ stack'[k].resumed
      PROVE  /\ ~ Running(slots[j])'
             /\ kind'[slots'[j]] \in PredKinds /\ slots'[j] \notin finished'
                   => wait'[slots'[j]].age > 0
  <2>1. k \in DOMAIN stack /\ stack'[k] = stack[k]
    BY Zenon, <1>3, <1>8 DEF SameLoops
  <2>2. PICK u \in Slots : u = slots[j] /\ u = slots'[j]
    <3>1. slots[j] \in Slots
      BY <1>1, <1>2
    <3> QED
      BY Zenon, <1>1, <3>1
  <2>3. /\ ~ Running(u)
        /\ kind[u] \in PredKinds /\ u \notin finished => wait[u].age > 0
    BY Zenon, <1>1, <1>8, <2>1, <2>2 DEF Rested
  <2>4. wait[u].age > 0 => wait'[u].age > 0
    BY <1>4
  <2>5. Running(slots[j])' <=> Running(u)
    <3>1. Running(u)' <=> Running(u)
      BY Zenon, <1>3, RunsKept
    <3>2. Running(slots[j])' <=> Running(u)'
      BY Zenon, <2>2 DEF Running
    <3> QED
      BY Zenon, <3>1, <3>2
  <2> QED
    BY Zenon, <1>1, <2>2, <2>3, <2>4, <2>5
<1> QED
  BY Zenon, <1>1, <1>3, <1>6, <1>7, <1>8 DEF Rested

\* The drive loop's own cycle is alone on the stack.
LEMMA LoopAlone ==
    ASSUME Shape, In("cycle"), Top.how \in {"qualified", "sync"} => Top.how \notin Sites
    PROVE  Len(stack) = 1 /\ DOMAIN stack = {1} /\ stack[1] = Top /\ Top.how = "loop"
<1> USE Zenon
<1>1. stack \in Seq(Frames) /\ Shaped
  BY DEF Shape, TypeOK
<1> USE <1>1
<1>2. /\ stack # <<>> /\ Top \in CycleFrames /\ Top.act = "cycle" /\ Top = stack[Len(stack)]
      /\ Len(stack) \in 1 .. Len(stack)
  BY SMT, InFacts
<1> USE <1>2
<1>3. PICK n \in 1 .. Len(stack) : n = Len(stack)
  OBVIOUS
<1>4. Top.how \in {"loop", "qualified", "sync"}
  BY SMT DEF CycleFrames
<1> USE <1>3
<1>5. Top.how = "loop"
  <2>1. CASE Top.how \in {"qualified", "sync"}
    <3>1. ~ Base(stack[n])
      BY <2>1 DEF Base
    <3>2. Calls(stack[n - 1], stack[n])
      BY <3>1, Called
    <3> QED
      BY <3>2 DEF Calls
  <2> QED
    BY <1>4, <2>1
<1>6. n = 1
  BY <1>5, BaseFirst DEF Base
<1>7. Len(stack) = 1
  BY <1>6
<1>8. DOMAIN stack = {1}
  BY ONLY <1>7
<1> QED
  BY <1>5, <1>7, <1>8

\* A handler starts a coroutine outside the ticks.
LEMMA StartTaskRested ==
    ASSUME NoTaskInTick, Shape, Rested, NEW site \in {"post_eval", "checker"},
           In("cycle"), Top.at \in {"services", "checkers"}, StartTask(site)
    PROVE  Rested'
<1> USE Zenon
<1>1. stack \in Seq(Frames) /\ slots \in Seq(Slots)
  BY DEF Shape, TypeOK
<1>2. site \in Sites /\ UNCHANGED kind /\ UNCHANGED finished /\ UNCHANGED wait
  BY DEF StartTask
<1>3. Len(stack) = 1 /\ DOMAIN stack = {1} /\ stack[1] = Top /\ Top.act = "cycle" /\ stack # <<>>
  <2>1. Top.how \in {"qualified", "sync"} => Top.how \notin Sites
    BY <1>2 DEF NoTaskInTick
  <2> QED
    BY <2>1, LoopAlone DEF In
<1>4. PICK s \in Tasks : slots' = Append(slots, s) /\ Push(Run(s))
  BY DEF StartTask
<1>5. s \in Slots /\ Run(s) \in Frames /\ Run(s).act = "run" /\ Run(s).slot = s
  BY <1>4, SlotFacts, RunFacts DEF Frames
<1> USE <1>3
<1>6. stack' # <<>> /\ Len(stack') = 2 /\ DOMAIN stack' = {1, 2} /\ stack'[1] = Top /\ stack'[2] = Run(s)
  <2>1. /\ stack' \in Seq(Frames) /\ Len(stack') = 1 + 1
        /\ \A i \in 1 .. 1 : stack'[i] = stack[i]
        /\ stack'[1 + 1] = Run(s)
    BY <1>1, <1>4, <1>5, PushFacts
  <2>2. stack'[1] = stack[1] /\ DOMAIN stack' = 1 .. 2 /\ Len(stack') = 2 /\ stack'[2] = Run(s)
    BY ONLY <2>1
  <2>3. stack' # <<>> /\ DOMAIN stack' = {1, 2}
    BY ONLY <2>2
  <2> QED
    BY <2>2, <2>3
<1>7. \A k \in DOMAIN stack' : stack'[k].act # "tick"
  BY <1>5, <1>6
<1>8. Left' \subseteq Left
  <2>1. Range(slots') \subseteq Range(slots) \cup {s}
    <3>1. \A j \in DOMAIN slots' : slots'[j] = s \/ (j \in DOMAIN slots /\ slots'[j] = slots[j])
      BY SMT, <1>1, <1>4
    <3> QED
      BY <3>1 DEF Range
  <2>2. Running(s)' /\ \A u : Running(u) => Running(u)'
    BY <1>5, <1>6 DEF Running
  <2> QED
    BY <1>2, <2>1, <2>2 DEF Left
<1>9. Pending' => Pending
  <2>1. Pending <=> Owes(Top)
    BY PendingNow
  <2>2. stack'[Len(stack')] = Run(s) /\ stack'[Len(stack') - 1] = Top
    BY ONLY <1>6
  <2>3. Pending' <=> Owes(stack'[1])
    BY <1>5, <1>6, <2>2, PendingNext
  <2> QED
    BY <1>6, <2>1, <2>3
<1> QED
  BY <1>2, <1>7, <1>8, <1>9, RestedOutside

\* The steps of a cycle, and the beginning of one of the run coroutine's own.
LEMMA CycleRested ==
    ASSUME NoTaskInTick, Shape, Rest, Times, Rested,
           \/ Edge \/ QualifiedOver \/ Services \/ Checkers
           \/ \E how \in {"qualified", "sync"} : RunCycles(how)
    PROVE  Rested'
<1> USE Zenon
<1>1. CASE Edge
  BY <1>1, EdgeRested
<1>2. CASE QualifiedOver
  <2>1. UNCHANGED slotVars
    BY <1>2 DEF QualifiedOver
  <2> QED
    BY <1>2, <2>1, QualifiedOverQuiet, CalmRested
<1>3. CASE Services
  <2>1. In("cycle") /\ Top.at = "services"
    BY <1>3 DEF Services
  <2>2. CASE StartTask("post_eval")
    BY <2>1, <2>2, StartTaskRested
  <2>3. CASE Swap([Top EXCEPT !.at = AfterServices(Top.how)]) /\ UNCHANGED <<slotVars, holds, fatal>>
    BY <2>1, <2>3, ServicesQuiet, CalmRested
  <2> QED
    BY <1>3, <2>2, <2>3 DEF Services
<1>4. CASE Checkers
  <2>1. In("cycle") /\ Top.at = "checkers"
    BY <1>4 DEF Checkers
  <2>2. CASE StartTask("checker")
    BY <2>1, <2>2, StartTaskRested
  <2>3. ASSUME UNCHANGED <<slotVars, holds, fatal>>,
               IF Top.how = "loop" THEN Swap(Cycle("loop", "edge"))
               ELSE stack' = [Callers EXCEPT ![Len(stack) - 1].abort = Top.owed]
        PROVE  Rested'
    BY <2>1, <2>3, CheckersQuiet, CalmRested
  <2> QED
    BY <1>4, <2>2, <2>3 DEF Checkers
<1>5. ASSUME NEW how \in {"qualified", "sync"}, RunCycles(how) PROVE Rested'
  <2>1. UNCHANGED slotVars
    BY <1>5 DEF RunCycles
  <2> QED
    BY <1>5, <2>1, RunCyclesQuiet, CalmRested
<1> QED
  BY <1>1, <1>2, <1>3, <1>4, <1>5

\* A tick begins: it has resumed nobody, and every wait has seen its posedge.
LEMMA TickStartRested ==
    ASSUME "qualified" \notin Sites, Shape, Rested, TickStart
    PROVE  Rested'
<1> USE Zenon
<1>1. /\ In("cycle") /\ Top.at = "tick" /\ PassOne(Excluded(Top.how))
      /\ UNCHANGED slots /\ UNCHANGED finished /\ UNCHANGED wait
  BY DEF TickStart
<1>2. stack \in Seq(Frames) /\ slots \in Seq(Slots) /\ kind \in [Slots -> Kinds]
  BY DEF Shape, TypeOK
<1>3. stack # <<>> /\ Top \in CycleFrames /\ Top.act = "cycle"
  BY SMT, <1>1, <1>2, InFacts
<1>4. Top.how # "sync"
  BY SMT, <1>1, <1>3 DEF CycleFrames
<1>5. Len(stack) = 1 /\ DOMAIN stack = {1} /\ stack[1] = Top
  BY <1>1, <1>4, LoopAlone
<1>6. PICK next \in {"edge", "checkers"} :
           SwapPush([Top EXCEPT !.at = next], Tick(Excluded(Top.how)))
  BY DEF TickStart
<1>7. PICK c \in Frames : c.act = "cycle" /\ c = [Top EXCEPT !.at = next]
  <2>1. next \in {"edge", "services", "tick", "checkers"} /\ next # "tick"
    BY SMT, <1>6
  <2> QED
    BY <1>3, <2>1, AtFacts DEF Frames
<1>8. PICK t \in Frames : t = Tick(Excluded(Top.how)) /\ t.act = "tick"
  BY <1>2, ExcludedFacts, TickFacts DEF Frames
<1>9. stack' # <<>> /\ Len(stack') = 2 /\ DOMAIN stack' = {1, 2} /\ stack'[1] = c /\ stack'[2] = t
  <2>1. SwapPush(c, t)
    BY <1>6, <1>7, <1>8
  <2>2. /\ stack' \in Seq(Frames) /\ Len(stack') = 1 + 1 /\ stack'[1] = c /\ stack'[1 + 1] = t
    BY <1>2, <1>3, <1>5, <2>1, SwapPushFacts
  <2> QED
    BY ONLY <2>2
<1> USE <1>9
<1>10. \A u : ~ Running(u) /\ ~ Running(u)'
  BY <1>3, <1>5, <1>7, <1>8 DEF Running
<1>11. Pending /\ ~ Pending'
  <2>1. Pending
    BY <1>1, <1>3, <1>4, PendingNow DEF Owes
  <2>2. ~ Pending'
    BY <1>8, PendingNext
  <2> QED
    BY <2>1, <2>2
<1>12. \A u \in Slots : kind'[u] = kind[u] \/ (kind'[u] = "Ready" /\ kind[u] \notin {"Ready", "Done"})
  <2>1. \A u \in Slots : kind'[u] = kind[u] \/ (kind'[u] = "Ready" /\ PassOneReady(u))
    BY <1>1 DEF PassOne
  <2>2. \A u \in Slots : PassOneReady(u) => kind[u] \notin {"Ready", "Done"}
    BY SMT, <1>2 DEF PassOneReady, PredKinds
  <2> QED
    BY <2>1, <2>2
<1>13. \A u \in Range(slots) : u \in Slots
  BY SMT, <1>2 DEF Range
<1>14. \A u \in Left' : wait'[u] = NoWait \/ wait'[u].age > 0
  <2> SUFFICES ASSUME NEW u \in Left' PROVE wait[u] = NoWait \/ wait[u].age > 0
    BY <1>1
  <2>1. u \in Slots \ finished /\ u \in Range(slots) /\ kind'[u] = "Ready"
    BY <1>1, <1>13 DEF Left
  <2>2. CASE kind[u] = "Ready"
    BY <1>10, <2>1, <2>2 DEF Left, Rested
  <2>3. CASE kind[u] \notin {"Ready", "Done"}
    BY <1>11, <2>1, <2>3 DEF Rested
  <2> QED
    BY <1>12, <2>1, <2>2, <2>3
<1>15. ASSUME NEW j \in DOMAIN slots', kind'[slots'[j]] \in PredKinds, slots'[j] \notin finished'
       PROVE  wait'[slots'[j]].age > 0
  <2>1. PICK u : u = slots[j] /\ u = slots'[j]
    BY <1>1
  <2>2. u \in Slots /\ kind'[u] # "Ready" /\ kind'[u] # "Done"
    BY SMT, <1>1, <1>2, <1>15, <2>1 DEF PredKinds
  <2> QED
    BY <1>1, <1>11, <1>12, <1>15, <2>1, <2>2 DEF Rested
<1>16. \A j : ~ Running(slots[j])'
  BY <1>7, <1>8 DEF Running
<1> QED
  BY <1>11, <1>14, <1>15, <1>16 DEF Rested

\* bootstrap() runs outside the ticks.
LEMMA BootRested ==
    ASSUME Shape, Shape', Rest, Times, Rested, BootResume \/ BootEnd
    PROVE  Rested'
<1>1. In("boot") /\ UNCHANGED finished /\ UNCHANGED wait
  BY Zenon DEF BootResume, BootEnd
<1> USE <1>1
<1>2. /\ Len(stack) = 1 /\ DOMAIN stack = {1} /\ Top = stack[1] /\ Top.act = "boot"
      /\ \A u \in Slots : ~ Running(u)
  BY Zenon, BootAhead
<1>3. /\ stack \in Seq(Frames) /\ stack # <<>> /\ slots \in Seq(Slots) /\ kind \in [Slots -> Kinds]
      /\ Shape' /\ stack' \in Seq(Frames) /\ slots' \in Seq(Slots)
  BY Zenon DEF Shape, TypeOK, In
<1>4. Top.i \in Nat \ {0} /\ Top.i + 1 \in Nat \ {0}
  BY <1>3, InFacts
<1>5. PICK f \in Frames : /\ f.act \in {"boot", "cycle"} /\ ~ Owes(f)
                          /\ \/ Swap(f)
                             \/ \E s \in Slots : SwapPush(f, Run(s))
  <2>1. CASE BootResume
    <3>1. Boot(Top.i + 1) \in Frames /\ Boot(Top.i + 1).act = "boot"
      BY Zenon, <1>4, BootFacts DEF Frames
    <3>2. slots[Top.i] \in Slots
      <4>1. Top.i <= Len(slots)
        BY Zenon, <2>1 DEF BootResume, BootSize
      <4> QED
        BY <1>3, <1>4, <4>1
    <3> QED
      BY Zenon, <2>1, <3>1, <3>2 DEF BootResume, Owes
  <2>2. CASE BootEnd
    <3>1. /\ Cycle("loop", "edge") \in Frames /\ Cycle("loop", "edge").act = "cycle"
          /\ Cycle("loop", "edge").at = "edge"
      BY CycleFacts DEF Frames
    <3> QED
      BY Zenon, <2>2, <3>1 DEF BootEnd, Owes
  <2> QED
    BY Zenon, <2>1, <2>2
<1> USE <1>5
<1>6. /\ stack' # <<>> /\ stack'[1] = f
      /\ \/ Len(stack') = 1 /\ DOMAIN stack' = {1}
         \/ \E s \in Slots : Len(stack') = 2 /\ DOMAIN stack' = {1, 2} /\ stack'[2] = Run(s)
  <2>1. CASE Swap(f)
    <3>1. stack' \in Seq(Frames) /\ Len(stack') = 1 /\ stack'[1] = f
      BY Zenon, <1>2, <1>3, <2>1, SwapFacts
    <3>2. DOMAIN stack' = {1}
      BY ONLY <3>1
    <3>3. stack' # <<>>
      BY ONLY <3>2
    <3> QED
      BY Zenon, <3>1, <3>2, <3>3
  <2>2. ASSUME NEW s \in Slots, SwapPush(f, Run(s))
        PROVE  stack' # <<>> /\ stack'[1] = f /\ Len(stack') = 2 /\ DOMAIN stack' = {1, 2} /\ stack'[2] = Run(s)
    <3>1. Run(s) \in Frames
      BY Zenon, RunFacts DEF Frames
    <3>2. stack' \in Seq(Frames) /\ Len(stack') = 1 + 1 /\ stack'[1] = f /\ stack'[1 + 1] = Run(s)
      BY Zenon, <1>2, <1>3, <2>2, <3>1, SwapPushFacts
    <3> QED
      BY ONLY <3>2
  <2> QED
    BY Zenon, <2>1, <2>2
<1> USE <1>6
<1>7. \A k \in DOMAIN stack' : stack'[k].act # "tick"
  BY Zenon, RunFacts
<1>8. ~ Pending'
  <2>1. CASE Len(stack') = 1
    BY Zenon, <2>1, PendingNext
  <2>2. ASSUME NEW s \in Slots, Len(stack') = 2, stack'[2] = Run(s) PROVE ~ Pending'
    <3>1. Len(stack') - 1 = 1
      BY <2>2
    <3> QED
      BY Zenon, <2>2, <3>1, RunFacts, PendingNext
  <2> QED
    BY Zenon, <2>1, <2>2
<1>9. \A u \in Left' : u \in Left
  <2>1. \A u \in Slots : kind'[u] = "Ready" => kind[u] = "Ready"
    <3>1. UNCHANGED kind \/ \E s \in Slots : kind' = [kind EXCEPT ![s] = "Done"]
      <4>1. CASE BootResume
        <5>1. slots[Top.i] \in Slots
          <6>1. Top.i <= Len(slots)
            BY Zenon, <4>1 DEF BootResume, BootSize
          <6> QED
            BY <1>3, <1>4, <6>1
        <5> QED
          BY Zenon, <4>1, <5>1 DEF BootResume
      <4>2. CASE BootEnd
        BY Zenon, <4>2 DEF BootEnd
      <4> QED
        BY Zenon, <4>1, <4>2
    <3> QED
      BY <1>3, <3>1
  <2>2. Range(slots') = Range(slots)
    <3>1. CASE BootResume
      BY Zenon, <3>1 DEF BootResume
    <3>2. CASE BootEnd
      <4>1. ASSUME NEW i \in DOMAIN slots, slots[i] = run,
                   slots' = SubSeq(slots, 1, i - 1) \o SubSeq(slots, i + 1, Len(slots)) \o <<run>>
            PROVE  Range(slots') = Range(slots)
        <5>1. i \in 1 .. Len(slots)
          BY <1>3
        <5> DEFINE t == SubSeq(slots, 1, i - 1) \o SubSeq(slots, i + 1, Len(slots)) \o <<slots[i]>>
        <5>2. Range(t) = Range(slots)
          BY ONLY <1>3, <5>1, MoveLast, Zenon
        <5>3. slots' = t
          BY Zenon, <4>1
        <5> HIDE DEF t
        <5> QED
          BY Zenon, <5>2, <5>3
      <4> QED
        BY Zenon, <3>2, <4>1 DEF BootEnd
    <3> QED
      BY Zenon, <3>1, <3>2
  <2>3. \A u \in Range(slots) : u \in Slots
    BY <1>3 DEF Range
  <2> QED
    BY Zenon, <1>2, <2>1, <2>2, <2>3 DEF Left
<1>10. /\ \A u \in Left' : wait'[u] = NoWait \/ wait'[u].age > 0
  BY Zenon, <1>9 DEF Rested
<1> QED
  BY Zenon, <1>7, <1>8, <1>10 DEF Rested

\* Pass 2: whoever it resumes is not looked at again.
LEMMA ResumeNextRested ==
    ASSUME "qualified" \notin Sites, Shape, Rest, Times, Rested, ResumeNext
    PROVE  Rested'
<1>1. In("tick") /\ UNCHANGED slots /\ UNCHANGED finished /\ UNCHANGED wait
  BY Zenon DEF ResumeNext
<1>2. stack \in Seq(Frames) /\ slots \in Seq(Slots) /\ stack # <<>>
  BY Zenon, <1>1 DEF Shape, TypeOK, In
<1>3. /\ stack' \in Seq(Frames) /\ stack[Len(stack)].act = "tick" /\ stack'[Len(stack)].act = "tick"
      /\ \A k \in 1 .. Len(stack) - 1 : stack'[k] = stack[k]
      /\ stack[Len(stack)].resumed \subseteq stack'[Len(stack)].resumed
      /\ \A u \in Slots : u \notin finished \/ u \notin Range(slots) => kind'[u] = kind[u]
      /\ \/ Len(stack') = Len(stack)
         \/ \E i \in 1 .. Len(slots) :
               /\ Len(stack') = Len(stack) + 1 /\ stack'[Len(stack) + 1] = Run(slots[i])
               /\ i \in stack'[Len(stack)].resumed
  BY Zenon, ResumeFacts
<1>4. /\ \A u : Running(u) => Running(u)'
      /\ \A u : Running(u)' => \/ Running(u)
                               \/ Len(stack') = Len(stack) + 1 /\ stack'[Len(stack) + 1] = Run(u)
  BY Zenon, ResumeRuns
<1>5. Len(stack) = 2 /\ stack[1].act # "tick"
  <2>1. Len(stack) \in 1 .. Len(stack) /\ 1 \in 1 .. Len(stack)
    BY <1>2
  <2>2. Len(stack) = 2
    BY Zenon, <1>3, <2>1, OneTick
  <2>3. stack[1].act = "tick" => 1 = 2
    BY Zenon, <2>1, OneTick
  <2> QED
    BY <2>2, <2>3
<1>6. \A k \in DOMAIN stack' : k \in {1, 2, 3} /\ (k = 3 => Len(stack') = 3)
  <2>1. DOMAIN stack' = 1 .. Len(stack')
    BY ONLY <1>3
  <2>2. Len(stack') = 2 \/ Len(stack') = 3
    BY ONLY <1>3, <1>5
  <2> QED
    BY ONLY <2>1, <2>2
<1>7. \A u \in Range(slots) : u \in Slots
  BY <1>2 DEF Range
<1>8. \A j \in DOMAIN slots : slots[j] \in Range(slots) /\ slots[j] \in Slots
  BY Zenon, <1>7 DEF Range
<1>9. Left' \subseteq Left
  BY Zenon, <1>1, <1>3, <1>4, <1>7 DEF Left
<1>10. ~ Pending'
  <2>1. stack' # <<>>
    BY <1>3, <1>5
  <2>2. CASE Len(stack') = Len(stack)
    BY Zenon, <1>3, <2>1, <2>2, PendingNext
  <2>3. ASSUME NEW i \in 1 .. Len(slots),
               Len(stack') = Len(stack) + 1, stack'[Len(stack) + 1] = Run(slots[i])
        PROVE  ~ Pending'
    <3>1. Len(stack') - 1 = Len(stack) /\ slots[i] \in Slots
      BY <1>2, <2>3
    <3>2. stack'[Len(stack')].act = "run" /\ stack'[Len(stack') - 1].act = "tick"
      <4>1. Run(slots[i]).act = "run"
        BY Zenon, <3>1, RunFacts
      <4>2. stack'[Len(stack')] = Run(slots[i])
        BY Zenon, <2>3
      <4>3. stack'[Len(stack') - 1] = stack'[Len(stack)]
        BY Zenon, <3>1
      <4> QED
        BY Zenon, <1>3, <4>1, <4>2, <4>3
    <3> QED
      BY Zenon, <2>1, <3>2, PendingNext DEF Owes
  <2> QED
    BY Zenon, <1>3, <2>2, <2>3
<1>11. ASSUME NEW k \in DOMAIN stack', stack'[k].act = "tick" PROVE k = 2
  <2>1. k # 1
    <3>1. 1 \in 1 .. Len(stack) - 1
      BY <1>5
    <3> QED
      BY Zenon, <1>3, <1>5, <1>11, <3>1
  <2>2. k # 3
    <3> SUFFICES ASSUME k = 3 PROVE FALSE
      BY Zenon
    <3>1. Len(stack) + 1 = 3 /\ Len(stack') # Len(stack)
      BY <1>5, <1>6
    <3>2. PICK i \in 1 .. Len(slots) : stack'[3] = Run(slots[i])
      BY Zenon, <1>3, <3>1
    <3>3. slots[i] \in Slots
      BY <1>2
    <3> QED
      BY Zenon, <1>11, <3>2, <3>3, RunFacts
  <2> QED
    BY Zenon, <1>6, <2>1, <2>2
<1>12. ASSUME NEW j \in DOMAIN slots', j \notin stack'[2].resumed
       PROVE  /\ ~ Running(slots[j])'
              /\ kind'[slots'[j]] \in PredKinds /\ slots'[j] \notin finished'
                    => wait'[slots'[j]].age > 0
  <2>1. PICK u \in Slots : u = slots[j] /\ u = slots'[j] /\ j \in DOMAIN slots
    BY Zenon, <1>1, <1>8
  <2>2. 2 \in DOMAIN stack
    BY <1>2, <1>5
  <2>3. stack[2].act = "tick" /\ j \notin stack[2].resumed
    BY Zenon, <1>3, <1>5, <1>12
  <2>4. ~ Running(u) /\ (kind[u] \in PredKinds /\ u \notin finished => wait[u].age > 0)
    BY Zenon, <2>1, <2>2, <2>3 DEF Rested
  <2>5. ~ Running(u)'
    <3> SUFFICES ASSUME Len(stack') = Len(stack) + 1, stack'[Len(stack) + 1] = Run(u)
                 PROVE  FALSE
      BY Zenon, <1>4, <2>4
    <3>1. Len(stack') # Len(stack)
      BY <1>5
    <3>2. PICK i \in 1 .. Len(slots) : Run(u) = Run(slots[i]) /\ i \in stack'[2].resumed
      BY Zenon, <1>3, <1>5, <3>1
    <3>3. i \in DOMAIN slots
      BY <1>2
    <3>4. u = slots[i]
      <4>1. Run(u).slot = u
        BY Zenon, RunFacts
      <4>2. Run(slots[i]).slot = slots[i]
        BY Zenon, <1>8, <3>3, RunFacts
      <4> QED
        BY Zenon, <3>2, <4>1, <4>2
    <3>5. i = j
      BY Zenon, <2>1, <3>3, <3>4 DEF Times, Queued
    <3> QED
      BY Zenon, <1>12, <3>2, <3>5
  <2>6. Running(slots[j])' <=> Running(u)'
    BY Zenon, <2>1 DEF Running
  <2> QED
    BY Zenon, <1>1, <1>3, <2>1, <2>4, <2>5, <2>6
<1>13. \A u \in Left' : wait'[u] = NoWait \/ wait'[u].age > 0
  BY Zenon, <1>1, <1>9 DEF Rested
<1> QED
  BY Zenon, <1>10, <1>11, <1>12, <1>13 DEF Rested

\* The re-check ends waits that have seen a posedge.
LEMMA RecheckRested ==
    ASSUME "qualified" \notin Sites, Shape, Rest, Rested, Recheck
    PROVE  Rested'
<1> USE Zenon
<1>1. In("tick") /\ Top.at = "recheck" /\ UNCHANGED slots /\ UNCHANGED finished /\ UNCHANGED wait
  BY DEF Recheck
<1>2. stack \in Seq(Frames) /\ slots \in Seq(Slots) /\ Shaped
  BY DEF Shape, TypeOK
<1> USE <1>1, <1>2
<1>3. /\ stack # <<>> /\ Top \in TickFrames /\ Top.act = "tick" /\ Top = stack[Len(stack)]
      /\ Len(stack) \in 1 .. Len(stack)
  BY SMT, InFacts
<1> USE <1>3
<1>4. Len(stack) = 2 /\ DOMAIN stack = {1, 2} /\ Top = stack[2]
  <2>1. Len(stack) = 2
    BY OneTick
  <2>2. DOMAIN stack = {1, 2}
    BY ONLY <1>2, <2>1
  <2> QED
    BY <2>1, <2>2
<1> USE <1>4
<1>5. stack[1].act = "cycle" /\ ~ Owes(stack[1])
  <2>1. ~ Base(stack[2]) /\ 2 \in 1 .. Len(stack) /\ 2 - 1 = 1
    BY SMT DEF Base
  <2>2. Calls(stack[1], stack[2])
    BY <2>1, Called
  <2> QED
    BY <2>2 DEF Calls, Owes
<1>6. Left = {}
  BY TickAhead DEF Ahead
<1>7. PICK r \in ReadResumed(Top) :
          /\ kind' = [s \in Slots |-> IF s \in Woken(Top, r) THEN "Ready" ELSE kind[s]]
          /\ IF AnotherRound(Top, Woken(Top, r))
             THEN Swap([Top EXCEPT !.at = "resume", !.i = 1, !.changed = FALSE])
             ELSE Pop
  BY DEF Recheck
<1>8. ASSUME NEW u \in Woken(Top, r), u \notin finished PROVE wait[u].age > 0
  <2>1. PICK j \in DOMAIN slots : j \notin r /\ u = slots[j] /\ kind[u] \in PredKinds
    BY DEF Woken
  <2>2. j \notin Top.resumed
    <3>1. Top.size = Len(slots)
      BY DEF Rest, Sized
    <3>2. r \cap 1 .. Top.size = Top.resumed
      BY DEF ReadResumed
    <3> QED
      BY <2>1, <3>2
  <2> QED
    BY <1>8, <2>1, <2>2 DEF Rested
<1> USE <1>7
<1>9. /\ stack' # <<>> /\ stack'[1] = stack[1]
      /\ \/ Len(stack') = 1 /\ DOMAIN stack' = {1}
         \/ /\ Len(stack') = 2 /\ DOMAIN stack' = {1, 2}
            /\ stack'[2].act = "tick" /\ stack'[2].resumed = stack[2].resumed
  <2>1. CASE Swap([Top EXCEPT !.at = "resume", !.i = 1, !.changed = FALSE])
    <3>1. PICK g \in Frames : /\ g = [Top EXCEPT !.at = "resume", !.i = 1, !.changed = FALSE]
                              /\ g.act = "tick" /\ g.resumed = Top.resumed
      BY RoundFacts DEF Frames
    <3>2. Swap(g)
      BY <2>1, <3>1
    <3>3. /\ stack' \in Seq(Frames) /\ Len(stack') = 2
          /\ \A i \in 1 .. 2 - 1 : stack'[i] = stack[i]
          /\ stack'[2] = g
      BY <3>2, SwapFacts
    <3>4. DOMAIN stack' = {1, 2} /\ stack'[1] = stack[1]
      BY ONLY <3>3
    <3>5. stack' # <<>>
      BY ONLY <3>4
    <3> QED
      BY <3>1, <3>3, <3>4, <3>5
  <2>2. CASE Pop
    <3>1. /\ stack' \in Seq(Frames) /\ Len(stack') = 2 - 1
          /\ \A i \in 1 .. 2 - 1 : stack'[i] = stack[i]
      BY <2>2, PopFacts
    <3>2. DOMAIN stack' = {1} /\ stack'[1] = stack[1] /\ Len(stack') = 1
      BY ONLY <3>1
    <3>3. stack' # <<>>
      BY ONLY <3>2
    <3> QED
      BY <3>2, <3>3
  <2> QED
    BY <2>1, <2>2
<1> USE <1>5, <1>9
<1>10. \A u : ~ Running(u) /\ ~ Running(u)'
  BY DEF Running
<1>11. ~ Pending'
  BY PendingNext
<1>12. \A j \in DOMAIN slots : slots[j] \in Slots
  BY SMT
<1>13. \A u \in Range(slots) : u \in Slots
  BY <1>12 DEF Range
<1>14. \A u \in Left' : wait'[u] = NoWait \/ wait'[u].age > 0
  <2> SUFFICES ASSUME NEW u \in Left' PROVE wait[u].age > 0
    OBVIOUS
  <2>1. u \in Range(slots) /\ u \notin finished /\ kind'[u] = "Ready" /\ u \in Slots
    BY <1>13 DEF Left
  <2>2. kind[u] # "Ready"
    BY <1>6, <1>10 DEF Left
  <2> QED
    BY <1>8, <2>1, <2>2
<1>15. ASSUME NEW k \in DOMAIN stack', stack'[k].act = "tick",
              NEW j \in DOMAIN slots' \ stack'[k].resumed,
              kind'[slots'[j]] \in PredKinds, slots'[j] \notin finished'
       PROVE  wait'[slots'[j]].age > 0
  <2>1. PICK u \in Slots : u = slots[j] /\ u = slots'[j] /\ j \in DOMAIN slots
    BY <1>12
  <2>2. j \notin stack[2].resumed /\ stack[2].act = "tick" /\ 2 \in DOMAIN stack
    BY <1>15
  <2> USE <2>1
  <2>3. kind'[u] # "Ready"
    BY SMT, <1>15 DEF PredKinds
  <2>4. kind[u] \in PredKinds
    BY <1>15, <2>3
  <2> QED
    BY <1>15, <2>2, <2>4 DEF Rested
<1>16. \A j : ~ Running(slots[j])'
  BY DEF Running
<1> QED
  BY <1>11, <1>14, <1>15, <1>16 DEF Rested

\* The actors that the run coroutine registers have never waited.
LEMMA RegisterActorsRested ==
    ASSUME "qualified" \notin Sites, Shape, Shape', Rest, Times, Rested, RegisterActors
    PROVE  Rested'
<1> USE Zenon
<1>1. /\ In("run") /\ Capsule /\ slots = <<run>>
      /\ slots' = slots \o [i \in Actors |-> i] /\ UNCHANGED kind /\ UNCHANGED cycles
      /\ UNCHANGED timedOut /\ UNCHANGED finished /\ UNCHANGED stack /\ UNCHANGED wait
  BY DEF RegisterActors
<1> USE <1>1
<1>2. stack \in Seq(Frames) /\ stack # <<>> /\ slots' \in Seq(Slots) /\ slots \in Seq(Slots) /\ Shaped
  BY DEF Shape, TypeOK, In
<1>3. CASE Actors \subseteq Range(slots)
  <2>1. Actors = {}
    BY SMT, <1>3, SlotFacts DEF Range
  <2>2. NActors \in Nat /\ Actors = 1 .. NActors
    BY SMT, ConstantsAssumption DEF Actors
  <2>3. [i \in Actors |-> i] \in Seq(Actors) /\ Len([i \in Actors |-> i]) = NActors /\ NActors = 0
    BY SMT, <2>1, <2>2
  <2>4. UNCHANGED slots
    <3>1. slots' = <<run>> \o [i \in Actors |-> i]
      OBVIOUS
    <3>2. Len(slots') = 1 /\ slots'[1] = run
      BY ONLY <2>3, <3>1
    <3>3. slots = <<run>> /\ slots' \in Seq(Slots)
      BY <1>2
    <3> QED
      BY ONLY <3>2, <3>3
  <2>5. UNCHANGED slotVars
    BY <2>4 DEF slotVars
  <2> QED
    BY <2>5, SameRested
<1>4. CASE ~ Actors \subseteq Range(slots)
  <2>1. stack[1].act = "boot"
    BY <1>2, <1>4 DEF Rest, Registered
  <2>2. ASSUME NEW k \in DOMAIN stack, stack[k].act = "tick" PROVE FALSE
    <3>1. k \in 1 .. Len(stack)
      BY SMT
    <3>2. stack[1].act = "cycle"
      BY <2>2, <3>1, OneTick
    <3> QED
      BY <2>1, <3>2
  <2>3. \A u \in Range(slots') : u \in Slots
    BY ONLY <1>2 DEF Range
  <2>4. \A u \in Left' : wait'[u] = NoWait \/ (u \in Left /\ wait'[u] = wait[u])
    <3>1. \A u : Running(u) <=> Running(u)'
      BY SMT DEF Running
    <3>2. \A u \in Left' : u \in Left \/ u \in Slots \ Range(slots)
      BY <2>3, <3>1 DEF Left
    <3> QED
      BY <1>2, <3>2 DEF Times, Known
  <2>5. Pending' <=> Pending
    BY SMT DEF Pending, Owes, Top
  <2>6. \A k \in DOMAIN stack' : stack'[k].act # "tick"
    BY <2>2
  <2> QED
    BY <2>4, <2>5, <2>6, RestedOutside
<1> QED
  BY <1>3, <1>4

\* Whoever suspends between a posedge and its tick counts that posedge.
LEMMA SegmentRested ==
    ASSUME NEW s \in Slots, Shape, Times, Rested, Suspend(s) \/ Finish(s)
    PROVE  Rested'
<1>1. Segment(s) /\ In("run") /\ Top.slot = s /\ Pop /\ UNCHANGED slots
  BY Zenon DEF Suspend, Finish, Segment
<1>2. /\ kind \in [Slots -> Kinds] /\ wait \in [Slots -> Waits] /\ slots \in Seq(Slots)
      /\ stack \in Seq(Frames)
  BY Zenon, TypeParts DEF Shape, SlotTypes, TypeOK
<1>3. /\ stack # <<>> /\ SameLoops /\ ~ Running(s)'
      /\ \A u \in Slots : Running(u)' => Running(u)
      /\ \A u \in Slots : u # s => (Running(u) <=> Running(u)')
      /\ FirstAge = Debt /\ Debt' = Debt
  BY Zenon, <1>1, LeaveRuns
<1>4. Running(s)
  <2>1. Len(stack) \in DOMAIN stack /\ Top = stack[Len(stack)] /\ Top.act = "run"
    BY <1>1, <1>2, <1>3, InFacts
  <2> QED
    BY Zenon, <1>1, <2>1 DEF Running
<1>5. Pending' => Pending
  <2>1. Pending' => Debt' = 1
    BY Zenon DEF Debt
  <2>2. ~ Pending => Debt = 0
    BY Zenon DEF Debt
  <2> QED
    BY <1>3, <2>1, <2>2
<1>6. \A u \in Slots : u # s => /\ kind'[u] = kind[u] /\ wait'[u] = wait[u]
                                /\ u \in finished' <=> u \in finished
  <2>1. CASE Suspend(s)
    <3>1. UNCHANGED finished /\ \E k, w : kind' = [kind EXCEPT ![s] = k] /\ wait' = [wait EXCEPT ![s] = w]
      BY Zenon, <2>1 DEF Suspend
    <3> QED
      BY Zenon, <1>2, <3>1
  <2>2. CASE Finish(s)
    <3>1. /\ finished' = finished \cup {s} /\ wait' = [wait EXCEPT ![s] = NoWait]
          /\ \E k : kind' = [kind EXCEPT ![s] = k]
      BY Zenon, <2>2 DEF Finish
    <3> QED
      BY Zenon, <1>2, <3>1
  <2> QED
    BY Zenon, <2>1, <2>2
<1>7. s \in finished' \/ (kind'[s] # "Ready" /\ (Pending => wait'[s].age > 0))
  <2>1. CASE Suspend(s)
    <3>1. PICK k \in Kinds \ {"Ready", "Done"}, n \in 0 .. MaxWait :
              /\ kind' = [kind EXCEPT ![s] = k]
              /\ wait' = [wait EXCEPT ![s] = [on |-> k, n |-> n, age |-> FirstAge]]
      BY Zenon, <2>1 DEF Suspend
    <3>2. kind'[s] = k /\ wait'[s] = [on |-> k, n |-> n, age |-> FirstAge]
      BY Zenon, <1>2, <3>1
    <3>3. wait'[s].age = Debt
      BY ONLY <1>3, <3>2
    <3>4. Pending => Debt = 1
      BY Zenon DEF Debt
    <3>5. Pending => wait'[s].age > 0
      BY <3>3, <3>4
    <3> QED
      BY Zenon, <3>2, <3>5
  <2>2. CASE Finish(s)
    BY Zenon, <2>2 DEF Finish
  <2> QED
    BY Zenon, <2>1, <2>2
<1>8. \A u \in Left' : u \in Left /\ u \in Slots /\ u # s
  <2>1. \A u \in Range(slots) : u \in Slots
    BY <1>2 DEF Range
  <2> QED
    BY Zenon, <1>1, <1>3, <1>6, <1>7, <2>1 DEF Left
<1>9. ASSUME NEW u \in Slots \ finished'
      PROVE  \/ u \notin finished /\ kind'[u] = kind[u] /\ wait'[u] = wait[u]
             \/ Running(u) /\ (Pending => wait'[u].age > 0)
  BY Zenon, <1>4, <1>6, <1>7
<1> QED
  BY Zenon, <1>1, <1>2, <1>3, <1>5, <1>6, <1>8, <1>9, RestedKept

\* After the drive loop no coroutine is left.
LEMMA TeardownRested == ASSUME Teardown PROVE Rested'
<1> USE Zenon
<1>1. stack' = <<>> /\ slots' = <<>>
  BY DEF Teardown
<1>2. DOMAIN stack' = {} /\ DOMAIN slots' = {}
  BY SMT, <1>1
<1>3. Left' = {}
  BY <1>2 DEF Left, Range
<1>4. ~ Pending'
  BY <1>1 DEF Pending
<1> QED
  BY <1>2, <1>3, <1>4 DEF Rested

\* When bootstrap begins nobody has waited.
LEMMA InitRested == Init => Rested
<1> SUFFICES ASSUME Init PROVE Rested
  OBVIOUS
<1>1. stack = <<Boot(1)>> /\ wait = [s \in Slots |-> NoWait]
  BY Zenon DEF Init
<1>2. DOMAIN stack = {1} /\ stack[1].act = "boot" /\ stack # <<>> /\ Top = stack[1]
  BY <1>1, BootFacts DEF Top
<1>3. \A u \in Left : wait[u] = NoWait
  <2>1. slots \in Seq(Slots)
    BY Zenon, InitShape DEF Shape, TypeOK
  <2>2. \A u \in Range(slots) : u \in Slots
    BY <2>1 DEF Range
  <2> QED
    BY Zenon, <1>1, <2>2 DEF Left
<1>4. ~ Pending
  BY Zenon, <1>2, PendingNow
<1> QED
  BY Zenon, <1>2, <1>3, <1>4 DEF Rested

\* Every step keeps the waits rested.
LEMMA NextRested ==
    ASSUME NoTaskInTick, "qualified" \notin Sites, Shape, Rest, Times, Rested, [Next]_vars
    PROVE  Rested'
<1> USE Zenon
<1>0. Shape'
  BY NextShape
<1> USE <1>0
<1>1. CASE BootResume \/ BootEnd
  BY <1>1, BootRested
<1>2. CASE Edge \/ QualifiedOver \/ Services \/ Checkers
  BY <1>2, CycleRested
<1>3. CASE TickStart \/ ResumeNext \/ Recheck
  BY <1>3, TickStartRested, ResumeNextRested, RecheckRested
<1>4. CASE RegisterActors \/ Teardown
  BY <1>4, RegisterActorsRested, TeardownRested
<1>5. ASSUME NEW s \in Slots, Suspend(s) \/ Finish(s) PROVE Rested'
  BY <1>5, SegmentRested
<1>6. ASSUME NEW how \in {"qualified", "sync"}, RunCycles(how) PROVE Rested'
  BY <1>6, CycleRested
<1>7. CASE RaiseFatal \/ Over \/ UNCHANGED vars
  <2>1. UNCHANGED slotVars /\ UNCHANGED stack
    BY <1>7 DEF RaiseFatal, Over, vars, slotVars
  <2> QED
    BY <2>1, SameRested
<1> QED
  BY <1>1, <1>2, <1>3, <1>4, <1>5, <1>6, <1>7 DEF Next

\* A coroutine that waits, in whatever way, sees at least one posedge before the
\* scheduler resumes it, for any numbers of actors and handlers and any waits:
\* provided that no handler suspends inside a tick and that the run coroutine makes
\* no clock-qualified wait (section 4 of the README says what happens otherwise).
THEOREM OneCycleAtLeast ==
    ASSUME NoTaskInTick, "qualified" \notin Sites
    PROVE  Spec => Quantum
<1> USE Zenon
<1>1. Init => TimeInv /\ Rested
  BY InitShape, InitRest, InitTimes, InitRested DEF TimeInv, IInv, Rest
<1>2. TimeInv /\ Rested /\ [Next]_vars => (TimeInv /\ Rested)'
  BY NextShape, NextRest, NextTimes, NextRested DEF TimeInv, IInv, Rest
<1>3. TimeInv /\ Rested /\ [Next]_vars
         => [\A s \in Slots : Resumes(s) /\ wait[s] # NoWait => wait[s].age > 0]_vars
  BY ResumesLeft DEF TimeInv, IInv, Rest, Rested
<1> QED
  BY <1>1, <1>2, <1>3, PTL DEF Spec, Quantum
=============================================================================
