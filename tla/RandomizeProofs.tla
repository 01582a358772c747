-------------------------- MODULE RandomizeProofs --------------------------
(***************************************************************************)
(* For every set of fields and values, any number of unique fields and any *)
(* call sites: a call fails only when its hard constraints cannot be met   *)
(* and otherwise returns one of the best solutions (Contract), repeats a   *)
(* value of a unique field only when it must (Spared), and reports the     *)
(* coverage goals it has really hit (Honest).                              *)
(***************************************************************************)
EXTENDS Randomize, TLAPS

-----------------------------------------------------------------------------
\* The solver.

\* A frame restricts the solutions, and popping it restores them.
LEMMA PushFacts ==
  ASSUME NEW stack \in Seq(SUBSET Tuples), NEW c \in SUBSET Tuples
  PROVE  /\ Push(stack, c) \in Seq(SUBSET Tuples)
         /\ Models(Push(stack, c)) = Models(stack) \cap c
         /\ Pop(Push(stack, c)) = stack
<1> DEFINE t == Append(stack, c)
<1>1. /\ t \in Seq(SUBSET Tuples) /\ Len(t) = Len(stack) + 1
      /\ \A i \in 1 .. Len(stack) : t[i] = stack[i]
      /\ t[Len(stack) + 1] = c
  OBVIOUS
<1> HIDE DEF t
<1>2. /\ DOMAIN stack = 1 .. Len(stack) /\ Len(stack) \in Nat
      /\ DOMAIN t = 1 .. Len(stack) + 1
      /\ \A i \in DOMAIN t : i \in DOMAIN stack \/ i = Len(stack) + 1
      /\ \A i \in DOMAIN stack : i \in DOMAIN t
      /\ Len(stack) + 1 \in DOMAIN t
  BY <1>1
<1>3. Models(t) = Models(stack) \cap c
  <2>1. ASSUME NEW x PROVE (\A i \in DOMAIN t : x \in t[i])
                             <=> (\A i \in DOMAIN stack : x \in stack[i]) /\ x \in c
    BY <1>1, <1>2
  <2> QED
    BY Zenon, <2>1 DEF Models
<1>4. SubSeq(t, 1, Len(t) - 1) = stack
  BY <1>1, <1>2
<1> QED
  BY Zenon, <1>1, <1>3, <1>4 DEF Push, Pop, t

\* The base frame alone.
LEMMA OneFrame ==
  ASSUME NEW c \in SUBSET Tuples
  PROVE  <<c>> \in Seq(SUBSET Tuples) /\ Models(<<c>>) = c
<1>1. <<c>> \in Seq(SUBSET Tuples) /\ DOMAIN <<c>> = {1} /\ <<c>>[1] = c
  OBVIOUS
<1> QED
  BY Zenon, <1>1 DEF Models

\* What is known of a call site.
LEMMA SiteFacts ==
  ASSUME NEW s \in DOMAIN Sites
  PROVE  /\ Sites[s].base \in SUBSET Tuples /\ Sites[s].branch \in SUBSET Tuples
         /\ Sites[s].softs \in Seq(SUBSET Tuples) /\ Unique \in Seq(Fields)
         /\ Hard(s) \in SUBSET Tuples
BY Zenon, SitesAssumption DEF Hard

\* What a soft constraint leaves of the best solutions so far.
LEMMA NextBest ==
  ASSUME NEW s \in DOMAIN Sites, NEW n \in Nat, n + 1 \in 1 .. Len(Sites[s].softs),
         \A t, u \in BestOf(s, n), i \in 1 .. n :
            t \in Sites[s].softs[i] <=> u \in Sites[s].softs[i]
  PROVE  LET soft == Sites[s].softs[n + 1]
         IN  /\ BestOf(s, n) \cap soft = {} => BestOf(s, n + 1) = BestOf(s, n)
             /\ BestOf(s, n) \cap soft # {} => BestOf(s, n + 1) = BestOf(s, n) \cap soft
<1> DEFINE softs == Sites[s].softs
           soft == softs[n + 1]
<1>0. /\ \A i \in 1 .. n : i \in 1 .. n + 1
      /\ \A i \in 1 .. n + 1 : i \in 1 .. n \/ i = n + 1
      /\ n + 1 \in 1 .. n + 1 /\ (n + 1) - 1 = n
      /\ \A i \in 1 .. n : \A j \in 1 .. i - 1 : j \in 1 .. n
  OBVIOUS
<1>1. BestOf(s, n + 1) = {t \in BestOf(s, n) : \A u \in Hard(s) : ~ Prevails(u, t, softs, n + 1)}
  BY Zenon, <1>0 DEF BestOf
<1>2. \A u, t : Prevails(u, t, softs, n + 1) <=>
          u \in soft /\ t \notin soft /\ \A j \in 1 .. n : t \in softs[j] => u \in softs[j]
  BY Zenon, <1>0 DEF Prevails
<1>3. ASSUME NEW t \in BestOf(s, n), NEW u \in Hard(s), Prevails(u, t, softs, n + 1)
      PROVE  u \in BestOf(s, n) \cap soft
  <2>1. u \in soft /\ \A j \in 1 .. n : t \in softs[j] => u \in softs[j]
    BY Zenon, <1>2, <1>3
  <2>2. ASSUME NEW v \in Hard(s), NEW i \in 1 .. n, Prevails(v, u, softs, i) PROVE FALSE
    <3>1. /\ v \in softs[i] /\ u \notin softs[i]
          /\ \A j \in 1 .. i - 1 : u \in softs[j] => v \in softs[j]
      BY Zenon, <2>2 DEF Prevails
    <3>2. Prevails(v, t, softs, i)
      BY Zenon, <1>0, <2>1, <3>1 DEF Prevails
    <3> QED
      BY Zenon, <3>2 DEF BestOf
  <2> QED
    BY Zenon, <2>1, <2>2 DEF BestOf
<1>4. CASE BestOf(s, n) \cap soft = {}
  BY Zenon, <1>1, <1>3, <1>4
<1>5. CASE BestOf(s, n) \cap soft # {}
  <2>1. PICK w \in BestOf(s, n) : w \in soft
    BY Zenon, <1>5
  <2>2. w \in Hard(s)
    BY Zenon DEF BestOf
  <2>3. ASSUME NEW t \in BestOf(s, n), t \notin soft PROVE Prevails(w, t, softs, n + 1)
    BY Zenon, <1>2, <2>1, <2>3
  <2>4. ASSUME NEW t \in BestOf(s, n), t \in soft, NEW u PROVE ~ Prevails(u, t, softs, n + 1)
    BY Zenon, <1>2, <2>4
  <2> QED
    BY Zenon, <1>1, <1>5, <2>2, <2>3, <2>4
<1> QED
  BY Zenon, <1>4, <1>5

\* The histories as they were when the call began are those it avoids.
LEMMA AvoidingFacts ==
  ASSUME NEW fs \in SUBSET Range(Unique), before = hist, site \in DOMAIN Sites
  PROVE  Best(site) \cap Avoiding(fs) = Unseen(fs) /\ Avoiding(fs) \in SUBSET Tuples
<1>1. Best(site) \subseteq Tuples
  BY Zenon, SiteFacts DEF Best, BestOf
<1> QED
  BY Zenon, <1>1 DEF Avoiding, Unseen, Repeated

-----------------------------------------------------------------------------
\* The steps of a call.

\* Before the first call.
LEMMA InitInv == Init => IInv
<1> SUFFICES ASSUME Init PROVE IInv
  OBVIOUS
<1>1. /\ pc = "idle" /\ site \in DOMAIN Sites /\ frames = <<>> /\ status = "none"
      /\ hist = [f \in Range(Unique) |-> {}]
  BY Zenon DEF Init
<1>2. frames \in Seq(SUBSET Tuples)
  BY <1>1
<1> QED
  BY Zenon, <1>1, <1>2 DEF IInv, Control, Meaning, SolveContract, MinimalRepeat

\* A call starts from the hard constraints without guards,
LEMMA BeginInv == ASSUME IInv, NEW s \in DOMAIN Sites, Begin(s) PROVE IInv'
<1>1. /\ pc' = "discriminate" /\ site' = s /\ frames' = <<Sites[s].base>>
      /\ before' = hist /\ hist' = hist /\ DOMAIN hist = Range(Unique)
  BY Zenon DEF IInv, Control, Begin, store
<1>2. frames' \in Seq(SUBSET Tuples)
  BY Zenon, <1>1, SiteFacts, OneFrame
<1> QED
  BY Zenon, <1>1, <1>2 DEF IInv, Control, Meaning

\* adds the guarded ones,
LEMMA DiscriminateInv == ASSUME IInv, Discriminate PROVE IInv'
<1>1. /\ pc = "discriminate" /\ pc' = "soft" /\ k' = 1 /\ site' = site
      /\ before' = before /\ hist' = hist
  BY Zenon DEF Discriminate, store, ghosts
<1>2. /\ site \in DOMAIN Sites /\ DOMAIN hist = Range(Unique) /\ before = hist
      /\ frames \in Seq(SUBSET Tuples)
  BY Zenon, <1>1 DEF IInv, Control
<1>3. PICK m \in IF Sites[site].disc # {} /\ Check(frames) THEN Models(frames)
                 ELSE {[f \in {} |-> 0]} :
        frames' = <<frames[1] \cap {t \in Tuples : \A f \in Sites[site].disc \cap DOMAIN m : t[f] = m[f]}
                      \cap Sites[site].branch>>
  BY Zenon DEF Discriminate
<1> DEFINE fixed == {t \in Tuples : \A f \in Sites[site].disc \cap DOMAIN m : t[f] = m[f]}
           c == frames[1] \cap fixed \cap Sites[site].branch
<1>4. c \in SUBSET Tuples /\ frames' = <<c>>
  BY Zenon, <1>3
<1>5. frames' \in Seq(SUBSET Tuples) /\ Models(frames') = c
  BY Zenon, <1>4, OneFrame
<1>6. Sites[site].softs \in Seq(SUBSET Tuples)
  BY Zenon, <1>2, SiteFacts
<1>7. 1 \in 1 .. Len(Sites[site].softs) + 1 /\ 1 - 1 = 0 /\ 1 .. 0 = {}
  BY <1>6
<1>8. Control'
  BY Zenon, <1>1, <1>2, <1>5, <1>7 DEF Control
<1>9. ASSUME Sites[site].disc = {} PROVE Meaning'
  <2>1. frames = <<Sites[site].base>>
    BY Zenon, <1>1, <1>9 DEF IInv, Meaning
  <2>2. frames[1] = Sites[site].base
    BY <2>1
  <2>3. c = Hard(site)
    BY Zenon, <1>2, <1>9, <2>2, SiteFacts DEF Hard
  <2>4. BestOf(site, 0) = Hard(site)
    BY Zenon, <1>7 DEF BestOf
  <2>5. Settled(0)'
    BY Zenon, <1>1, <1>5, <1>7, <2>3, <2>4 DEF Settled
  <2> QED
    BY Zenon, <1>1, <1>7, <2>5 DEF Meaning
<1> QED
  BY Zenon, <1>1, <1>8, <1>9 DEF IInv

\* keeps each soft constraint that leaves a solution,
LEMMA SoftStepInv == ASSUME IInv, SoftStep PROVE IInv'
<1>1. /\ pc = "soft" /\ pc' = "soft" /\ k <= Len(Sites[site].softs) /\ k' = k + 1
      /\ site' = site /\ before' = before /\ hist' = hist
  BY Zenon DEF SoftStep, store, ghosts
<1>2. /\ site \in DOMAIN Sites /\ DOMAIN hist = Range(Unique) /\ before = hist
      /\ frames \in Seq(SUBSET Tuples) /\ k \in 1 .. Len(Sites[site].softs) + 1
  BY Zenon, <1>1 DEF IInv, Control
<1>3. Sites[site].softs \in Seq(SUBSET Tuples)
  BY Zenon, <1>2, SiteFacts
<1>4. PICK n \in Nat : /\ k = n + 1 /\ k - 1 = n /\ k' - 1 = n + 1
                       /\ n + 1 \in 1 .. Len(Sites[site].softs) /\ k' \in 1 .. Len(Sites[site].softs) + 1
                       /\ \A i \in 1 .. n + 1 : i \in 1 .. n \/ i = n + 1
  BY <1>1, <1>2, <1>3
<1>5. PICK c \in SUBSET Tuples : c = Sites[site].softs[n + 1]
  BY <1>3, <1>4
<1>6. /\ Push(frames, c) \in Seq(SUBSET Tuples) /\ Pop(Push(frames, c)) = frames
      /\ Models(Push(frames, c)) = Models(frames) \cap c
  BY Zenon, <1>2, PushFacts
<1>7. \/ Models(frames) \cap c # {} /\ frames' = Push(frames, c)
      \/ Models(frames) \cap c = {} /\ frames' = frames
  BY Zenon, <1>4, <1>5, <1>6 DEF SoftStep, Check
<1>8. Control'
  BY Zenon, <1>1, <1>2, <1>4, <1>6, <1>7 DEF Control
<1>9. ASSUME Sites[site].disc = {} PROVE Meaning'
  <2>1. /\ Models(frames) = BestOf(site, n)
        /\ \A t, u \in Models(frames), i \in 1 .. n :
              t \in Sites[site].softs[i] <=> u \in Sites[site].softs[i]
        /\ Models(frames) = {} => Hard(site) = {}
    BY Zenon, <1>1, <1>4, <1>9 DEF IInv, Meaning, Settled
  <2>2. /\ BestOf(site, n) \cap c = {} => BestOf(site, n + 1) = BestOf(site, n)
        /\ BestOf(site, n) \cap c # {} => BestOf(site, n + 1) = BestOf(site, n) \cap c
    <3>1. /\ site \in DOMAIN Sites /\ n \in Nat /\ n + 1 \in 1 .. Len(Sites[site].softs)
          /\ \A t, u \in BestOf(site, n), i \in 1 .. n :
                t \in Sites[site].softs[i] <=> u \in Sites[site].softs[i]
      BY Zenon, <1>2, <1>4, <2>1
    <3> DEFINE soft == Sites[site].softs[n + 1]
    <3>2. /\ BestOf(site, n) \cap soft = {} => BestOf(site, n + 1) = BestOf(site, n)
          /\ BestOf(site, n) \cap soft # {} => BestOf(site, n + 1) = BestOf(site, n) \cap soft
      BY ONLY Zenon, <3>1, NextBest
    <3> QED
      BY Zenon, <1>5, <3>2
  <2>3. Models(frames') = BestOf(site, n + 1)
    BY Zenon, <1>6, <1>7, <2>1, <2>2
  <2>4. \/ Models(frames') = Models(frames) /\ Models(frames) \cap c = {}
        \/ Models(frames') = Models(frames) \cap c /\ Models(frames') # {}
    BY Zenon, <1>6, <1>7
  <2>5. ASSUME NEW t \in Models(frames'), NEW u \in Models(frames'), NEW i \in 1 .. n + 1
        PROVE  t \in Sites[site].softs[i] <=> u \in Sites[site].softs[i]
    BY Zenon, <1>4, <1>5, <2>1, <2>4
  <2>6. Models(frames') = {} => Hard(site) = {}
    BY Zenon, <2>1, <2>4
  <2>7. Settled(n + 1)'
    BY Zenon, <1>1, <2>3, <2>5, <2>6 DEF Settled
  <2> QED
    BY Zenon, <1>1, <1>4, <2>7 DEF Meaning
<1> QED
  BY Zenon, <1>1, <1>8, <1>9 DEF IInv

\* and when all are decided the best solutions are left.
LEMMA SelectInv == ASSUME IInv, Select PROVE IInv'
<1>1. /\ pc = "soft" /\ pc' = "prefer" /\ k > Len(Sites[site].softs)
      /\ site' = site /\ before' = before /\ hist' = hist /\ frames' = frames
  BY Zenon DEF Select, ghosts
<1>2. /\ site \in DOMAIN Sites /\ DOMAIN hist = Range(Unique) /\ before = hist
      /\ frames \in Seq(SUBSET Tuples) /\ k \in 1 .. Len(Sites[site].softs) + 1
  BY Zenon, <1>1 DEF IInv, Control
<1>3. Sites[site].softs \in Seq(SUBSET Tuples)
  BY Zenon, <1>2, SiteFacts
<1>4. k - 1 = Len(Sites[site].softs)
  BY <1>1, <1>2, <1>3
<1>5. Control'
  BY Zenon, <1>1, <1>2 DEF Control
<1>6. ASSUME Sites[site].disc = {} PROVE Meaning'
  <2>1. Models(frames) = Best(site) /\ (Models(frames) = {} => Hard(site) = {})
    BY Zenon, <1>1, <1>4, <1>6 DEF IInv, Meaning, Settled, Best
  <2> QED
    BY Zenon, <1>1, <2>1 DEF Meaning
<1> QED
  BY Zenon, <1>1, <1>5, <1>6 DEF IInv

\* The preference frame is the true constraint unless something satisfies the preference,
\* so it does not make the call fail.
LEMMA PreferInv == ASSUME IInv, Prefer PROVE IInv'
<1>1. /\ pc = "prefer" /\ pc' = "check" /\ site' = site /\ before' = before /\ hist' = hist
  BY Zenon DEF Prefer, ghosts
<1>2. /\ site \in DOMAIN Sites /\ DOMAIN hist = Range(Unique) /\ before = hist
      /\ frames \in Seq(SUBSET Tuples)
  BY Zenon, <1>1 DEF IInv, Control
<1>3. PICK a \in SUBSET Tuples : a = Avoiding(Range(Unique))
  BY Zenon, <1>2, AvoidingFacts
<1>4. /\ Push(frames, a) \in Seq(SUBSET Tuples) /\ Pop(Push(frames, a)) = frames
      /\ Models(Push(frames, a)) = Models(frames) \cap a
  BY Zenon, <1>2, PushFacts
<1>5. \E c \in SUBSET Tuples :
         /\ frames' = Push(Push(frames, a), c)
         /\ Check(frames') \/ c = Tuples
  <2>1. PICK seed \in Tuples :
          LET pref == [f \in Fields |->
                         IF f \in DOMAIN selection THEN selection[f] ELSE seed[f]]
              clause == {t \in Tuples : \A f \in Sites[site].free : t[f] = pref[f]}
              tried == Push(Push(frames, a), clause)
          IN  \/ Check(tried) /\ frames' = tried
              \/ frames' = Push(Pop(tried), Tuples)
    BY Zenon, <1>3 DEF Prefer
  <2> DEFINE pref == [f \in Fields |-> IF f \in DOMAIN selection THEN selection[f] ELSE seed[f]]
             clause == {t \in Tuples : \A f \in Sites[site].free : t[f] = pref[f]}
  <2>2. clause \in SUBSET Tuples
    BY Zenon
  <2>3. \/ Check(Push(Push(frames, a), clause)) /\ frames' = Push(Push(frames, a), clause)
        \/ frames' = Push(Pop(Push(Push(frames, a), clause)), Tuples)
    BY Zenon, <2>1
  <2> HIDE DEF clause
  <2>4. Pop(Push(Push(frames, a), clause)) = Push(frames, a)
    BY Zenon, <1>4, <2>2, PushFacts
  <2> QED
    BY Zenon, <2>2, <2>3, <2>4
<1>6. PICK c \in SUBSET Tuples : /\ frames' = Push(Push(frames, a), c)
                                 /\ Check(frames') \/ c = Tuples
  BY Zenon, <1>5
<1>7. /\ frames' \in Seq(SUBSET Tuples) /\ Pop(frames') = Push(frames, a)
      /\ Models(frames') = Models(frames) \cap a \cap c
  BY Zenon, <1>4, <1>6, PushFacts
<1>8. Pop(Pop(frames')) = frames
  BY Zenon, <1>4, <1>7
<1>9. Control'
  BY Zenon, <1>1, <1>2, <1>7 DEF Control
<1>10. ASSUME Sites[site].disc = {} PROVE Meaning'
  <2>1. Models(frames) = Best(site) /\ (Best(site) = {} => Hard(site) = {})
    BY Zenon, <1>1, <1>10 DEF IInv, Meaning
  <2>2. Models(frames) \cap a = Unseen(Range(Unique))
    BY Zenon, <1>2, <1>3, <2>1, AvoidingFacts
  <2>3. Models(frames') \subseteq Unseen(Range(Unique))
    BY Zenon, <1>7, <2>2
  <2>4. Models(frames') = {} => Unseen(Range(Unique)) = {}
    BY Zenon, <1>6, <1>7, <2>2 DEF Check
  <2>5. Unseen(Range(Unique))' = Unseen(Range(Unique))
    BY Zenon, <1>1 DEF Unseen, Repeated
  <2> QED
    BY Zenon, <1>1, <1>8, <2>1, <2>3, <2>4, <2>5 DEF Meaning
<1> QED
  BY Zenon, <1>1, <1>9, <1>10 DEF IInv

\* Nothing is more sparing than a solution that repeats nothing.
LEMMA NoneRepeated == ASSUME NEW t, Repeated(t) = {} PROVE Sparing(t)
<1>1. \A i \in DOMAIN Unique : 1 \in 1 .. i
  <2>1. Unique \in Seq(Fields)
    BY Zenon, SitesAssumption
  <2> QED
    BY <2>1
<1> QED
  BY Zenon, <1>1 DEF Sparing


\* Sparing looks at the site and at the histories as the call found them.
LEMMA SameSparing ==
  ASSUME site' = site, before' = before, NEW t PROVE Sparing(t)' <=> Sparing(t)
<1>1. \A u : Repeated(u)' = Repeated(u)
  BY Zenon DEF Repeated
<1> QED
  BY Zenon, <1>1 DEF Sparing

\* Popping a stack.
LEMMA PopType ==
  ASSUME NEW stack \in Seq(SUBSET Tuples) PROVE Pop(stack) \in Seq(SUBSET Tuples)
BY DEF Pop

\* A solution repeats nothing; without one, all best solutions repeat something.
LEMMA FinalCheckInv == ASSUME IInv, FinalCheck PROVE IInv'
<1>1. /\ pc = "check" /\ site' = site /\ before' = before /\ hist' = hist
      /\ \/ Check(frames) /\ pc' = "assign" /\ frames' = frames
         \/ ~Check(frames) /\ pc' = "recycle" /\ frames' = Pop(Pop(frames)) /\ k' = 1
  BY Zenon DEF FinalCheck, store, ghosts
<1>2. /\ site \in DOMAIN Sites /\ DOMAIN hist = Range(Unique) /\ before = hist
      /\ frames \in Seq(SUBSET Tuples)
  BY Zenon, <1>1 DEF IInv, Control
<1>3. Pop(Pop(frames)) \in Seq(SUBSET Tuples)
  BY Zenon, <1>2, PopType
<1>4. 1 \in 1 .. Len(Unique) + 1 /\ 1 .. 1 - 1 = {}
  <2>1. Unique \in Seq(Fields)
    BY Zenon, SitesAssumption
  <2> QED
    BY <2>1
<1>5. Control'
  BY Zenon, <1>1, <1>2, <1>3, <1>4 DEF Control
<1>6. ASSUME Sites[site].disc = {} PROVE Meaning'
  <2>1. /\ Best(site) = {} => Hard(site) = {}
        /\ Models(Pop(Pop(frames))) = Best(site)
        /\ Models(frames) \subseteq Unseen(Range(Unique))
        /\ Models(frames) = {} => Unseen(Range(Unique)) = {}
    BY Zenon, <1>1, <1>6 DEF IInv, Meaning
  <2>2. CASE pc' = "assign"
    <3>1. frames' = frames
      BY Zenon, <1>1, <2>2
    <3>2. ASSUME NEW t \in Models(frames) PROVE t \in Best(site) /\ Sparing(t)
      <4>1. t \in Best(site) /\ Repeated(t) \cap Range(Unique) = {}
        BY Zenon, <2>1, <3>2 DEF Unseen
      <4>2. Repeated(t) = {}
        BY Zenon, <4>1 DEF Repeated
      <4> QED
        BY Zenon, <4>1, <4>2, NoneRepeated
    <3>3. ASSUME NEW t PROVE Sparing(t)' <=> Sparing(t)
      BY Zenon, <1>1, SameSparing
    <3> QED
      BY Zenon, <1>1, <2>2, <3>1, <3>2, <3>3 DEF Meaning
  <2>3. CASE pc' = "recycle"
    <3>1. Models(frames) = {} /\ frames' = Pop(Pop(frames)) /\ k' = 1
      BY Zenon, <1>1, <2>3 DEF Check
    <3>2. Unseen(Range(Unique))' = Unseen(Range(Unique))
      BY Zenon, <1>1 DEF Unseen, Repeated
    <3>3. \A i \in 1 .. k' - 1 : Unseen(Range(Unique) \ {Unique[i]})' = {}
      BY Zenon, <1>4, <3>1
    <3> QED
      BY Zenon, <1>1, <2>1, <2>3, <3>1, <3>2, <3>3 DEF Meaning
  <2> QED
    BY Zenon, <1>1, <2>2, <2>3
<1> QED
  BY Zenon, <1>1, <1>5, <1>6 DEF IInv

\* A solution repeats a value of the k-th field at most; without one, all best
\* solutions repeat a value of another.
LEMMA RecycleOneInv == ASSUME IInv, RecycleOne PROVE IInv'
<1>1. /\ pc = "recycle" /\ k <= Len(Unique) /\ site' = site /\ before' = before
  BY Zenon DEF RecycleOne, ghosts
<1>2. /\ site \in DOMAIN Sites /\ DOMAIN hist = Range(Unique) /\ before = hist
      /\ frames \in Seq(SUBSET Tuples) /\ k \in 1 .. Len(Unique) + 1
  BY Zenon, <1>1 DEF IInv, Control
<1>3. Unique \in Seq(Fields)
  BY Zenon, SitesAssumption
<1>4. /\ k \in 1 .. Len(Unique) /\ k + 1 \in 1 .. Len(Unique) + 1
      /\ DOMAIN Unique = 1 .. Len(Unique)
      /\ \A i \in 1 .. (k + 1) - 1 : i \in 1 .. k - 1 \/ i = k
      /\ \A i \in 1 .. Len(Unique) : i \in 1 .. k - 1 \/ k \in 1 .. i
  BY <1>1, <1>2, <1>3
<1> DEFINE U == Range(Unique)
           rest == U \ {Unique[k]}
<1>5. PICK a \in SUBSET Tuples : a = Avoiding(rest)
  BY Zenon, <1>2, AvoidingFacts
<1>6. /\ Push(frames, a) \in Seq(SUBSET Tuples) /\ Pop(Push(frames, a)) = frames
      /\ Models(Push(frames, a)) = Models(frames) \cap a
  BY Zenon, <1>2, PushFacts
<1>7. \/ /\ Check(Push(frames, a)) /\ frames' = Push(frames, a)
         /\ hist' = [hist EXCEPT ![Unique[k]] = {}] /\ pc' = "assign"
      \/ /\ ~Check(Push(frames, a)) /\ frames' = frames /\ hist' = hist
         /\ pc' = "recycle" /\ k' = k + 1
  BY Zenon, <1>1, <1>5, <1>6 DEF RecycleOne
<1>8. DOMAIN hist' = Range(Unique)
  BY Zenon, <1>2, <1>7
<1>9. Control'
  BY Zenon, <1>1, <1>2, <1>4, <1>6, <1>7, <1>8 DEF Control
<1>10. ASSUME Sites[site].disc = {} PROVE Meaning'
  <2>1. /\ Best(site) = {} => Hard(site) = {}
        /\ Models(frames) = Best(site) /\ Unseen(U) = {}
        /\ \A i \in 1 .. k - 1 : Unseen(U \ {Unique[i]}) = {}
    BY Zenon, <1>1, <1>10 DEF IInv, Meaning
  <2>2. Models(Push(frames, a)) = Unseen(rest)
    <3>1. Best(site) \cap a = Unseen(rest)
      BY Zenon, <1>2, <1>5, AvoidingFacts
    <3> QED
      BY Zenon, <1>6, <2>1, <3>1
  <2>3. CASE pc' = "assign"
    <3>1. ASSUME NEW t \in Unseen(rest) PROVE t \in Best(site) /\ Sparing(t)
      <4>1. t \in Best(site) /\ Repeated(t) \cap rest = {}
        BY Zenon, <3>1 DEF Unseen
      <4>2. Repeated(t) \subseteq {Unique[k]}
        BY Zenon, <4>1 DEF Repeated
      <4>3. ASSUME NEW u \in Best(site), Repeated(u) = {} PROVE FALSE
        BY Zenon, <2>1, <4>3 DEF Unseen
      <4>4. ASSUME NEW u \in Best(site), NEW i \in DOMAIN Unique, Repeated(u) \subseteq {Unique[i]}
            PROVE  \E j \in 1 .. i : Repeated(t) \subseteq {Unique[j]}
        <5>1. CASE i \in 1 .. k - 1
          <6>1. Repeated(u) \cap (U \ {Unique[i]}) = {}
            BY Zenon, <4>4
          <6> QED
            BY Zenon, <2>1, <5>1, <6>1 DEF Unseen
        <5>2. CASE k \in 1 .. i
          BY Zenon, <4>2, <5>2
        <5> QED
          BY Zenon, <1>4, <5>1, <5>2
      <4> QED
        BY Zenon, <4>1, <4>3, <4>4 DEF Sparing
    <3>2. Models(frames') = Unseen(rest)
      BY Zenon, <1>7, <2>2, <2>3
    <3>3. ASSUME NEW t PROVE Sparing(t)' <=> Sparing(t)
      BY Zenon, <1>1, SameSparing
    <3>4. \A t \in Models(frames') : t \in Best(site') /\ Sparing(t)'
      BY Zenon, <1>1, <3>1, <3>2, <3>3
    <3> QED
      BY Zenon, <2>3, <3>4 DEF Meaning
  <2>4. CASE pc' = "recycle"
    <3>1. Unseen(rest) = {} /\ frames' = frames /\ k' = k + 1
      BY Zenon, <1>7, <2>2, <2>4 DEF Check
    <3>2. \A i \in 1 .. k' - 1 : Unseen(U \ {Unique[i]}) = {}
      BY Zenon, <1>4, <2>1, <3>1
    <3>3. ASSUME NEW fs PROVE Unseen(fs)' = Unseen(fs)
      BY Zenon, <1>1 DEF Unseen, Repeated
    <3>4. /\ Unseen(Range(Unique))' = {}
          /\ \A i \in 1 .. k' - 1 : Unseen(Range(Unique) \ {Unique[i]})' = {}
      BY Zenon, <2>1, <3>2, <3>3
    <3> QED
      BY Zenon, <1>1, <2>1, <2>4, <3>1, <3>4 DEF Meaning
  <2> QED
    BY Zenon, <1>7, <2>3, <2>4
<1> QED
  BY Zenon, <1>1, <1>9, <1>10 DEF IInv

\* When no field will do alone any best solution is as good, and if there is
\* none then the hard constraints have none.
LEMMA RecycleAllInv == ASSUME IInv, RecycleAll PROVE IInv'
<1>1. /\ pc = "recycle" /\ k > Len(Unique) /\ site' = site /\ before' = before
      /\ hist' = [f \in Range(Unique) |-> {}]
      /\ \/ Check(frames) /\ pc' = "assign" /\ frames' = frames
         \/ ~Check(frames) /\ pc' = "idle" /\ status' = "unsat" /\ frames' = <<>>
  BY Zenon DEF RecycleAll, ghosts, solver, Return
<1>2. /\ site \in DOMAIN Sites /\ frames \in Seq(SUBSET Tuples)
      /\ k \in 1 .. Len(Unique) + 1
  BY Zenon, <1>1 DEF IInv, Control
<1>3. Unique \in Seq(Fields)
  BY Zenon, SitesAssumption
<1>4. k - 1 = Len(Unique) /\ DOMAIN Unique = 1 .. Len(Unique)
  BY <1>1, <1>2, <1>3
<1>5. frames' \in Seq(SUBSET Tuples) /\ DOMAIN hist' = Range(Unique)
  <2>1. <<>> \in Seq(SUBSET Tuples)
    OBVIOUS
  <2> QED
    BY Zenon, <1>1, <1>2, <2>1
<1>6. Control'
  BY Zenon, <1>1, <1>2, <1>5 DEF Control
<1>7. ASSUME Sites[site].disc = {} PROVE Meaning'
  <2>1. /\ Best(site) = {} => Hard(site) = {}
        /\ Models(frames) = Best(site) /\ Unseen(Range(Unique)) = {}
        /\ \A i \in DOMAIN Unique : Unseen(Range(Unique) \ {Unique[i]}) = {}
    BY Zenon, <1>1, <1>4, <1>7 DEF IInv, Meaning
  <2>2. CASE pc' = "assign"
    <3>1. ASSUME NEW u \in Best(site), Repeated(u) = {} PROVE FALSE
      BY Zenon, <2>1, <3>1 DEF Unseen
    <3>2. ASSUME NEW u \in Best(site), NEW i \in DOMAIN Unique, Repeated(u) \subseteq {Unique[i]}
          PROVE  FALSE
      <4>1. Repeated(u) \cap (Range(Unique) \ {Unique[i]}) = {}
        BY Zenon, <3>2
      <4> QED
        BY Zenon, <2>1, <4>1 DEF Unseen
    <3>3. ASSUME NEW t PROVE Sparing(t)
      BY Zenon, <3>1, <3>2 DEF Sparing
    <3>4. ASSUME NEW t PROVE Sparing(t)' <=> Sparing(t)
      BY Zenon, <1>1, SameSparing
    <3>5. \A t \in Models(frames') : t \in Best(site') /\ Sparing(t)'
      BY Zenon, <1>1, <2>1, <2>2, <3>3, <3>4
    <3> QED
      BY Zenon, <2>2, <3>5 DEF Meaning
  <2>3. CASE pc' = "idle"
    <3>1. Hard(site) = {} /\ status' = "unsat"
      BY Zenon, <1>1, <2>1, <2>3 DEF Check
    <3>2. SolveContract' /\ MinimalRepeat'
      BY Zenon, <1>1, <3>1 DEF SolveContract, MinimalRepeat
    <3> QED
      BY Zenon, <2>3, <3>2 DEF Meaning
  <2> QED
    BY Zenon, <1>1, <2>2, <2>3
<1> QED
  BY Zenon, <1>1, <1>6, <1>7 DEF IInv

\* Whichever solution is assigned.
LEMMA AssignInv == ASSUME IInv, Assign PROVE IInv'
<1>1. /\ pc = "assign" /\ pc' = "idle" /\ status' = "ok" /\ site' = site /\ before' = before
      /\ result' \in Models(frames) /\ frames' = <<>>
      /\ hist' = [f \in Range(Unique) |-> hist[f] \cup {result'[f]}]
  BY Zenon DEF Assign, Return
<1>2. frames' \in Seq(SUBSET Tuples) /\ site' \in DOMAIN Sites
  <2>1. <<>> \in Seq(SUBSET Tuples)
    OBVIOUS
  <2> QED
    BY Zenon, <1>1, <2>1 DEF IInv, Control
<1>3. DOMAIN hist' = Range(Unique)
  BY Zenon, <1>1
<1>4. Control'
  BY Zenon, <1>1, <1>2, <1>3 DEF Control
<1>5. ASSUME Sites[site].disc = {} PROVE Meaning'
  <2>1. \A t \in Models(frames) : t \in Best(site) /\ Sparing(t)
    BY Zenon, <1>1, <1>5 DEF IInv, Meaning
  <2>2. PICK r : r = result'
    BY Zenon
  <2>3. r \in Best(site) /\ Sparing(r) /\ (Sparing(r)' <=> Sparing(r))
    BY Zenon, <1>1, <2>1, <2>2, SameSparing
  <2>4. SolveContract'
    BY Zenon, <1>1, <2>2, <2>3 DEF SolveContract
  <2>5. MinimalRepeat'
    BY Zenon, <1>1, <2>2, <2>3 DEF MinimalRepeat
  <2> QED
    BY Zenon, <1>1, <2>4, <2>5 DEF Meaning
<1> QED
  BY Zenon, <1>1, <1>4, <1>5 DEF IInv

\* Every step of a call.
LEMMA NextInv == ASSUME IInv, [Next]_vars PROVE IInv'
<1>1. CASE \E s \in DOMAIN Sites : Begin(s)
  BY Zenon, <1>1, BeginInv
<1>2. CASE Discriminate
  BY Zenon, <1>2, DiscriminateInv
<1>3. CASE SoftStep
  BY Zenon, <1>3, SoftStepInv
<1>4. CASE Select
  BY Zenon, <1>4, SelectInv
<1>5. CASE Prefer
  BY Zenon, <1>5, PreferInv
<1>6. CASE FinalCheck
  BY Zenon, <1>6, FinalCheckInv
<1>7. CASE RecycleOne
  BY Zenon, <1>7, RecycleOneInv
<1>8. CASE RecycleAll
  BY Zenon, <1>8, RecycleAllInv
<1>9. CASE Assign
  BY Zenon, <1>9, AssignInv
<1>10. CASE UNCHANGED vars
  <2>1. UNCHANGED <<pc, site, frames, k, hist, status, result, before>>
    BY Zenon, <1>10 DEF vars, solver, store, ghosts
  <2> QED
    BY <2>1 DEF IInv, Control, Meaning, Settled, Unseen, SolveContract, MinimalRepeat,
                Sparing, Repeated
<1> QED
  BY Zenon, <1>1, <1>2, <1>3, <1>4, <1>5, <1>6, <1>7, <1>8, <1>9, <1>10 DEF Next

\* What the stack means at every step of every call.
LEMMA Invariance == Spec => []IInv
<1>1. Init => IInv
  BY InitInv
<1>2. IInv /\ [Next]_vars => IInv'
  BY NextInv
<1> QED
  BY <1>1, <1>2, PTL DEF Spec

\* A call of `randomize` without `when` guards fails only when its hard
\* constraints have no solution, and otherwise assigns one that respects the
\* soft constraints in the order of their weights: the frames popped on the
\* way, the preference tried and the histories forgotten lose no solution and
\* admit none that is worse.
THEOREM Contract == Spec => []SolveContract
<1>1. IInv => SolveContract
  <2> SUFFICES ASSUME IInv, pc = "idle", Sites[site].disc = {} PROVE SolveContract
    BY Zenon DEF SolveContract
  <2> QED
    BY Zenon DEF IInv, Meaning
<1> QED
  BY <1>1, Invariance, PTL

\* A call repeats a value of a `[unique within ...]` field only when all of
\* its best solutions do, and then in one field only, the first that allows
\* it, whenever one field is enough.
THEOREM Spared == Spec => []MinimalRepeat
<1>1. IInv => MinimalRepeat
  <2> SUFFICES ASSUME IInv, pc = "idle", Sites[site].disc = {} PROVE MinimalRepeat
    BY Zenon DEF MinimalRepeat
  <2> QED
    BY Zenon DEF IInv, Meaning
<1> QED
  BY <1>1, Invariance, PTL

-----------------------------------------------------------------------------
\* The coverage report.

\* A goal speaks of goal fields only, so the part of a tuple that is kept for
\* the report decides whether the tuple agrees with it.
LEMMA KeptPart ==
  ASSUME NEW s \in DOMAIN Sites, NEW t \in Tuples, NEW g \in Goals[s]
  PROVE  Agrees(Restrict(t, Range(Sites[s].goals)), g) <=> Agrees(t, g)
<1> DEFINE G == Range(Sites[s].goals)
           V == Range(Values)
<1>0. Goals[s] = UNION {UNION {[{f, h} -> V] : f \in G} : h \in G}
  BY DEF Goals
<1> HIDE DEF G, V
<1>1. PICK f \in G, h \in G : g \in [{f, h} -> V]
  <2>1. PICK h \in G : g \in UNION {[{f, h} -> V] : f \in G}
    BY ONLY Zenon, <1>0, g \in Goals[s]
  <2> QED
    BY ONLY Zenon, <2>1
<1> USE DEF G
<1>2. DOMAIN g \subseteq G
  BY Zenon, <1>1
<1>3. DOMAIN t = Fields /\ G \subseteq Fields
  BY Zenon, SitesAssumption DEF Tuples
<1>4. /\ DOMAIN Restrict(t, G) = G
      /\ \A x \in G : Restrict(t, G)[x] = t[x]
  BY Zenon, <1>3 DEF Restrict
<1> QED
  BY Zenon, <1>2, <1>3, <1>4 DEF Agrees

\* Before the first call nothing is hit.
LEMMA HitInit == Init => HitInv
<1> SUFFICES ASSUME Init PROVE HitInv
  OBVIOUS
<1>1. hit = [s \in DOMAIN Sites |-> {}] /\ drawn = [s \in DOMAIN Sites |-> {}]
  BY Zenon DEF Init
<1> QED
  BY Zenon, <1>1 DEF HitInv, HonestHits

\* Only Assign marks goals, those the tuple agrees with.
LEMMA HitNext == ASSUME IInv, HitInv, [Next]_vars PROVE HitInv'
<1>1. CASE UNCHANGED <<hit, drawn>>
  BY Zenon, <1>1 DEF HitInv, HonestHits
<1>2. CASE Assign
  <2>1. PICK r : r = result'
    BY Zenon
  <2> DEFINE new == {g \in Goals[site] : Agrees(r, g)}
             kept == Restrict(r, Range(Sites[site].goals))
  <2>2. /\ r \in Tuples /\ site \in DOMAIN Sites
        /\ hit' = [hit EXCEPT ![site] = @ \cup new]
        /\ drawn' = [drawn EXCEPT ![site] = @ \cup {kept}]
    BY Zenon, <1>2, <2>1 DEF Assign, Models, IInv, Control
  <2>3. \A g \in Goals[site] : Agrees(kept, g) <=> Agrees(r, g)
    BY Zenon, <2>2, KeptPart
  <2> HIDE DEF new, kept
  <2>4. /\ DOMAIN hit' = DOMAIN Sites /\ DOMAIN drawn' = DOMAIN Sites
        /\ hit'[site] = hit[site] \cup new /\ drawn'[site] = drawn[site] \cup {kept}
        /\ \A s \in DOMAIN Sites \ {site} : hit'[s] = hit[s] /\ drawn'[s] = drawn[s]
    BY Zenon, <2>2 DEF HitInv
  <2>5. ASSUME NEW s \in DOMAIN Sites
        PROVE  hit'[s] = {g \in Goals[s] : \E t \in drawn'[s] : Agrees(t, g)}
    <3>1. hit[s] = {g \in Goals[s] : \E t \in drawn[s] : Agrees(t, g)}
      BY Zenon DEF HitInv, HonestHits
    <3>2. CASE s = site
      <4>1. new = {g \in Goals[s] : Agrees(kept, g)}
        BY Zenon, <2>3, <3>2 DEF new
      <4>2. ASSUME NEW g \in Goals[s]
            PROVE  (\E t \in drawn'[s] : Agrees(t, g))
                     <=> (\E t \in drawn[s] : Agrees(t, g)) \/ Agrees(kept, g)
        BY Zenon, <2>4, <3>2
      <4>3. hit'[s] = hit[s] \cup new
        BY Zenon, <2>4, <3>2
      <4> QED
        BY ONLY Zenon, <3>1, <4>1, <4>2, <4>3
    <3> QED
      BY Zenon, <2>4, <3>1, <3>2
  <2> QED
    BY Zenon, <2>4, <2>5 DEF HitInv, HonestHits
<1> QED
  BY Zenon, <1>1, <1>2 DEF Next, Begin, Discriminate, SoftStep, Select, Prefer, FinalCheck,
     RecycleOne, RecycleAll, vars, solver, store, ghosts

\* A coverage goal counts as hit exactly when a tuple assigned at its site
\* agrees with it, never because it was selected.
THEOREM Honest == Spec => []HonestHits
<1>1. Init => HitInv
  BY HitInit
<1>2. IInv /\ HitInv /\ [Next]_vars => HitInv'
  BY HitNext
<1>3. HitInv => HonestHits
  BY DEF HitInv
<1> QED
  BY <1>1, <1>2, <1>3, Invariance, PTL DEF Spec
=============================================================================
