----------------------------- MODULE Randomize -----------------------------
(***************************************************************************)
(* A solver-backed `randomize(t) with ...`: the C++ that every call site   *)
(* gets (codegen/randomize_renderer.rs) and the state that outlives a call *)
(* (runtime/harc_random_rt.h): the histories of `[unique within ...]`      *)
(* fields, shared by the call sites, and the automatic coverage goals of   *)
(* each site.                                                              *)
(*                                                                         *)
(* A solution is a tuple of field values.  A constraint is the set of its  *)
(* solutions, the Z3 solver a stack of frames with one such set each, and  *)
(* check() asks whether the frames have a solution in common.  What Z3     *)
(* returns and what the seed prefers are arbitrary choices.                *)
(***************************************************************************)
EXTENDS Integers, Sequences, Functions

CONSTANTS
  Fields,   \* the scalar fields of the transaction
  Values,   \* the values of a field, in the order of the coverage tables
  Unique,   \* the fields with a persistent history, in declaration order
  Sites     \* the call sites: name |-> what the compiler emits for it

Tuples == [Fields -> Range(Values)]

(* A site: `base`, the field ranges and unguarded hard constraints;        *)
(* `branch`, the constraints guarded by `when`; `disc`, the fields the     *)
(* guards read; `softs`, the soft constraints by weight; `free`, the       *)
(* fields preferences are drawn for; `goals`, those among them that no     *)
(* hard constraint mentions, which have coverage goals.                    *)
ASSUME SitesAssumption ==
  /\ Unique \in Seq(Fields)
  /\ \A s \in DOMAIN Sites :
       /\ Sites[s].base \subseteq Tuples /\ Sites[s].branch \subseteq Tuples
       /\ Sites[s].disc \subseteq Fields
       /\ Sites[s].softs \in Seq(SUBSET Tuples)
       /\ Range(Sites[s].goals) \subseteq Sites[s].free
       /\ Sites[s].free \subseteq Fields

VARIABLES
  pc, site,   \* the step of the call in progress, and its site
  frames,     \* the solver's assertion stack
  k,          \* position in the soft constraints or the unique fields
  selection,  \* the coverage goal this call prefers; <<>> if none
  hist,       \* values each unique field has taken
  hit,        \* goals hit, per site
  deferred,   \* goals put off until the end of the sweep, per site
  status,     \* what the last call returned
  result,     \* the tuple the last successful call assigned
  before,     \* history: hist when the call began
  drawn       \* history: what was assigned to the goals' fields, per site

solver == <<frames, k, selection>>
store == <<hist, hit, deferred>>
ghosts == <<before, drawn>>
vars == <<pc, site, solver, store, status, result, ghosts>>

\* A goal is a partial assignment: one field (a point) or two (a cross).
Agrees(t, g) == \A f \in DOMAIN g : t[f] = g[f]

\* The goals of a site: a value for each of its fields, and two for each pair.
\* Pairs of more than 64 bins, and pairs after the sixteenth, which the compiler
\* leaves out, are not in the model: sites are below both limits.
Goals ==
  [s \in DOMAIN Sites |->
    LET fs == Range(Sites[s].goals)
    IN UNION {UNION {[{f, g} -> Range(Values)] : f \in fs} : g \in fs}]

\* The order in which they are tried: crosses before points, field by field.
Join(seqs) ==
  MapThenFoldSet(LAMBDA x, y : x \o y, <<>>, LAMBDA i : seqs[i],
                 LAMBDA I : CHOOSE i \in I : \A j \in I : i <= j, DOMAIN seqs)
Bins(f) == [i \in DOMAIN Values |-> [x \in {f} |-> Values[i]]]
Points(s) ==
  Join([i \in DOMAIN Sites[s].goals |-> Bins(Sites[s].goals[i])])
Pairing(f, g) ==
  Join([i \in DOMAIN Values |->
    [j \in DOMAIN Values |->
      [x \in {f, g} |-> IF x = f THEN Values[i] ELSE Values[j]]]])
Crosses(s) ==
  LET fs == Sites[s].goals
  IN Join([i \in DOMAIN fs |->
       Join([j \in 1 .. Len(fs) - i |-> Pairing(fs[i], fs[i + j])])])
Table == [s \in DOMAIN Sites |-> Crosses(s) \o Points(s)]

TypeOK ==
  /\ pc \in {"idle", "discriminate", "soft", "prefer", "check", "recycle", "assign"}
  /\ site \in DOMAIN Sites
  /\ \A i \in DOMAIN frames : frames[i] \subseteq Tuples
  /\ selection \in {<<>>} \cup Goals[site]
  /\ hist \in [Range(Unique) -> SUBSET Range(Values)]
  /\ \A s \in DOMAIN Sites : hit[s] \subseteq Goals[s] /\ deferred[s] \subseteq Goals[s]
  /\ status \in {"none", "ok", "unsat"}
  /\ result \in Tuples

\* A transaction nothing has been assigned to.
Fresh == [f \in Fields |-> Values[1]]

Init ==
  /\ pc = "idle" /\ site \in DOMAIN Sites
  /\ frames = <<>> /\ k = 0 /\ selection = <<>>
  /\ hist = [f \in Range(Unique) |-> {}]
  /\ hit = [s \in DOMAIN Sites |-> {}] /\ deferred = [s \in DOMAIN Sites |-> {}]
  /\ status = "none" /\ result = Fresh
  /\ before = hist /\ drawn = [s \in DOMAIN Sites |-> {}]
-----------------------------------------------------------------------------
(* The solver.                                                             *)

Models(stack) == {t \in Tuples : \A i \in DOMAIN stack : t \in stack[i]}
Check(stack) == Models(stack) # {}
Push(stack, c) == Append(stack, c)
Pop(stack) == SubSeq(stack, 1, Len(stack) - 1)

\* The tuples that repeat no value from the histories of fs.
Avoiding(fs) == {t \in Tuples : \A f \in fs : t[f] \notin hist[f]}
-----------------------------------------------------------------------------
(* One call.                                                               *)

\* The solver, its loop variables and the selection are locals of the call.
Return == frames' = <<>> /\ k' = 0 /\ selection' = <<>>

Begin(s) ==
  /\ pc = "idle" /\ pc' = "discriminate" /\ site' = s
  /\ frames' = <<Sites[s].base>>
  /\ status' = "none" /\ result' = Fresh
  /\ before' = hist
  /\ UNCHANGED <<k, selection, store, drawn>>

\* The discriminators are fixed by a solve of their own, then the guarded
\* constraints are added.
Discriminate ==
  /\ pc = "discriminate" /\ pc' = "soft" /\ k' = 1
  /\ \E m \in IF Sites[site].disc # {} /\ Check(frames) THEN Models(frames)
              ELSE {[f \in {} |-> 0]} :
       LET fixed == {t \in Tuples :
                       \A f \in Sites[site].disc \cap DOMAIN m : t[f] = m[f]}
       IN frames' = <<frames[1] \cap fixed \cap Sites[site].branch>>
  /\ UNCHANGED <<site, selection, store, status, result, ghosts>>

\* A soft constraint stays on the stack if the rest still has a solution.
SoftStep ==
  /\ pc = "soft" /\ k <= Len(Sites[site].softs)
  /\ LET tried == Push(frames, Sites[site].softs[k])
     IN frames' = IF Check(tried) THEN tried ELSE Pop(tried)
  /\ k' = k + 1
  /\ UNCHANGED <<pc, site, selection, store, status, result, ghosts>>

\* Goals the selectors may pick.
Open(s) == Goals[s] \ (hit[s] \cup deferred[s])

\* The first of them.
Pick(s) ==
  IF Open(s) = {} THEN <<>>
  ELSE Table[s][CHOOSE i \in DOMAIN Table[s] :
                  /\ Table[s][i] \in Open(s)
                  /\ \A j \in 1 .. i - 1 : Table[s][j] \notin Open(s)]

\* Mutant: a finished sweep leaves its goals deferred.
SelectKeepsDeferred ==
  /\ pc = "soft" /\ k > Len(Sites[site].softs) /\ pc' = "prefer"
  /\ selection' = Pick(site)
  /\ UNCHANGED <<site, frames, k, deferred, hist, hit, status, result, ghosts>>

\* A sweep that is over is followed by a call without a goal, which lets the
\* next one retry what was deferred (harc_auto_cov_finish_selection).
Select ==
  /\ pc = "soft" /\ k > Len(Sites[site].softs) /\ pc' = "prefer"
  /\ selection' = Pick(site)
  /\ deferred' = IF selection' = <<>> THEN [deferred EXCEPT ![site] = {}]
                 ELSE deferred
  /\ UNCHANGED <<site, frames, k, hist, hit, status, result, ghosts>>

\* The history frame, then a preferred value for every free field: the goal's
\* own, or a seeded draw.  A preference without a solution is dropped and its
\* goal deferred.
Prefer ==
  /\ pc = "prefer" /\ pc' = "check"
  /\ \E seed \in Tuples :
       LET pref == [f \in Fields |->
                      IF f \in DOMAIN selection THEN selection[f] ELSE seed[f]]
           clause == {t \in Tuples : \A f \in Sites[site].free : t[f] = pref[f]}
           unseen == Push(frames, Avoiding(Range(Unique)))
           tried == Push(unseen, clause)
       IN IF Check(tried)
          THEN frames' = tried /\ UNCHANGED deferred
          ELSE /\ frames' = Push(Pop(tried), Tuples)
               /\ deferred' = [deferred EXCEPT ![site] =
                                 @ \cup ({selection} \ {<<>>})]
  /\ UNCHANGED <<site, k, selection, hist, hit, status, result, ghosts>>

\* Mutant: the history frame stays on the stack.
FinalCheckPopsOnce ==
  /\ pc = "check"
  /\ \/ Check(frames) /\ pc' = "assign" /\ UNCHANGED <<frames, k>>
     \/ ~Check(frames) /\ pc' = "recycle" /\ frames' = Pop(frames) /\ k' = 1
  /\ UNCHANGED <<site, selection, store, status, result, ghosts>>

\* The final check.  Without a solution the preference and history frames are
\* dropped and the histories are reconsidered.
FinalCheck ==
  /\ pc = "check"
  /\ \/ Check(frames) /\ pc' = "assign" /\ UNCHANGED <<frames, k>>
     \/ ~Check(frames) /\ pc' = "recycle" /\ frames' = Pop(Pop(frames)) /\ k' = 1
  /\ UNCHANGED <<site, selection, store, status, result, ghosts>>

\* Mutant: the other histories are not asserted again.
RecycleAlone ==
  /\ pc = "recycle" /\ k <= Len(Unique)
  /\ LET tried == Push(frames, Avoiding({}))
     IN IF Check(tried)
        THEN /\ frames' = tried /\ hist' = [hist EXCEPT ![Unique[k]] = {}]
             /\ pc' = "assign" /\ k' = k
        ELSE frames' = Pop(tried) /\ k' = k + 1 /\ UNCHANGED <<pc, hist>>
  /\ UNCHANGED <<site, selection, hit, deferred, status, result, ghosts>>

\* Would it do to forget the history of the k-th unique field alone?
RecycleOne ==
  /\ pc = "recycle" /\ k <= Len(Unique)
  /\ LET tried == Push(frames, Avoiding(Range(Unique) \ {Unique[k]}))
     IN IF Check(tried)
        THEN /\ frames' = tried /\ hist' = [hist EXCEPT ![Unique[k]] = {}]
             /\ pc' = "assign" /\ k' = k
        ELSE frames' = Pop(tried) /\ k' = k + 1 /\ UNCHANGED <<pc, hist>>
  /\ UNCHANGED <<site, selection, hit, deferred, status, result, ghosts>>

\* Otherwise all of them are forgotten; a call that still has no solution
\* fails.
RecycleAll ==
  /\ pc = "recycle" /\ k > Len(Unique)
  /\ hist' = [f \in Range(Unique) |-> {}]
  /\ \/ Check(frames) /\ pc' = "assign" /\ UNCHANGED <<solver, status>>
     \/ ~Check(frames) /\ pc' = "idle" /\ status' = "unsat" /\ Return
  /\ UNCHANGED <<site, hit, deferred, result, ghosts>>

\* Mutant: the goal preferred counts as hit.
AssignSelected ==
  /\ pc = "assign" /\ pc' = "idle" /\ status' = "ok"
  /\ result' \in Models(frames)
  /\ hist' = [f \in Range(Unique) |-> hist[f] \cup {result'[f]}]
  /\ hit' = [hit EXCEPT ![site] = @ \cup {g \in Goals[site] : Agrees(result', g) \/ g = selection}]
  /\ drawn' = [drawn EXCEPT ![site] =
                 @ \cup {Restrict(result', Range(Sites[site].goals))}]
  /\ Return
  /\ UNCHANGED <<site, deferred, before>>

\* Any model of the frames: assigned, remembered, and marked in every table.
Assign ==
  /\ pc = "assign" /\ pc' = "idle" /\ status' = "ok"
  /\ result' \in Models(frames)
  /\ hist' = [f \in Range(Unique) |-> hist[f] \cup {result'[f]}]
  /\ hit' = [hit EXCEPT ![site] = @ \cup {g \in Goals[site] : Agrees(result', g)}]
  /\ drawn' = [drawn EXCEPT ![site] =
                 @ \cup {Restrict(result', Range(Sites[site].goals))}]
  /\ Return
  /\ UNCHANGED <<site, deferred, before>>

Next ==
  \/ \E s \in DOMAIN Sites : Begin(s)
  \/ Discriminate \/ SoftStep \/ Select \/ Prefer \/ FinalCheck
  \/ RecycleOne \/ RecycleAll \/ Assign

\* The calls are synchronous code of a running test.
Spec == Init /\ [][Next]_vars /\ WF_vars(Next)
-----------------------------------------------------------------------------
Hard(s) == Sites[s].base \cap Sites[s].branch

\* The i-th soft constraint speaks for u against t: u satisfies it and t does
\* not, and u satisfies all that t satisfies of those before it.
Prevails(u, t, softs, i) ==
  /\ u \in softs[i] /\ t \notin softs[i]
  /\ \A j \in 1 .. i - 1 : t \in softs[j] => u \in softs[j]

\* The best solutions as far as the first n soft constraints go.
BestOf(s, n) ==
  {t \in Hard(s) : \A u \in Hard(s), i \in 1 .. n : ~ Prevails(u, t, Sites[s].softs, i)}
Best(s) == BestOf(s, Len(Sites[s].softs))

(* The contract of a call without `when` guards: it fails only when its     *)
(* hard constraints have no solution, whatever was preferred, covered or    *)
(* remembered before; otherwise the tuple satisfies them, and the soft      *)
(* constraints in the order of their weights as far as they are compatible. *)
SolveContract ==
  pc = "idle" /\ Sites[site].disc = {} =>
    /\ status = "unsat" => Hard(site) = {}
    /\ status = "ok" => result \in Best(site)

\* The unique fields in which t repeats a value known when the call began.
Repeated(t) == {f \in Range(Unique) : t[f] \in before[f]}

(* No value of a `[unique within ...]` field is repeated while it can be    *)
(* avoided, and if it can be avoided in all fields but one, then it is, in  *)
(* all but the first that will do: forgetting one field's history must not  *)
(* forget another's.                                                        *)
Sparing(r) ==
  \A t \in Best(site) :
    /\ Repeated(t) = {} => Repeated(r) = {}
    /\ \A i \in DOMAIN Unique : Repeated(t) \subseteq {Unique[i]} =>
          \E j \in 1 .. i : Repeated(r) \subseteq {Unique[j]}
MinimalRepeat ==
  pc = "idle" /\ status = "ok" /\ Sites[site].disc = {} => Sparing(result)

(* The coverage report is honest: a goal counts as hit exactly when some    *)
(* tuple its site assigned agrees with it, also when the goal was selected  *)
(* and its preference then dropped.                                         *)
HonestHits ==
  \A s \in DOMAIN Sites :
    hit[s] = {g \in Goals[s] : \E t \in drawn[s] : Agrees(t, g)}

(* Goals that cannot be reached starve nobody, and nothing is given up:     *)
(* while a site goes on being called, every goal is hit or is preferred     *)
(* again and again, however often it was deferred.                          *)
Steered ==
  \A s \in DOMAIN Sites : \A g \in Goals[s] :
    []<>(pc = "discriminate" /\ site = s)
      => []<>(g \in hit[s] \/ (site = s /\ selection = g))
-----------------------------------------------------------------------------
(* Why: what the solver's stack means at each step of a call.              *)

Control ==
  /\ pc \in {"idle", "discriminate", "soft", "prefer", "check", "recycle", "assign"}
  /\ site \in DOMAIN Sites /\ frames \in Seq(SUBSET Tuples)
  /\ DOMAIN hist = Range(Unique)
  /\ pc = "soft" => k \in 1 .. Len(Sites[site].softs) + 1
  /\ pc = "recycle" => k \in 1 .. Len(Unique) + 1
  /\ pc \notin {"idle", "assign"} => before = hist

\* The best solutions that repeat no value of the fields fs.
Unseen(fs) == {t \in Best(site) : Repeated(t) \cap fs = {}}

\* Soft constraints passed are kept by all that is left or by none of it.
Settled(n) ==
  LET softs == Sites[site].softs
  IN  /\ Models(frames) = BestOf(site, n)
      /\ \A t, u \in Models(frames), i \in 1 .. n : t \in softs[i] <=> u \in softs[i]
      /\ Models(frames) = {} => Hard(site) = {}

Meaning ==
  /\ pc = "discriminate" => frames = <<Sites[site].base>>
  /\ pc = "soft" => Settled(k - 1)
  /\ pc \in {"prefer", "check", "recycle"} => (Best(site) = {} => Hard(site) = {})
  /\ pc = "prefer" => Models(frames) = Best(site)
  /\ pc = "check" =>
       /\ Models(Pop(Pop(frames))) = Best(site)
       /\ Models(frames) \subseteq Unseen(Range(Unique))
       /\ Models(frames) = {} => Unseen(Range(Unique)) = {}
  /\ pc = "recycle" =>
       /\ Models(frames) = Best(site) /\ Unseen(Range(Unique)) = {}
       /\ \A i \in 1 .. k - 1 : Unseen(Range(Unique) \ {Unique[i]}) = {}
  /\ pc = "assign" => \A t \in Models(frames) : t \in Best(site) /\ Sparing(t)
  /\ pc = "idle" => SolveContract /\ MinimalRepeat

IInv == Control /\ (Sites[site].disc = {} => Meaning)

HitInv ==
  /\ DOMAIN hit = DOMAIN Sites /\ DOMAIN drawn = DOMAIN Sites
  /\ HonestHits
=============================================================================
