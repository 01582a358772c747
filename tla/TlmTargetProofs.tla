-------------------------- MODULE TlmTargetProofs --------------------------
(***************************************************************************)
(* The two kinds of responders, with an initiator that is not back to      *)
(* back: a request the DUT sees accepted has been captured, every response *)
(* answers the request it is taken for, and a response is held until it is *)
(* taken.  Posedges without a tick may go by at any time; the theorems     *)
(* claim nothing from one that falls into a handshake until all is at      *)
(* rest again.                                                             *)
(*                                                                         *)
(* Tagged (TlmTaggedTarget): for every number of lanes, every set of       *)
(* arguments, every choice of bodies that wait at least a cycle and both   *)
(* ways of registering the coroutines.  Blocking (TlmTarget, at the end):  *)
(* for every set of arguments and every length of the body.                *)
(***************************************************************************)
EXTENDS TlmTaggedTarget, TLAPS

\* The blocking responder.  Its variables and these have names in common and
\* nothing else: no theorem speaks of both.
CONSTANT MaxBody
VARIABLES woken, dut, arg, local
Blocking == INSTANCE TlmTarget

\* What the invariant says while no handshake has slipped by.
Undisturbed == TypeOK /\ Ticking /\ Serving

-----------------------------------------------------------------------------
\* The dispatcher, the arbiter and the lanes are different coroutines.
LEMMA CoroutineFacts ==
  /\ Dispatcher \in Coroutines /\ Arbiter \in Coroutines /\ Dispatcher # Arbiter
  /\ \A t \in Tags : Lane(t) \in Coroutines /\ Lane(t) # Dispatcher /\ Lane(t) # Arbiter
  /\ \A t, u \in Tags : Lane(t) = Lane(u) => t = u
  BY ConstantsAssumption DEF Dispatcher, Arbiter, Coroutines, Lane, Tags

\* The tag on the wires is one that has a request.
LEMMA RequestTag == req_valid => req_tag \in Requested
  BY Zenon DEF req_valid, req_tag, Requested

\* Registered with one scheduler or with one each, the coroutines are shared out.
LEMMA InitTicking == Init => Ticking
<1> SUFFICES ASSUME Init PROVE Ticking
  OBVIOUS
<1>1. phase = "tick" /\ turn = Len(scheds) /\ ready = scheds[turn] /\ resumed = ready
  BY Zenon DEF Init
<1>2. CASE scheds = <<Coroutines>>
  <2>1. Len(scheds) = 1 /\ scheds[1] = Coroutines
    BY <1>2
  <2> QED
    BY <1>1, <2>1, CoroutineFacts DEF Ticking
<1>3. CASE scheds = [i \in 1 .. NTags + 2 |-> {i - 1}]
  <2>1. Len(scheds) = NTags + 2
    BY <1>3, ConstantsAssumption
  <2>2. \A i \in 1 .. Len(scheds) : scheds[i] = {i - 1}
    BY Zenon, <1>3, <2>1
  <2>3. Len(scheds) \in Nat \ {0}
    BY <2>1, ConstantsAssumption
  <2>4. \A i \in 1 .. Len(scheds) :
          /\ scheds[i] \subseteq Coroutines
          /\ Dispatcher \in scheds[i] <=> i = 1
          /\ Arbiter \in scheds[i] <=> i = Len(scheds)
          /\ \A j \in 1 .. Len(scheds) : i # j => scheds[i] \cap scheds[j] = {}
    BY <2>1, <2>2, ConstantsAssumption DEF Coroutines, Dispatcher, Arbiter
  <2> QED
    BY <1>1, <2>3, <2>4 DEF Ticking
<1> QED
  BY Zenon, <1>2, <1>3 DEF Init

\* The invariant holds once bootstrap() has run the coroutines.
LEMMA InitInv == Init => IInv
<1> SUFFICES ASSUME Init PROVE IInv
  OBVIOUS
<1>1. Ticking
  BY Zenon, InitTicking
<1>2. pc[Dispatcher] = "accept" /\ pc[Arbiter] = "idle" /\ \A t \in Tags : pc[Lane(t)] = "wait"
  BY CoroutineFacts DEF Init
<1>3. 0 \in Tags /\ turn \in 1 .. Len(scheds) /\ ready \subseteq Coroutines
  <2>1. turn = Len(scheds) /\ ready = scheds[turn]
    BY Zenon DEF Init
  <2>2. 0 \in Tags /\ turn \in 1 .. Len(scheds)
    BY <1>1, <2>1, ConstantsAssumption DEF Tags, Ticking
  <2> QED
    BY Zenon, <1>1, <2>1, <2>2 DEF Ticking
<1>4. \A t \in Tags : /\ stage[t] = "idle" /\ ~ lane_busy[t] /\ ~ lane_req_valid[t]
                      /\ ~ lane_rsp_valid[t]
  BY Zenon DEF Init
<1>5. TypeOK
  <2>1. /\ lane_busy \in [Tags -> BOOLEAN] /\ lane_req_valid \in [Tags -> BOOLEAN]
        /\ lane_rsp_valid \in [Tags -> BOOLEAN]
        /\ rsp_ready \in BOOLEAN /\ req_ready \in BOOLEAN /\ rsp_valid \in BOOLEAN
        /\ slipped \in BOOLEAN
    BY Zenon DEF Init
  <2>2. /\ stage \in [Tags -> {"idle", "request", "wait"}] /\ left \in [Tags -> Nat]
        /\ pc \in [Coroutines -> {"accept", "rearm", "wait", "body", "clear", "idle", "offer", "hold"}]
    BY DEF Init
  <2>3. /\ asked \in [Tags -> Args] /\ lane_arg \in [Tags -> Args]
        /\ lane_rsp_data \in [Tags -> Args] /\ rsp_data \in Args
    BY Zenon, ConstantsAssumption DEF Init
  <2> QED
    BY Zenon, <1>3, <2>1, <2>2, <2>3 DEF Init, TypeOK
<1>6. Requested = {} /\ resumed = ready /\ phase = "tick" /\ ~ req_valid /\ ~ rsp_valid
  BY <1>4 DEF Init, Requested, req_valid
<1>7. Dispatching
  BY <1>2, <1>6 DEF Dispatching
<1>8. Arbitrating
  BY <1>2, <1>6 DEF Arbitrating
<1>9. \A t \in Tags : Owned(t) /\ Due(t)
  BY <1>2, <1>4, <1>6 DEF Owned, Due, Outstanding, Fresh
<1> QED
  BY Zenon, <1>1, <1>5, <1>7, <1>8, <1>9 DEF IInv, Serving

-----------------------------------------------------------------------------
\* What resuming a coroutine does to the tick, whatever the coroutine does.
LEMMA ResumeFacts ==
  ASSUME NEW c, TypeOK, Ticking, Resume(c)
  PROVE  /\ phase = "tick" /\ phase' = "tick" /\ c \in ready /\ c \notin resumed
         /\ turn' = turn /\ ready' = ready /\ scheds' = scheds /\ turn \in 1 .. Len(scheds)
         /\ stage' = stage /\ asked' = asked /\ rsp_ready' = rsp_ready /\ req_ready' = req_ready
         /\ slipped' = slipped
         /\ c \in resumed' /\ \A d : d # c => (d \in resumed' <=> d \in resumed)
         /\ Ticking' /\ resumed' \subseteq ready'
         /\ Requested' = Requested /\ (req_valid' <=> req_valid)
         /\ Decided' <=> Decided \/ c = Dispatcher
         /\ Looked' <=> Looked \/ c = Arbiter
         /\ \A d : Ahead(d)' <=> Ahead(d) /\ d # c
<1>1. /\ phase = "tick" /\ phase' = "tick" /\ c \in ready /\ c \notin resumed
      /\ turn' = turn /\ ready' = ready /\ scheds' = scheds /\ turn \in 1 .. Len(scheds)
      /\ stage' = stage /\ asked' = asked /\ rsp_ready' = rsp_ready /\ req_ready' = req_ready
      /\ slipped' = slipped /\ resumed' = resumed \cup {c}
  BY Zenon DEF Resume, initiator, TypeOK
<1>2. c \in resumed' /\ \A d : d # c => (d \in resumed' <=> d \in resumed)
  BY Zenon, <1>1
<1>3. Ticking' /\ resumed' \subseteq ready'
  BY Zenon, <1>1 DEF Ticking
<1>4. Requested' = Requested /\ (req_valid' <=> req_valid)
  BY Zenon, <1>1 DEF Requested, req_valid
<1>5. c \in scheds[turn] /\ ready # {} /\ ready' # {}
  BY Zenon, <1>1 DEF Ticking
<1>6. Decided' <=> Decided \/ c = Dispatcher
  <2>1. (turn > 1)' <=> turn > 1
    BY Zenon, <1>1
  <2>2. phase # "posedge" /\ phase' # "posedge"
    BY <1>1
  <2> QED
    BY Zenon, <1>1, <1>2, <1>5, <2>1, <2>2 DEF Decided
<1>7. Looked' <=> Looked \/ c = Arbiter
  <2>1. phase # "posedge" /\ phase' # "posedge"
    BY <1>1
  <2> QED
    BY Zenon, <1>1, <1>2, <1>5, <2>1 DEF Looked
<1>8. \A d : Ahead(d)' <=> Ahead(d) /\ d # c
  BY Zenon, <1>1, <1>2 DEF Ahead
<1> QED
  BY Zenon, <1>1, <1>2, <1>3, <1>4, <1>6, <1>7, <1>8

\* A step of another coroutine leaves the dispatcher where it was.
LEMMA DispatchingKept ==
  ASSUME Undisturbed, NEW c, c # Dispatcher, Resume(c), pc'[Dispatcher] = pc[Dispatcher],
         \A t \in Tags : lane_busy'[t] => lane_busy[t]
  PROVE  Dispatching'
<1>1. /\ phase' = phase /\ ready' = ready /\ req_ready' = req_ready
      /\ Dispatcher \in resumed' <=> Dispatcher \in resumed
      /\ Requested' = Requested /\ (req_valid' <=> req_valid)
      /\ Decided' <=> Decided
  BY Zenon, ResumeFacts DEF Undisturbed, Serving
<1>2. \A t \in Requested : t \in Tags
  BY Zenon DEF Requested
<1> QED
  BY Zenon, <1>1, <1>2 DEF Undisturbed, Serving, Dispatching

\* A step of another coroutine leaves the arbiter where it was.
LEMMA ArbitratingKept ==
  ASSUME Undisturbed, NEW c, c # Arbiter, Resume(c), pc'[Arbiter] = pc[Arbiter], UNCHANGED response,
         \A t \in Tags : lane_rsp_valid[t] => lane_rsp_valid'[t] /\ lane_rsp_data'[t] = lane_rsp_data[t]
  PROVE  Arbitrating' /\ (Acked' <=> Acked)
<1>1. /\ phase' = phase /\ ready' = ready /\ rsp_ready' = rsp_ready /\ stage' = stage
      /\ Arbiter \in resumed' <=> Arbiter \in resumed
      /\ Looked' <=> Looked
  BY Zenon, ResumeFacts DEF Undisturbed, Serving
<1>2. rsp_valid' = rsp_valid /\ rsp_tag' = rsp_tag /\ rsp_data' = rsp_data /\ rsp_tag \in Tags
  BY Zenon DEF Undisturbed, Serving, TypeOK, response
<1>3. Acked' <=> Acked
  BY Zenon, <1>1 DEF Acked
<1> QED
  BY Zenon, <1>1, <1>2, <1>3 DEF Undisturbed, Serving, Arbitrating

\* A step that leaves a lane and its request alone.
LEMMA LaneKept ==
  ASSUME Undisturbed, NEW c, Resume(c), NEW t \in Tags, c # Lane(t),
         pc'[Lane(t)] = pc[Lane(t)], left'[t] = left[t],
         lane_busy'[t] <=> lane_busy[t], lane_req_valid'[t] <=> lane_req_valid[t],
         lane_rsp_valid'[t] <=> lane_rsp_valid[t], lane_arg'[t] = lane_arg[t],
         lane_rsp_data'[t] = lane_rsp_data[t], Fresh(t)' <=> Fresh(t),
         lane_rsp_valid[t] /\ Acked /\ rsp_tag = t => Acked' /\ rsp_tag' = t
  PROVE  Owned(t)' /\ Due(t)'
<1>1. /\ phase' = phase /\ ready' = ready /\ asked' = asked /\ stage' = stage
      /\ Lane(t) \in resumed' <=> Lane(t) \in resumed
      /\ Ahead(Lane(t))' <=> Ahead(Lane(t))
  BY Zenon, ResumeFacts DEF Undisturbed, Serving
<1>2. Outstanding(t)' <=> Outstanding(t)
  BY Zenon, <1>1 DEF Outstanding
<1>3. Owned(t) /\ Due(t)
  BY Zenon DEF Undisturbed, Serving
<1>4. Owned(t)'
  BY Zenon, <1>1, <1>2, <1>3 DEF Owned
<1>5. Due(t)'
  BY Zenon, <1>1, <1>3 DEF Due
<1> QED
  BY Zenon, <1>4, <1>5

-----------------------------------------------------------------------------
\* A coroutine that moves on leaves the others where they are.
LEMMA GotoFacts ==
  ASSUME TypeOK, NEW c \in Coroutines, NEW s, Goto(c, s),
         s \in {"accept", "rearm", "wait", "body", "clear", "idle", "offer", "hold"}
  PROVE  /\ pc'[c] = s /\ \A d \in Coroutines : d # c => pc'[d] = pc[d]
         /\ pc' \in [Coroutines ->
                      {"accept", "rearm", "wait", "body", "clear", "idle", "offer", "hold"}]
  BY Zenon DEF Goto, TypeOK

-----------------------------------------------------------------------------
\* Type correctness, and the order of the tick, whatever has slipped by.

\* The DUT keeps to its types.
LEMMA EdgeTypes ==
  ASSUME TypeOK, Edge
  PROVE  /\ stage' \in [Tags -> {"idle", "request", "wait"}] /\ asked' \in [Tags -> Args]
         /\ rsp_ready' \in BOOLEAN
<1> DEFINE after == [t \in Tags |-> CASE t \in Taken -> "idle"
                                      [] t \in Accepted -> "wait"
                                      [] OTHER -> stage[t]]
<1>1. \/ stage' = after /\ UNCHANGED asked
      \/ \E t \in Tags, a \in Args : /\ stage' = [after EXCEPT ![t] = "request"]
                                     /\ asked' = [asked EXCEPT ![t] = a]
  BY Zenon DEF Edge
<1>2. after \in [Tags -> {"idle", "request", "wait"}]
  BY DEF TypeOK
<1>3. rsp_ready' \in BOOLEAN
  BY Zenon DEF Edge
<1>4. asked \in [Tags -> Args]
  BY Zenon DEF TypeOK
<1> HIDE DEF after
<1>5. ASSUME NEW t \in Tags, NEW a \in Args, stage' = [after EXCEPT ![t] = "request"],
             asked' = [asked EXCEPT ![t] = a]
      PROVE  stage' \in [Tags -> {"idle", "request", "wait"}] /\ asked' \in [Tags -> Args]
  BY Zenon, <1>2, <1>4, <1>5
<1> QED
  BY Zenon, <1>1, <1>2, <1>3, <1>4, <1>5

\* So does a coroutine that is resumed.
LEMMA StepTypes ==
  ASSUME TypeOK, Ticking, NEW c \in Coroutines, Resume(c), NEW s, Goto(c, s),
         s \in {"accept", "rearm", "wait", "body", "clear", "idle", "offer", "hold"},
         rsp_valid' \in BOOLEAN /\ rsp_tag' \in Tags /\ rsp_data' \in Args,
         lane_busy' \in [Tags -> BOOLEAN] /\ lane_req_valid' \in [Tags -> BOOLEAN],
         lane_rsp_valid' \in [Tags -> BOOLEAN] /\ lane_arg' \in [Tags -> Args],
         lane_rsp_data' \in [Tags -> Args] /\ left' \in [Tags -> Nat]
  PROVE  TypeOK' /\ Ticking'
<1>1. /\ phase' = phase /\ turn' = turn /\ ready' = ready /\ scheds' = scheds
      /\ stage' = stage /\ asked' = asked /\ rsp_ready' = rsp_ready /\ req_ready' = req_ready
      /\ slipped' = slipped /\ Ticking' /\ resumed' \subseteq ready'
  BY Zenon, ResumeFacts
<1>2. pc' \in [Coroutines -> {"accept", "rearm", "wait", "body", "clear", "idle", "offer", "hold"}]
  BY Zenon, GotoFacts
<1> QED
  BY Zenon, <1>1, <1>2 DEF TypeOK

\* A pass of a scheduler ends its turn, or wakes some of its coroutines.
LEMMA PassTypes ==
  ASSUME TypeOK, Ticking, phase = "tick", NEW W \in SUBSET scheds[turn],
         IF W = {} THEN EndTurn ELSE ready' = ready \cup W /\ UNCHANGED <<phase, turn, resumed>>,
         UNCHANGED <<initiator, req_ready, response, lanes, pc, scheds, slipped>>,
         left' \in [Tags -> Nat]
  PROVE  TypeOK' /\ Ticking'
<1>1. /\ stage' = stage /\ asked' = asked /\ rsp_ready' = rsp_ready /\ req_ready' = req_ready
      /\ rsp_valid' = rsp_valid /\ rsp_tag' = rsp_tag /\ rsp_data' = rsp_data
      /\ lane_busy' = lane_busy /\ lane_req_valid' = lane_req_valid
      /\ lane_rsp_valid' = lane_rsp_valid /\ lane_arg' = lane_arg
      /\ lane_rsp_data' = lane_rsp_data /\ pc' = pc /\ scheds' = scheds /\ slipped' = slipped
  BY Zenon DEF initiator, response, lanes
<1>2. turn \in 1 .. Len(scheds) /\ Len(scheds) \in Nat \ {0} /\ scheds[turn] \subseteq Coroutines
  BY Zenon DEF TypeOK, Ticking
<1>3. CASE W = {}
  <2>1. /\ ready' = {} /\ resumed' = {}
        /\ \/ turn' = 1 /\ phase' = "posedge"
           \/ turn # Len(scheds) /\ turn' = turn + 1 /\ phase' = "tick"
    BY Zenon, <1>3 DEF EndTurn
  <2>2. turn' \in 1 .. Len(scheds)
    BY <1>2, <2>1
  <2>3. phase' \in {"posedge", "gate", "tick"} /\ (phase' # "tick" => turn' = 1)
    BY <2>1
  <2> QED
    BY Zenon, <1>1, <2>1, <2>2, <2>3 DEF TypeOK, Ticking
<1>4. CASE W # {}
  <2>1. ready' = ready \cup W /\ phase' = phase /\ turn' = turn /\ resumed' = resumed
    BY Zenon, <1>4
  <2>2. /\ ready' \subseteq scheds[turn] /\ resumed' \subseteq ready'
        /\ ready' \subseteq Coroutines /\ phase' = "tick"
    BY Zenon, <1>2, <2>1 DEF Ticking
  <2> QED
    BY Zenon, <1>1, <2>1, <2>2 DEF TypeOK, Ticking
<1> QED
  BY Zenon, <1>3, <1>4

\* A step of a coroutine: the dispatcher, a lane or the arbiter.
LEMMA CoroutineTypes ==
  ASSUME TypeOK, Ticking,
         \/ Dispatch \/ Rearm \/ Select \/ Offer \/ Withdraw
         \/ \E t \in Tags : Serve(t) \/ Body(t) \/ FreeLane(t)
  PROVE  TypeOK' /\ Ticking'
<1> DEFINE States == {"accept", "rearm", "wait", "body", "clear", "idle", "offer", "hold"}
<1> USE CoroutineFacts
<1>1. CASE Dispatch
  <2>1. PICK t \in Tags, a \in Args : /\ lane_arg' = [lane_arg EXCEPT ![t] = a]
                                      /\ lane_busy' = [lane_busy EXCEPT ![t] = TRUE]
                                      /\ lane_req_valid' = [lane_req_valid EXCEPT ![t] = TRUE]
    BY Zenon, <1>1 DEF Dispatch
  <2>2. /\ Resume(Dispatcher) /\ Goto(Dispatcher, "rearm")
        /\ UNCHANGED <<response, lane_rsp_valid, lane_rsp_data, left>>
    BY Zenon, <1>1 DEF Dispatch
  <2> QED
    BY Zenon, <2>1, <2>2, StepTypes DEF TypeOK, response
<1>2. CASE Rearm
  <2>1. /\ Resume(Dispatcher) /\ Goto(Dispatcher, "accept") /\ UNCHANGED <<response, lanes, left>>
    BY Zenon, <1>2 DEF Rearm
  <2> QED
    BY Zenon, <2>1, StepTypes DEF TypeOK, response, lanes
<1>3. CASE Select
  <2>1. PICK sel \in Tags : rsp_tag' = sel /\ rsp_data' = lane_rsp_data[sel]
    BY Zenon, <1>3 DEF Select
  <2>2. /\ Resume(Arbiter) /\ rsp_valid' = TRUE /\ Goto(Arbiter, AfterSelect)
        /\ UNCHANGED <<lanes, left>>
    BY Zenon, <1>3 DEF Select
  <2>3. AfterSelect \in States
    BY DEF AfterSelect
  <2>4. rsp_valid' \in BOOLEAN /\ rsp_tag' \in Tags /\ rsp_data' \in Args
    BY Zenon, <2>1, <2>2 DEF TypeOK
  <2> QED
    BY Zenon, <2>2, <2>3, <2>4, StepTypes DEF TypeOK, lanes
<1>4. CASE Offer
  <2>1. /\ Resume(Arbiter) /\ Goto(Arbiter, "hold") /\ UNCHANGED <<response, lanes, left>>
    BY Zenon, <1>4 DEF Offer
  <2> QED
    BY Zenon, <2>1, StepTypes DEF TypeOK, response, lanes
<1>5. CASE Withdraw
  <2>1. /\ Resume(Arbiter) /\ Goto(Arbiter, "idle") /\ rsp_valid' = FALSE
        /\ lane_rsp_valid' = [lane_rsp_valid EXCEPT ![rsp_tag] = FALSE]
        /\ UNCHANGED <<rsp_tag, rsp_data, lane_busy, lane_req_valid, lane_arg, lane_rsp_data, left>>
    BY Zenon, <1>5 DEF Withdraw
  <2>2. lane_rsp_valid' \in [Tags -> BOOLEAN] /\ rsp_valid' \in BOOLEAN
    BY Zenon, <2>1 DEF TypeOK
  <2> QED
    BY Zenon, <2>1, <2>2, StepTypes DEF TypeOK
<1>6. ASSUME NEW t \in Tags, Serve(t) PROVE TypeOK' /\ Ticking'
  <2>1. PICK n \in Bodies :
          /\ left' = [left EXCEPT ![t] = n]
          /\ IF n = 0 THEN Complete(t) ELSE Goto(Lane(t), "body") /\ UNCHANGED lane_rsp_valid
    BY Zenon, <1>6 DEF Serve
  <2>2. PICK s \in {"body", "clear"} : Goto(Lane(t), s)
    BY Zenon, <2>1 DEF Complete
  <2>3. lane_rsp_valid' \in [Tags -> BOOLEAN] /\ left' \in [Tags -> Nat] /\ s \in States
    <3>1. n \in Nat
      BY ConstantsAssumption
    <3> QED
      BY Zenon, <2>1, <3>1 DEF Complete, TypeOK
  <2>4. /\ Resume(Lane(t)) /\ lane_req_valid' = [lane_req_valid EXCEPT ![t] = FALSE]
        /\ lane_rsp_data' = [lane_rsp_data EXCEPT ![t] = lane_arg[t]]
        /\ UNCHANGED <<response, lane_busy, lane_arg>>
    BY Zenon, <1>6 DEF Serve
  <2>5. lane_req_valid' \in [Tags -> BOOLEAN] /\ lane_rsp_data' \in [Tags -> Args]
    BY Zenon, <2>4 DEF TypeOK
  <2> QED
    BY Zenon, <2>2, <2>3, <2>4, <2>5, StepTypes DEF TypeOK, response
<1>7. ASSUME NEW t \in Tags, Body(t) PROVE TypeOK' /\ Ticking'
  <2>1. /\ Resume(Lane(t)) /\ Goto(Lane(t), "clear")
        /\ lane_rsp_valid' = [lane_rsp_valid EXCEPT ![t] = TRUE]
        /\ UNCHANGED <<response, lane_busy, lane_req_valid, lane_arg, lane_rsp_data, left>>
    BY Zenon, <1>7 DEF Body, Complete
  <2>2. lane_rsp_valid' \in [Tags -> BOOLEAN]
    BY Zenon, <2>1 DEF TypeOK
  <2> QED
    BY Zenon, <2>1, <2>2, StepTypes DEF TypeOK, response
<1>8. ASSUME NEW t \in Tags, FreeLane(t) PROVE TypeOK' /\ Ticking'
  <2>1. /\ Resume(Lane(t)) /\ Goto(Lane(t), "wait")
        /\ lane_busy' = [lane_busy EXCEPT ![t] = FALSE]
        /\ UNCHANGED <<response, lane_req_valid, lane_rsp_valid, lane_arg, lane_rsp_data, left>>
    BY Zenon, <1>8 DEF FreeLane
  <2>2. lane_busy' \in [Tags -> BOOLEAN]
    BY Zenon, <2>1 DEF TypeOK
  <2> QED
    BY Zenon, <2>1, <2>2, StepTypes DEF TypeOK, response
<1> QED
  BY Zenon, <1>1, <1>2, <1>3, <1>4, <1>5, <1>6, <1>7, <1>8

\* Every step keeps to the types and to the order of the tick.
LEMMA TypeNext == ASSUME TypeOK, Ticking, Next PROVE TypeOK' /\ Ticking'
<1>1. ASSUME Edge, phase' \in {"posedge", "gate", "tick"}, phase' # "tick" => phase # "tick",
             req_ready' \in BOOLEAN, slipped' \in BOOLEAN
      PROVE  TypeOK' /\ Ticking'
  <2>1. /\ rsp_valid' = rsp_valid /\ rsp_tag' = rsp_tag /\ rsp_data' = rsp_data
        /\ lane_busy' = lane_busy /\ lane_req_valid' = lane_req_valid
        /\ lane_rsp_valid' = lane_rsp_valid /\ lane_arg' = lane_arg
        /\ lane_rsp_data' = lane_rsp_data /\ pc' = pc /\ scheds' = scheds /\ left' = left
        /\ turn' = turn /\ ready' = ready /\ resumed' = resumed
    BY Zenon, <1>1 DEF Edge, response, lanes, tick
  <2>2. TypeOK'
    BY Zenon, <1>1, <2>1, EdgeTypes DEF TypeOK
  <2> QED
    BY Zenon, <1>1, <2>1, <2>2 DEF Ticking
<1>2. CASE Posedge
  <2>1. /\ Edge /\ phase = "posedge" /\ phase' = "gate" /\ req_ready' = req_ready
        /\ slipped' = (slipped /\ ~ AtRest)
    BY Zenon, <1>2 DEF Posedge
  <2>2. phase # "tick" /\ phase' \in {"posedge", "gate", "tick"}
    BY <2>1
  <2>3. slipped' \in BOOLEAN /\ req_ready' \in BOOLEAN
    BY Zenon, <2>1 DEF TypeOK
  <2> QED
    BY Zenon, <1>1, <2>1, <2>2, <2>3
<1>3. CASE Unticked
  <2>1. /\ Edge /\ phase' = phase /\ req_ready' = TlmReady'
        /\ slipped' = (slipped \/ InHandshake \/ InHandshake')
    BY Zenon, <1>3 DEF Unticked
  <2>2. slipped' \in BOOLEAN /\ req_ready' \in BOOLEAN
    BY Zenon, <2>1 DEF TlmReady, Free
  <2> QED
    BY Zenon, <1>1, <2>1, <2>2 DEF TypeOK
<1>4. CASE Gate
  <2>1. /\ phase' = "tick" /\ req_ready' = TlmReady
        /\ UNCHANGED <<initiator, response, lanes, pc, left, scheds, tick, slipped>>
    BY Zenon, <1>4 DEF Gate
  <2>2. req_ready' \in BOOLEAN /\ phase' \in {"posedge", "gate", "tick"}
    BY Zenon, <2>1 DEF TlmReady, Free
  <2>3. TypeOK'
    BY Zenon, <2>1, <2>2 DEF TypeOK, initiator, response, lanes, tick
  <2> QED
    BY Zenon, <2>1, <2>3 DEF Ticking, tick
<1>5. CASE PassOne
  <2> DEFINE due == {c \in scheds[turn] : Holds(c) \/ Elapses(c)}
  <2>1. /\ phase = "tick" /\ ready = {}
        /\ left' = [t \in Tags |->
                      IF Lane(t) \in scheds[turn] /\ pc[Lane(t)] = "body" /\ left[t] > 0
                      THEN left[t] - 1 ELSE left[t]]
        /\ IF due = {} THEN EndTurn ELSE ready' = due /\ UNCHANGED <<phase, turn, resumed>>
        /\ UNCHANGED <<initiator, req_ready, response, lanes, pc, scheds, slipped>>
    BY Zenon, <1>5 DEF PassOne
  <2>2. ready' = due => ready' = ready \cup due
    BY Zenon, <2>1
  <2>3. due \in SUBSET scheds[turn]
    BY Zenon
  <2> HIDE DEF due
  <2>4. left' \in [Tags -> Nat]
    BY <2>1 DEF TypeOK
  <2> QED
    BY Zenon, <2>1, <2>2, <2>3, <2>4, PassTypes
<1>6. CASE Recheck
  <2> DEFINE late == {c \in scheds[turn] \ resumed : Holds(c)}
  <2>1. /\ phase = "tick"
        /\ IF late = {} THEN EndTurn
           ELSE ready' = ready \cup late /\ UNCHANGED <<phase, turn, resumed>>
        /\ UNCHANGED <<initiator, req_ready, response, lanes, pc, left, scheds, slipped>>
    BY Zenon, <1>6 DEF Recheck
  <2>2. late \in SUBSET scheds[turn]
    BY Zenon
  <2> HIDE DEF late
  <2>3. left' \in [Tags -> Nat]
    BY Zenon, <2>1 DEF TypeOK
  <2> QED
    BY Zenon, <2>1, <2>2, <2>3, PassTypes
<1> QED
  BY Zenon, <1>2, <1>3, <1>4, <1>5, <1>6, CoroutineTypes DEF Next, Tick

-----------------------------------------------------------------------------
\* Until it is resumed, the dispatcher has not decided.
LEMMA Undecided ==
  ASSUME Undisturbed, Resume(Dispatcher)
  PROVE  ~ Decided
<1>1. phase = "tick" /\ Dispatcher \in ready \ resumed /\ turn \in 1 .. Len(scheds)
  BY Zenon, ResumeFacts DEF Undisturbed, Serving
<1>2. turn = 1
  BY Zenon, <1>1 DEF Undisturbed, Serving, Ticking
<1> QED
  BY <1>1, <1>2 DEF Decided

\* The dispatcher captures a request into a lane that is free.
LEMMA DispatchInv == Undisturbed /\ Dispatch => Serving'
<1> SUFFICES ASSUME Undisturbed, Dispatch PROVE Serving'
  OBVIOUS
<1> DEFINE r == req_tag
<1>0. Resume(Dispatcher) /\ pc[Dispatcher] = "accept" /\ Goto(Dispatcher, "rearm")
  BY Zenon DEF Dispatch
<1>1. ~ Decided /\ phase = "tick" /\ Dispatcher \in ready \ resumed
  BY Zenon, <1>0, Undecided, ResumeFacts DEF Undisturbed, Serving
<1>2. req_valid /\ req_ready /\ r \in Requested
  BY Zenon, <1>0, <1>1, RequestTag DEF Undisturbed, Serving, Dispatching
<1>3. r \in Tags /\ stage[r] = "request" /\ ~ lane_busy[r]
  BY Zenon, <1>1, <1>2 DEF Undisturbed, Serving, Dispatching, Requested
<1>4. \A t \in Tags : t # r => stage[t] # "request"
  BY Zenon, <1>2 DEF Undisturbed, Serving, Dispatching, Requested
<1>5. /\ lane_arg' = [lane_arg EXCEPT ![r] = asked[r]]
      /\ lane_busy' = [lane_busy EXCEPT ![r] = TRUE]
      /\ lane_req_valid' = [lane_req_valid EXCEPT ![r] = TRUE]
      /\ UNCHANGED response /\ lane_rsp_valid' = lane_rsp_valid
      /\ lane_rsp_data' = lane_rsp_data /\ left' = left
  BY Zenon, <1>2 DEF Dispatch, Wires
<1> HIDE DEF r
<1>6. /\ pc'[Dispatcher] = "rearm"
      /\ \A d \in Coroutines : d # Dispatcher => pc'[d] = pc[d]
      /\ pc' \in [Coroutines ->
                   {"accept", "rearm", "wait", "body", "clear", "idle", "offer", "hold"}]
  BY Zenon, <1>0, GotoFacts, CoroutineFacts DEF Undisturbed, Serving
<1>7. /\ lane_busy'[r] /\ lane_req_valid'[r] /\ lane_arg'[r] = asked[r]
      /\ \A t \in Tags : t # r => /\ lane_busy'[t] <=> lane_busy[t]
                                  /\ lane_req_valid'[t] <=> lane_req_valid[t]
                                  /\ lane_arg'[t] = lane_arg[t]
  BY Zenon, <1>3, <1>5 DEF Undisturbed, Serving, TypeOK
<1>8. /\ phase' = phase /\ turn' = turn /\ ready' = ready /\ scheds' = scheds
      /\ stage' = stage /\ asked' = asked /\ rsp_ready' = rsp_ready /\ req_ready' = req_ready
      /\ Ticking' /\ resumed' \subseteq ready' /\ Decided'
      /\ Requested' = Requested /\ (req_valid' <=> req_valid) /\ Dispatcher \in resumed'
      /\ \A t \in Tags : Lane(t) \in resumed' <=> Lane(t) \in resumed
  BY Zenon, <1>0, ResumeFacts, CoroutineFacts DEF Undisturbed, Serving
<1>10. Dispatching'
  BY Zenon, <1>2, <1>6, <1>8 DEF Undisturbed, Serving, Dispatching
<1>11. Arbitrating' /\ (Acked' <=> Acked)
  <2>1. Arbiter # Dispatcher /\ pc'[Arbiter] = pc[Arbiter]
    BY Zenon, <1>6, CoroutineFacts
  <2> QED
    BY Zenon, <1>0, <1>5, <2>1, ArbitratingKept
<1>12. ASSUME NEW t \in Tags, t # r PROVE Owned(t)' /\ Due(t)'
  <2>1. ~ Fresh(t) /\ ~ Fresh(t)'
    BY Zenon, <1>4, <1>8, <1>12 DEF Fresh
  <2>2. Dispatcher # Lane(t) /\ pc'[Lane(t)] = pc[Lane(t)]
    BY Zenon, <1>6, CoroutineFacts
  <2>3. rsp_tag' = rsp_tag
    BY Zenon, <1>5 DEF response
  <2> QED
    BY Zenon, <1>0, <1>5, <1>7, <1>11, <1>12, <2>1, <2>2, <2>3, LaneKept
<1>13. ASSUME NEW t \in Tags, t = r PROVE Owned(t)' /\ Due(t)'
  <2>1. Owned(t) /\ Due(t) /\ ~ lane_busy[t] /\ stage[t] = "request"
    BY Zenon, <1>3, <1>13 DEF Undisturbed, Serving
  <2>2. pc[Lane(t)] = "wait" /\ pc'[Lane(t)] = "wait"
    BY Zenon, <1>6, <2>1, CoroutineFacts DEF Owned
  <2>3. ~ lane_rsp_valid[t] /\ "wait" # "clear" /\ "wait" # "body"
    BY <2>1, <2>2 DEF Owned
  <2>4. Outstanding(t)'
    BY Zenon, <1>6, <1>8, <2>1 DEF Outstanding, Fresh
  <2>5. lane_busy'[t] /\ lane_req_valid'[t] /\ lane_arg'[t] = asked'[t] /\ ~ lane_rsp_valid'[t]
    BY Zenon, <1>5, <1>7, <1>8, <1>13, <2>3
  <2>6. Owned(t)'
    BY Zenon, <2>2, <2>3, <2>4, <2>5 DEF Owned
  <2>7. Due(t)'
    BY Zenon, <2>2, <2>3, <2>5 DEF Due
  <2> QED
    BY Zenon, <2>6, <2>7
<1> QED
  BY Zenon, <1>8, <1>10, <1>11, <1>12, <1>13 DEF Serving

\* The dispatcher starts over when the DUT has seen the request accepted.
LEMMA RearmInv == Undisturbed /\ Rearm => Serving'
<1> SUFFICES ASSUME Undisturbed, Rearm PROVE Serving'
  OBVIOUS
<1>0. Resume(Dispatcher) /\ pc[Dispatcher] = "rearm" /\ Goto(Dispatcher, "accept")
  BY Zenon DEF Rearm
<1>1. UNCHANGED response /\ UNCHANGED lanes /\ left' = left
  BY Zenon DEF Rearm
<1>2. ~ Decided /\ phase = "tick"
  BY Zenon, <1>0, Undecided, ResumeFacts DEF Undisturbed, Serving
<1>3. Requested = {} /\ ~ req_valid /\ \A t \in Tags : stage[t] # "request"
  BY Zenon, <1>0, <1>2 DEF Undisturbed, Serving, Dispatching, Requested, req_valid
<1>4. /\ pc'[Dispatcher] = "accept"
      /\ \A d \in Coroutines : d # Dispatcher => pc'[d] = pc[d]
      /\ pc' \in [Coroutines ->
                   {"accept", "rearm", "wait", "body", "clear", "idle", "offer", "hold"}]
  BY Zenon, <1>0, GotoFacts, CoroutineFacts DEF Undisturbed, Serving
<1>5. /\ phase' = phase /\ turn' = turn /\ ready' = ready /\ scheds' = scheds
      /\ stage' = stage /\ asked' = asked /\ rsp_ready' = rsp_ready /\ req_ready' = req_ready
      /\ Ticking' /\ resumed' \subseteq ready' /\ Decided'
      /\ Requested' = Requested /\ (req_valid' <=> req_valid) /\ Dispatcher \in resumed'
  BY Zenon, <1>0, ResumeFacts DEF Undisturbed, Serving
<1>7. Dispatching'
  <2>1. "accept" # "rearm"
    OBVIOUS
  <2> QED
    BY Zenon, <1>3, <1>4, <1>5, <2>1 DEF Dispatching
<1>8. Arbitrating' /\ (Acked' <=> Acked)
  <2>1. Arbiter # Dispatcher /\ pc'[Arbiter] = pc[Arbiter]
    BY Zenon, <1>4, CoroutineFacts
  <2> QED
    BY Zenon, <1>0, <1>1, <2>1, ArbitratingKept DEF lanes
<1>9. ASSUME NEW t \in Tags PROVE Owned(t)' /\ Due(t)'
  <2>1. ~ Fresh(t) /\ ~ Fresh(t)'
    BY Zenon, <1>3, <1>5 DEF Fresh
  <2>2. Dispatcher # Lane(t) /\ pc'[Lane(t)] = pc[Lane(t)]
    BY Zenon, <1>4, CoroutineFacts
  <2>3. /\ rsp_tag' = rsp_tag /\ lane_busy' = lane_busy /\ lane_req_valid' = lane_req_valid
        /\ lane_rsp_valid' = lane_rsp_valid /\ lane_arg' = lane_arg
        /\ lane_rsp_data' = lane_rsp_data
    BY Zenon, <1>1 DEF response, lanes
  <2>4. /\ lane_busy'[t] <=> lane_busy[t]
        /\ lane_req_valid'[t] <=> lane_req_valid[t]
        /\ lane_rsp_valid'[t] <=> lane_rsp_valid[t]
        /\ lane_arg'[t] = lane_arg[t] /\ lane_rsp_data'[t] = lane_rsp_data[t]
        /\ left'[t] = left[t]
    BY <1>1, <2>3
  <2>5. lane_rsp_valid[t] /\ Acked /\ rsp_tag = t => Acked' /\ rsp_tag' = t
    BY Zenon, <1>8, <2>3
  <2> QED
    BY Zenon, <1>0, <2>1, <2>2, <2>4, <2>5, LaneKept
<1> QED
  BY Zenon, <1>5, <1>7, <1>8, <1>9 DEF Serving

-----------------------------------------------------------------------------
\* What a lane does leaves the dispatcher, the arbiter and other lanes alone.
LEMMA LaneStep ==
  ASSUME Undisturbed, NEW t \in Tags, Resume(Lane(t)),
         NEW s \in {"wait", "body", "clear"}, Goto(Lane(t), s), UNCHANGED response,
         \A u \in Tags : lane_busy'[u] => lane_busy[u],
         lane_rsp_valid[t] => lane_rsp_valid'[t] /\ lane_rsp_data'[t] = lane_rsp_data[t],
         \A u \in Tags : u # t =>
            /\ left'[u] = left[u] /\ lane_arg'[u] = lane_arg[u]
            /\ lane_rsp_data'[u] = lane_rsp_data[u]
            /\ lane_busy'[u] <=> lane_busy[u]
            /\ lane_req_valid'[u] <=> lane_req_valid[u]
            /\ lane_rsp_valid'[u] <=> lane_rsp_valid[u],
         /\ lane_busy' \in [Tags -> BOOLEAN] /\ lane_req_valid' \in [Tags -> BOOLEAN]
         /\ lane_rsp_valid' \in [Tags -> BOOLEAN] /\ lane_arg' \in [Tags -> Args]
         /\ lane_rsp_data' \in [Tags -> Args] /\ left' \in [Tags -> Nat],
         Owned(t)' /\ Due(t)'
  PROVE  Serving'
<1>1. Lane(t) \in Coroutines /\ Lane(t) # Dispatcher /\ Lane(t) # Arbiter
  BY Zenon, CoroutineFacts
<1>2. /\ \A d \in Coroutines : d # Lane(t) => pc'[d] = pc[d]
      /\ pc' \in [Coroutines ->
                   {"accept", "rearm", "wait", "body", "clear", "idle", "offer", "hold"}]
  BY Zenon, <1>1, GotoFacts DEF Undisturbed, Serving
<1>3. /\ phase' = phase /\ turn' = turn /\ ready' = ready /\ scheds' = scheds
      /\ stage' = stage /\ asked' = asked /\ rsp_ready' = rsp_ready /\ req_ready' = req_ready
      /\ Ticking' /\ resumed' \subseteq ready'
  BY Zenon, ResumeFacts DEF Undisturbed, Serving
<1>4. pc'[Dispatcher] = pc[Dispatcher] /\ pc'[Arbiter] = pc[Arbiter]
  BY Zenon, <1>1, <1>2, CoroutineFacts
<1>6. Dispatching'
  BY Zenon, <1>1, <1>4, DispatchingKept
<1>7. \A u \in Tags : lane_rsp_valid[u] =>
         lane_rsp_valid'[u] /\ lane_rsp_data'[u] = lane_rsp_data[u]
  BY Zenon
<1>8. Arbitrating' /\ (Acked' <=> Acked)
  BY Zenon, <1>1, <1>4, <1>7, ArbitratingKept
<1>9. ASSUME NEW u \in Tags, u # t PROVE Owned(u)' /\ Due(u)'
  <2>1. Lane(u) # Lane(t) /\ pc'[Lane(u)] = pc[Lane(u)]
    BY Zenon, <1>2, <1>9, CoroutineFacts
  <2>2. Fresh(u)' <=> Fresh(u)
    BY Zenon, <1>3, <1>4 DEF Fresh
  <2>3. rsp_tag' = rsp_tag
    BY Zenon DEF response
  <2> QED
    BY Zenon, <1>8, <1>9, <2>1, <2>2, <2>3, LaneKept
<1>10. ASSUME NEW u \in Tags, u = t PROVE Owned(u)' /\ Due(u)'
  BY <1>10
<1> QED
  BY Zenon, <1>3, <1>6, <1>8, <1>9, <1>10 DEF Serving

\* What a lane step leaves of its own request.
LEMMA OwnRequest ==
  ASSUME Undisturbed, NEW t \in Tags, Resume(Lane(t)), NEW s \in {"wait", "body", "clear"},
         Goto(Lane(t), s)
  PROVE  /\ Owned(t) /\ Due(t) /\ phase = "tick" /\ Lane(t) \in ready \ resumed
         /\ Lane(t) \in resumed' /\ asked' = asked /\ stage' = stage /\ pc'[Lane(t)] = s
         /\ Fresh(t)' <=> Fresh(t)
         /\ Outstanding(t)' <=> Outstanding(t)
         /\ ~ Ahead(Lane(t))'
<1>1. /\ phase = "tick" /\ Lane(t) \in ready \ resumed /\ Lane(t) \in resumed'
      /\ asked' = asked /\ stage' = stage /\ ~ Ahead(Lane(t))'
  BY Zenon, ResumeFacts DEF Undisturbed, Serving
<1>2. pc'[Lane(t)] = s /\ pc'[Dispatcher] = pc[Dispatcher]
  BY Zenon, GotoFacts, CoroutineFacts DEF Undisturbed, Serving
<1> QED
  BY Zenon, <1>1, <1>2 DEF Undisturbed, Serving, Fresh, Outstanding

\* A lane binds the arguments captured for it: its request is outstanding.
LEMMA ServeInv == ASSUME Undisturbed, 0 \notin Bodies, NEW t \in Tags, Serve(t) PROVE Serving'
<1>0. Resume(Lane(t)) /\ pc[Lane(t)] = "wait" /\ UNCHANGED response
  BY Zenon DEF Serve
<1>1. PICK n \in Bodies :
        /\ left' = [left EXCEPT ![t] = n]
        /\ IF n = 0 THEN Complete(t) ELSE Goto(Lane(t), "body") /\ UNCHANGED lane_rsp_valid
  BY Zenon DEF Serve
<1>2. n \in Nat /\ n > 0 /\ Goto(Lane(t), "body") /\ lane_rsp_valid' = lane_rsp_valid
  BY <1>1, ConstantsAssumption
<1>3. /\ lane_req_valid' = [lane_req_valid EXCEPT ![t] = FALSE]
      /\ lane_rsp_data' = [lane_rsp_data EXCEPT ![t] = lane_arg[t]]
      /\ lane_busy' = lane_busy /\ lane_arg' = lane_arg
  BY Zenon DEF Serve
<1>4. /\ Owned(t) /\ Due(t) /\ phase = "tick" /\ Lane(t) \in ready \ resumed
      /\ Lane(t) \in resumed' /\ asked' = asked /\ stage' = stage /\ pc'[Lane(t)] = "body"
      /\ Fresh(t)' <=> Fresh(t)
      /\ Outstanding(t)' <=> Outstanding(t)
      /\ ~ Ahead(Lane(t))'
  BY Zenon, <1>0, <1>2, OwnRequest
<1>5. "wait" # "clear" /\ "body" # "wait" /\ "body" # "clear"
  OBVIOUS
<1>6. lane_req_valid[t] /\ lane_busy[t] /\ Outstanding(t) /\ ~ lane_rsp_valid[t]
  BY Zenon, <1>0, <1>4, <1>5 DEF Owned, Due
<1>7. /\ lane_busy' \in [Tags -> BOOLEAN] /\ lane_req_valid' \in [Tags -> BOOLEAN]
      /\ lane_rsp_valid' \in [Tags -> BOOLEAN] /\ lane_arg' \in [Tags -> Args]
      /\ lane_rsp_data' \in [Tags -> Args] /\ left' \in [Tags -> Nat]
  BY Zenon, <1>1, <1>2, <1>3 DEF Undisturbed, Serving, TypeOK
<1>8. /\ ~ lane_req_valid'[t] /\ lane_rsp_data'[t] = lane_arg'[t] /\ left'[t] = n
      /\ \A u \in Tags : u # t =>
            /\ left'[u] = left[u] /\ lane_rsp_data'[u] = lane_rsp_data[u]
            /\ lane_req_valid'[u] <=> lane_req_valid[u]
  BY Zenon, <1>1, <1>3 DEF Undisturbed, Serving, TypeOK
<1>9. \A u \in Tags : /\ lane_busy'[u] <=> lane_busy[u]
                      /\ lane_rsp_valid'[u] <=> lane_rsp_valid[u]
                      /\ lane_arg'[u] = lane_arg[u]
  BY <1>2, <1>3
<1>10. Owned(t)'
  BY Zenon, <1>4, <1>5, <1>6, <1>8, <1>9 DEF Owned
<1>11. Due(t)'
  <2>1. left'[t] > 0
    BY <1>2, <1>8
  <2> QED
    BY Zenon, <1>4, <2>1 DEF Due
<1> QED
  BY Zenon, <1>0, <1>2, <1>6, <1>7, <1>8, <1>9, <1>10, <1>11, LaneStep

\* A body ends once the DUT has seen its request accepted.
LEMMA BodyInv == ASSUME Undisturbed, NEW t \in Tags, Body(t) PROVE Serving'
<1>0. Resume(Lane(t)) /\ pc[Lane(t)] = "body" /\ UNCHANGED response /\ Goto(Lane(t), "clear")
  BY Zenon DEF Body, Complete
<1>1. /\ lane_rsp_valid' = [lane_rsp_valid EXCEPT ![t] = TRUE]
      /\ lane_req_valid' = lane_req_valid /\ lane_rsp_data' = lane_rsp_data
      /\ lane_busy' = lane_busy /\ lane_arg' = lane_arg /\ left' = left
  BY Zenon DEF Body, Complete
<1>2. /\ Owned(t) /\ Due(t) /\ phase = "tick" /\ Lane(t) \in ready \ resumed
      /\ Lane(t) \in resumed' /\ asked' = asked /\ stage' = stage /\ pc'[Lane(t)] = "clear"
      /\ Fresh(t)' <=> Fresh(t)
      /\ Outstanding(t)' <=> Outstanding(t)
      /\ ~ Ahead(Lane(t))'
  BY Zenon, <1>0, OwnRequest
<1>3. "wait" # "clear" /\ "body" # "wait" /\ "body" # "clear"
  OBVIOUS
<1>4. /\ stage[t] = "wait" /\ Outstanding(t) /\ lane_busy[t] /\ ~ lane_rsp_valid[t]
      /\ ~ lane_req_valid[t] /\ lane_arg[t] = asked[t] /\ lane_rsp_data[t] = lane_arg[t]
  BY Zenon, <1>0, <1>2, <1>3 DEF Owned, Due, Outstanding
<1>5. /\ lane_busy' \in [Tags -> BOOLEAN] /\ lane_req_valid' \in [Tags -> BOOLEAN]
      /\ lane_rsp_valid' \in [Tags -> BOOLEAN] /\ lane_arg' \in [Tags -> Args]
      /\ lane_rsp_data' \in [Tags -> Args] /\ left' \in [Tags -> Nat]
  BY Zenon, <1>1 DEF Undisturbed, Serving, TypeOK
<1>6. /\ lane_rsp_valid'[t]
      /\ \A u \in Tags : u # t => (lane_rsp_valid'[u] <=> lane_rsp_valid[u])
  BY Zenon, <1>1 DEF Undisturbed, Serving, TypeOK
<1>7. \A u \in Tags : /\ lane_busy'[u] <=> lane_busy[u]
                      /\ lane_req_valid'[u] <=> lane_req_valid[u]
                      /\ lane_arg'[u] = lane_arg[u] /\ left'[u] = left[u]
                      /\ lane_rsp_data'[u] = lane_rsp_data[u]
  BY <1>1
<1>8. Owned(t)'
  BY Zenon, <1>2, <1>3, <1>4, <1>6, <1>7 DEF Owned
<1>9. Due(t)'
  BY Zenon, <1>2, <1>3 DEF Due
<1> QED
  BY Zenon, <1>0, <1>4, <1>5, <1>6, <1>7, <1>8, <1>9, LaneStep

\* A lane frees its tag once the DUT has taken the response.
LEMMA FreeLaneInv == ASSUME Undisturbed, NEW t \in Tags, FreeLane(t) PROVE Serving'
<1>0. Resume(Lane(t)) /\ pc[Lane(t)] = "clear" /\ UNCHANGED response /\ Goto(Lane(t), "wait")
  BY Zenon DEF FreeLane
<1>1. /\ lane_busy' = [lane_busy EXCEPT ![t] = FALSE]
      /\ lane_req_valid' = lane_req_valid /\ lane_rsp_data' = lane_rsp_data
      /\ lane_rsp_valid' = lane_rsp_valid /\ lane_arg' = lane_arg /\ left' = left
  BY Zenon DEF FreeLane
<1>2. /\ Owned(t) /\ Due(t) /\ phase = "tick" /\ Lane(t) \in ready \ resumed
      /\ Lane(t) \in resumed' /\ asked' = asked /\ stage' = stage /\ pc'[Lane(t)] = "wait"
      /\ Fresh(t)' <=> Fresh(t)
      /\ Outstanding(t)' <=> Outstanding(t)
      /\ ~ Ahead(Lane(t))'
  BY Zenon, <1>0, OwnRequest
<1>3. "wait" # "clear" /\ "wait" # "body"
  OBVIOUS
<1>4. ~ lane_rsp_valid[t] /\ ~ Outstanding(t) /\ ~ lane_req_valid[t]
  BY Zenon, <1>0, <1>2, <1>3 DEF Owned, Due
<1>5. /\ lane_busy' \in [Tags -> BOOLEAN] /\ lane_req_valid' \in [Tags -> BOOLEAN]
      /\ lane_rsp_valid' \in [Tags -> BOOLEAN] /\ lane_arg' \in [Tags -> Args]
      /\ lane_rsp_data' \in [Tags -> Args] /\ left' \in [Tags -> Nat]
  BY Zenon, <1>1 DEF Undisturbed, Serving, TypeOK
<1>6. /\ ~ lane_busy'[t]
      /\ \A u \in Tags : u # t => (lane_busy'[u] <=> lane_busy[u])
  BY Zenon, <1>1 DEF Undisturbed, Serving, TypeOK
<1>7. \A u \in Tags : /\ lane_rsp_valid'[u] <=> lane_rsp_valid[u]
                      /\ lane_req_valid'[u] <=> lane_req_valid[u]
                      /\ lane_arg'[u] = lane_arg[u] /\ left'[u] = left[u]
                      /\ lane_rsp_data'[u] = lane_rsp_data[u]
  BY <1>1
<1>8. Owned(t)'
  BY Zenon, <1>2, <1>3, <1>4, <1>6, <1>7 DEF Owned
<1>9. Due(t)'
  BY Zenon, <1>2, <1>3 DEF Due
<1>10. \A u \in Tags : lane_busy'[u] => lane_busy[u]
  BY Zenon, <1>6
<1> QED
  BY Zenon, <1>0, <1>4, <1>5, <1>6, <1>7, <1>8, <1>9, <1>10, LaneStep

-----------------------------------------------------------------------------
\* What the arbiter does leaves the dispatcher alone, and every lane but the one
\* whose response it withdraws.
LEMMA ArbiterStep ==
  ASSUME Undisturbed, Resume(Arbiter), NEW s \in {"idle", "offer", "hold"}, Goto(Arbiter, s),
         rsp_valid' \in BOOLEAN /\ rsp_tag' \in Tags /\ rsp_data' \in Args,
         lane_rsp_valid' \in [Tags -> BOOLEAN],
         UNCHANGED <<lane_busy, lane_req_valid, lane_arg, lane_rsp_data, left>>
  PROVE  /\ Dispatching' /\ pc'[Arbiter] = s
         /\ phase = "tick" /\ Arbiter \in ready \ resumed /\ Arbiter \in resumed'
         /\ stage' = stage /\ rsp_ready' = rsp_ready
         /\ \A t \in Tags :
               /\ lane_rsp_valid'[t] <=> lane_rsp_valid[t]
               /\ ~ (lane_rsp_valid[t] /\ Acked /\ rsp_tag = t)
               => Owned(t)' /\ Due(t)'
<1>1. /\ pc'[Arbiter] = s /\ \A d \in Coroutines : d # Arbiter => pc'[d] = pc[d]
      /\ pc' \in [Coroutines ->
                   {"accept", "rearm", "wait", "body", "clear", "idle", "offer", "hold"}]
  BY Zenon, CoroutineFacts, GotoFacts DEF Undisturbed, Serving
<1>2. /\ phase = "tick" /\ Arbiter \in ready \ resumed /\ Arbiter \in resumed'
      /\ phase' = phase /\ turn' = turn /\ ready' = ready /\ scheds' = scheds
      /\ stage' = stage /\ asked' = asked /\ rsp_ready' = rsp_ready /\ req_ready' = req_ready
      /\ Ticking' /\ resumed' \subseteq ready'
  BY Zenon, ResumeFacts DEF Undisturbed, Serving
<1>3. pc'[Dispatcher] = pc[Dispatcher]
  BY Zenon, <1>1, CoroutineFacts
<1>5. \A t \in Tags : /\ lane_busy'[t] <=> lane_busy[t]
                      /\ lane_req_valid'[t] <=> lane_req_valid[t]
                      /\ lane_arg'[t] = lane_arg[t] /\ left'[t] = left[t]
                      /\ lane_rsp_data'[t] = lane_rsp_data[t]
  OBVIOUS
<1>6. Dispatching'
  BY Zenon, <1>3, <1>5, CoroutineFacts, DispatchingKept
<1>7. ASSUME NEW t \in Tags, lane_rsp_valid'[t] <=> lane_rsp_valid[t],
             ~ (lane_rsp_valid[t] /\ Acked /\ rsp_tag = t)
      PROVE  Owned(t)' /\ Due(t)'
  <2>1. Lane(t) # Arbiter /\ pc'[Lane(t)] = pc[Lane(t)]
    BY Zenon, <1>1, CoroutineFacts
  <2>2. Fresh(t)' <=> Fresh(t)
    BY Zenon, <1>2, <1>3 DEF Fresh
  <2> QED
    BY <1>5, <1>7, <2>1, <2>2, LaneKept
<1> QED
  BY Zenon, <1>1, <1>2, <1>6, <1>7

\* The arbiter shows the response of a lane whose tag is outstanding.
LEMMA SelectInv == Undisturbed /\ Select => Serving'
<1> SUFFICES ASSUME Undisturbed, Select PROVE Serving'
  OBVIOUS
<1>1. Resume(Arbiter) /\ pc[Arbiter] = "idle" /\ rsp_valid' = TRUE /\ UNCHANGED <<lanes, left>>
  BY Zenon DEF Select
<1>2. PICK sel \in Tags : lane_rsp_valid[sel] /\ rsp_tag' = sel /\ rsp_data' = lane_rsp_data[sel]
  BY Zenon DEF Select
<1>3. PICK s \in {"offer", "hold"} : Goto(Arbiter, s) /\ (s = "hold" <=> rsp_ready)
  <2>1. Goto(Arbiter, AfterSelect)
    BY Zenon DEF Select
  <2>2. AfterSelect \in {"offer", "hold"} /\ (AfterSelect = "hold" <=> rsp_ready)
    BY DEF AfterSelect
  <2> QED
    BY Zenon, <2>1, <2>2
<1>4. /\ lane_busy' = lane_busy /\ lane_req_valid' = lane_req_valid
      /\ lane_rsp_valid' = lane_rsp_valid /\ lane_arg' = lane_arg
      /\ lane_rsp_data' = lane_rsp_data /\ left' = left
  BY Zenon, <1>1 DEF lanes
<1>5. /\ rsp_valid' \in BOOLEAN /\ rsp_tag' \in Tags /\ rsp_data' \in Args
      /\ lane_rsp_valid' \in [Tags -> BOOLEAN]
  BY Zenon, <1>1, <1>2, <1>4 DEF Undisturbed, Serving, TypeOK
<1>6. /\ Dispatching' /\ pc'[Arbiter] = s
      /\ phase = "tick" /\ Arbiter \in ready \ resumed /\ Arbiter \in resumed'
      /\ stage' = stage /\ rsp_ready' = rsp_ready
      /\ \A t \in Tags :
               /\ lane_rsp_valid'[t] <=> lane_rsp_valid[t]
               /\ ~ (lane_rsp_valid[t] /\ Acked /\ rsp_tag = t)
               => Owned(t)' /\ Due(t)'
  <2>1. s \in {"idle", "offer", "hold"}
    BY Zenon
  <2> QED
    BY Zenon, <1>1, <1>3, <1>4, <1>5, <2>1, ArbiterStep
<1>7. ~ Acked /\ ~ Acked'
  BY <1>1, <1>6 DEF Acked
<1>8. \A t \in Tags : lane_rsp_valid'[t] <=> lane_rsp_valid[t]
  BY <1>4
<1>9. \A t \in Tags : Owned(t)' /\ Due(t)'
  BY Zenon, <1>6, <1>7, <1>8
<1>10. stage[sel] = "wait"
  <2>1. Owned(sel)
    BY Zenon DEF Undisturbed, Serving
  <2>2. pc[Lane(sel)] = "clear" /\ "clear" # "wait"
    BY <1>2, <2>1 DEF Owned
  <2> QED
    BY Zenon, <1>2, <1>7, <2>1, <2>2 DEF Owned
<1>11. Arbitrating'
  <2>1. s # "idle"
    OBVIOUS
  <2>2. rsp_valid' /\ lane_rsp_valid'[rsp_tag'] /\ rsp_data' = lane_rsp_data'[rsp_tag']
    BY <1>1, <1>2, <1>4
  <2>3. stage'[rsp_tag'] = "wait"
    BY <1>2, <1>6, <1>10
  <2>4. pc'[Arbiter] \in {"idle", "offer", "hold"}
    BY Zenon, <1>6
  <2> QED
    BY Zenon, <1>3, <1>6, <1>7, <2>1, <2>2, <2>3, <2>4 DEF Arbitrating
<1> QED
  BY Zenon, <1>6, <1>9, <1>11 DEF Serving

\* The arbiter sees rsp_ready: the next posedge takes the response.
LEMMA OfferInv == Undisturbed /\ Offer => Serving'
<1> SUFFICES ASSUME Undisturbed, Offer PROVE Serving'
  OBVIOUS
<1>1. /\ Resume(Arbiter) /\ pc[Arbiter] = "offer" /\ Goto(Arbiter, "hold")
      /\ UNCHANGED <<response, lanes, left>>
  BY Zenon DEF Offer
<1>2. /\ lane_busy' = lane_busy /\ lane_req_valid' = lane_req_valid
      /\ lane_rsp_valid' = lane_rsp_valid /\ lane_arg' = lane_arg
      /\ lane_rsp_data' = lane_rsp_data /\ left' = left
      /\ rsp_valid' = rsp_valid /\ rsp_tag' = rsp_tag /\ rsp_data' = rsp_data
  BY Zenon, <1>1 DEF lanes, response
<1>3. /\ rsp_valid' \in BOOLEAN /\ rsp_tag' \in Tags /\ rsp_data' \in Args
      /\ lane_rsp_valid' \in [Tags -> BOOLEAN]
  BY Zenon, <1>2 DEF Undisturbed, Serving, TypeOK
<1>4. /\ Dispatching' /\ pc'[Arbiter] = "hold"
      /\ phase = "tick" /\ Arbiter \in ready \ resumed /\ Arbiter \in resumed'
      /\ stage' = stage /\ rsp_ready' = rsp_ready
      /\ \A t \in Tags :
               /\ lane_rsp_valid'[t] <=> lane_rsp_valid[t]
               /\ ~ (lane_rsp_valid[t] /\ Acked /\ rsp_tag = t)
               => Owned(t)' /\ Due(t)'
  BY Zenon, <1>1, <1>2, <1>3, ArbiterStep
<1>5. ~ Acked /\ ~ Acked' /\ "hold" # "idle" /\ "offer" # "idle"
  BY <1>1, <1>4 DEF Acked
<1>6. \A t \in Tags : lane_rsp_valid'[t] <=> lane_rsp_valid[t]
  BY <1>2
<1>7. \A t \in Tags : Owned(t)' /\ Due(t)'
  BY Zenon, <1>4, <1>5, <1>6
<1>8. /\ rsp_valid /\ rsp_ready /\ lane_rsp_valid[rsp_tag] /\ stage[rsp_tag] = "wait"
      /\ rsp_data = lane_rsp_data[rsp_tag] /\ rsp_tag \in Tags
  BY Zenon, <1>1, <1>4, <1>5 DEF Undisturbed, Serving, Arbitrating, TypeOK
<1>9. Arbitrating'
  <2>1. /\ rsp_valid' /\ rsp_ready' /\ lane_rsp_valid'[rsp_tag']
        /\ stage'[rsp_tag'] = "wait" /\ rsp_data' = lane_rsp_data'[rsp_tag']
    BY <1>2, <1>4, <1>8
  <2> QED
    BY Zenon, <1>4, <1>5, <2>1 DEF Arbitrating
<1> QED
  BY Zenon, <1>4, <1>7, <1>9 DEF Serving

\* The arbiter withdraws a response that the DUT has taken.
LEMMA WithdrawInv == Undisturbed /\ Withdraw => Serving'
<1> SUFFICES ASSUME Undisturbed, Withdraw PROVE Serving'
  OBVIOUS
<1>1. /\ Resume(Arbiter) /\ pc[Arbiter] = "hold" /\ Goto(Arbiter, "idle")
      /\ rsp_valid' = FALSE /\ rsp_tag' = rsp_tag /\ rsp_data' = rsp_data
      /\ lane_rsp_valid' = [lane_rsp_valid EXCEPT ![rsp_tag] = FALSE]
      /\ UNCHANGED <<lane_busy, lane_req_valid, lane_arg, lane_rsp_data, left>>
  BY Zenon DEF Withdraw
<1>2. /\ rsp_valid' \in BOOLEAN /\ rsp_tag' \in Tags /\ rsp_data' \in Args /\ rsp_tag \in Tags
      /\ lane_rsp_valid' \in [Tags -> BOOLEAN]
  BY Zenon, <1>1 DEF Undisturbed, Serving, TypeOK
<1>3. /\ Dispatching' /\ pc'[Arbiter] = "idle"
      /\ phase = "tick" /\ Arbiter \in ready \ resumed /\ Arbiter \in resumed'
      /\ stage' = stage /\ rsp_ready' = rsp_ready
      /\ \A t \in Tags :
               /\ lane_rsp_valid'[t] <=> lane_rsp_valid[t]
               /\ ~ (lane_rsp_valid[t] /\ Acked /\ rsp_tag = t)
               => Owned(t)' /\ Due(t)'
  BY Zenon, <1>1, <1>2, ArbiterStep
<1>4. "hold" # "idle" /\ "idle" # "offer" /\ "tick" # "posedge" /\ "clear" # "wait" /\ "clear" # "body"
  OBVIOUS
<1>5. Acked /\ rsp_valid /\ stage[rsp_tag] # "wait" /\ lane_rsp_valid[rsp_tag]
  BY Zenon, <1>1, <1>3, <1>4 DEF Undisturbed, Serving, Arbitrating, Acked
<1>6. Arbitrating'
  BY Zenon, <1>1, <1>3, <1>4 DEF Arbitrating
<1>7. ~ lane_rsp_valid'[rsp_tag] /\ \A t \in Tags : t # rsp_tag =>
         (lane_rsp_valid'[t] <=> lane_rsp_valid[t])
  BY Zenon, <1>1, <1>2 DEF Undisturbed, Serving, TypeOK
<1>8. \A t \in Tags : t # rsp_tag => Owned(t)' /\ Due(t)'
  BY Zenon, <1>3, <1>7
<1>9. ASSUME NEW t \in Tags, t = rsp_tag PROVE Owned(t)' /\ Due(t)'
  <2>1. Owned(t) /\ lane_rsp_valid[t] /\ stage[t] # "wait" /\ ~ lane_rsp_valid'[t]
    BY Zenon, <1>5, <1>7, <1>9 DEF Undisturbed, Serving
  <2>2. /\ pc[Lane(t)] = "clear" /\ ~ Outstanding(t) /\ lane_busy[t] /\ ~ lane_req_valid[t]
        /\ lane_rsp_data[t] = lane_arg[t]
    BY Zenon, <1>4, <2>1 DEF Owned
  <2>3. pc'[Lane(t)] = "clear" /\ pc'[Dispatcher] = pc[Dispatcher]
    BY Zenon, <1>1, <2>2, CoroutineFacts, GotoFacts DEF Undisturbed, Serving
  <2>4. ~ Outstanding(t)'
    BY Zenon, <1>3, <2>2, <2>3 DEF Outstanding, Fresh
  <2>5. lane_busy'[t] /\ ~ lane_req_valid'[t] /\ lane_rsp_data'[t] = lane_arg'[t]
    BY <1>1, <2>2
  <2>6. Owned(t)'
    BY Zenon, <1>4, <2>1, <2>3, <2>4, <2>5 DEF Owned
  <2>7. Due(t)'
    BY Zenon, <1>4, <2>1, <2>3 DEF Due
  <2> QED
    BY Zenon, <2>6, <2>7
<1> QED
  BY Zenon, <1>3, <1>6, <1>8, <1>9 DEF Serving

-----------------------------------------------------------------------------
\* The dispatcher and the arbiter have nothing left to do in this tick.
DispatcherSettled == pc[Dispatcher] = "rearm" <=> req_valid /\ req_ready
ArbiterSettled == rsp_valid => ~ Acked /\ (pc[Arbiter] = "hold" <=> rsp_ready)

\* The end of a scheduler's tick, when its coroutines have nothing left to do.
LEMMA EndTurnInv ==
  ASSUME Undisturbed, phase = "tick", resumed = ready, EndTurn,
         UNCHANGED <<initiator, req_ready, response, lanes, pc, scheds>>,
         Dispatcher \in scheds[turn] => DispatcherSettled,
         Arbiter \in scheds[turn] => ArbiterSettled,
         left' \in [Tags -> Nat], \A t \in Tags : pc[Lane(t)] = "body" => left'[t] > 0
  PROVE  Serving'
<1>1. /\ stage' = stage /\ asked' = asked /\ rsp_ready' = rsp_ready /\ req_ready' = req_ready
      /\ rsp_valid' = rsp_valid /\ rsp_tag' = rsp_tag /\ rsp_data' = rsp_data
      /\ lane_busy' = lane_busy /\ lane_req_valid' = lane_req_valid
      /\ lane_rsp_valid' = lane_rsp_valid /\ lane_arg' = lane_arg
      /\ lane_rsp_data' = lane_rsp_data /\ pc' = pc /\ scheds' = scheds
      /\ ready' = {} /\ resumed' = {}
  BY Zenon DEF initiator, response, lanes, EndTurn
<1>2. turn \in 1 .. Len(scheds) /\ Len(scheds) \in Nat \ {0}
  BY Zenon DEF Undisturbed, Serving, TypeOK, Ticking
<1>3. \/ turn = Len(scheds) /\ turn' = 1 /\ phase' = "posedge"
      \/ turn # Len(scheds) /\ turn' = turn + 1 /\ phase' = "tick"
  BY Zenon DEF EndTurn
<1>4. turn' \in 1 .. Len(scheds) /\ (turn' > 1 \/ phase' = "posedge")
  BY <1>2, <1>3
<1>7. Dispatching'
  <2>1. DispatcherSettled
    <3>1. CASE turn = 1
      BY Zenon, <1>2, <3>1 DEF Undisturbed, Serving, Ticking
    <3>2. CASE turn # 1
      <4>1. Decided
        BY <1>2, <3>2 DEF Decided
      <4> QED
        BY Zenon, <4>1 DEF Undisturbed, Serving, Dispatching, DispatcherSettled
    <3> QED
      BY Zenon, <3>1, <3>2
  <2>2. Decided'
    BY <1>3, <1>4 DEF Decided
  <2>3. Requested' = Requested /\ (req_valid' <=> req_valid)
    BY Zenon, <1>1 DEF Requested, req_valid
  <2>4. req_ready' <=> req_ready
    BY <1>1
  <2> QED
    BY Zenon, <1>1, <2>1, <2>2, <2>3, <2>4 DEF Undisturbed, Serving, Dispatching, DispatcherSettled
<1>8. \/ phase' = "posedge" /\ ~ Acked' /\ ArbiterSettled
      \/ phase' = "tick" /\ (Acked' <=> Acked)
  <2>1. CASE turn = Len(scheds) /\ phase' = "posedge"
    <3>1. Arbiter \in scheds[turn]
      BY Zenon, <1>2, <2>1 DEF Undisturbed, Serving, Ticking
    <3> QED
      BY Zenon, <2>1, <3>1 DEF Acked
  <2>2. CASE turn # Len(scheds) /\ phase' = "tick"
    <3>1. Arbiter \notin resumed
      BY Zenon, <1>2, <2>2 DEF Undisturbed, Serving, Ticking
    <3>2. Arbiter \notin resumed'
      BY Zenon, <1>1
    <3> QED
      BY <1>1, <2>2, <3>1, <3>2 DEF Acked
  <2> QED
    BY Zenon, <1>3, <2>1, <2>2
<1>9. Arbitrating'
  <2>2. /\ pc'[Arbiter] \in {"idle", "offer", "hold"}
        /\ rsp_valid' <=> pc'[Arbiter] # "idle"
        /\ rsp_valid' => lane_rsp_valid'[rsp_tag'] /\ rsp_data' = lane_rsp_data'[rsp_tag']
    BY <1>1 DEF Undisturbed, Serving, Arbitrating
  <2>3. rsp_valid' => (Acked' <=> stage'[rsp_tag'] # "wait")
    BY <1>1, <1>8 DEF Undisturbed, Serving, Arbitrating, ArbiterSettled
  <2>4. Looked' /\ rsp_valid' => ~ Acked' /\ (pc'[Arbiter] = "hold" <=> rsp_ready')
    BY <1>1, <1>8 DEF Looked, ArbiterSettled
  <2>5. Arbiter \notin ready'
    BY Zenon, <1>1
  <2> QED
    BY Zenon, <2>2, <2>3, <2>4, <2>5 DEF Arbitrating
<1>10. ASSUME NEW t \in Tags PROVE Owned(t)' /\ Due(t)'
  <2>1. Owned(t) /\ Due(t) /\ (Fresh(t)' <=> Fresh(t)) /\ (Outstanding(t)' <=> Outstanding(t))
    BY Zenon, <1>1 DEF Undisturbed, Serving, Fresh, Outstanding
  <2>2. lane_busy[t] /\ ~ Outstanding(t) /\ lane_rsp_valid[t] => Acked' /\ rsp_tag' = t
    BY Zenon, <1>1, <1>8, <2>1 DEF Owned, ArbiterSettled, Undisturbed, Serving, Arbitrating, Acked
  <2>3. Owned(t)'
    BY <1>1, <2>1, <2>2 DEF Owned
  <2>4. phase' = "tick" /\ pc'[Lane(t)] = "body" /\ Fresh(t)' => ~ Ahead(Lane(t))'
    <3> SUFFICES ASSUME phase' = "tick", ~ Ahead(Lane(t)) PROVE ~ Ahead(Lane(t))'
      BY Zenon, <1>1, <2>1 DEF Due
    <3>1. turn' = turn + 1
      BY <1>3
    <3> SUFFICES ASSUME NEW i \in turn + 1 .. Len(scheds), Lane(t) \in scheds[i] PROVE FALSE
      BY Zenon, <1>1, <3>1 DEF Ahead
    <3>2. i \in turn .. Len(scheds) /\ i \in 1 .. Len(scheds) /\ i # turn
      BY <1>2
    <3>3. Lane(t) \in scheds[turn]
      BY Zenon, <3>2 DEF Ahead, Undisturbed, Serving, Ticking
    <3> QED
      BY Zenon, <1>2, <3>2, <3>3 DEF Undisturbed, Serving, Ticking
  <2>5. Due(t)'
    BY Zenon, <1>1, <2>4 DEF Due
  <2> QED
    BY Zenon, <2>3, <2>5
<1> QED
  BY Zenon, <1>7, <1>9, <1>10 DEF Serving

\* A pass of a scheduler that finds coroutines to resume.
LEMMA WakeInv ==
  ASSUME Undisturbed, phase = "tick", resumed = ready, NEW W \in SUBSET (scheds[turn] \ ready), W # {},
         ready' = ready \cup W,
         UNCHANGED <<phase, turn, resumed, initiator, req_ready, response, lanes, pc, scheds>>,
         \A c \in W : Holds(c) \/ Elapses(c),
         Dispatcher \in W => ~ Decided,
         Dispatcher \in scheds[turn] \ W => DispatcherSettled,
         Arbiter \in scheds[turn] \ W => ArbiterSettled,
         left' \in [Tags -> Nat],
         \A t \in Tags : pc[Lane(t)] = "body" /\ Lane(t) \notin W => left'[t] > 0
  PROVE  Serving'
<1>1. /\ stage' = stage /\ asked' = asked /\ rsp_ready' = rsp_ready /\ req_ready' = req_ready
      /\ rsp_valid' = rsp_valid /\ rsp_tag' = rsp_tag /\ rsp_data' = rsp_data
      /\ lane_busy' = lane_busy /\ lane_req_valid' = lane_req_valid
      /\ lane_rsp_valid' = lane_rsp_valid /\ lane_arg' = lane_arg
      /\ lane_rsp_data' = lane_rsp_data /\ pc' = pc /\ scheds' = scheds
      /\ phase' = phase /\ turn' = turn /\ resumed' = resumed
  BY Zenon DEF initiator, response, lanes
<1>2. turn \in 1 .. Len(scheds) /\ Len(scheds) \in Nat \ {0} /\ turn' = turn
  BY Zenon, <1>1 DEF Undisturbed, Serving, TypeOK, Ticking
<1>3. /\ ready' # {} /\ ready' \subseteq scheds[turn] /\ resumed' \subseteq ready'
      /\ \A c : c \in ready' \ resumed' <=> c \in W
  BY Zenon, <1>1 DEF Undisturbed, Serving, Ticking
<1>4. scheds[turn] \subseteq Coroutines
  BY Zenon, <1>2 DEF Undisturbed, Serving, Ticking
<1>7. Dispatching'
  <2>1. Requested' = Requested /\ (req_valid' <=> req_valid)
    BY Zenon, <1>1 DEF Requested, req_valid
  <2>2. req_ready' <=> req_ready
    BY <1>1
  <2>3. CASE Dispatcher \in W
    <3>1. turn = 1 /\ ~ Decided
      BY Zenon, <1>2, <2>3 DEF Undisturbed, Serving, Ticking
    <3>2. ~ Decided'
      BY <1>1, <1>3, <2>3, <3>1 DEF Decided
    <3>3. pc[Dispatcher] = "accept" => req_valid /\ req_ready
      <4>1. Dispatcher # Arbiter /\ \A t \in Tags : Dispatcher # Lane(t)
        BY Zenon, CoroutineFacts
      <4>2. pc[Dispatcher] = "accept" => ~ Elapses(Dispatcher)
        BY <4>1 DEF Elapses
      <4> QED
        BY Zenon, <2>3, <4>1, <4>2 DEF Holds
    <3> QED
      BY Zenon, <1>1, <2>1, <2>2, <3>1, <3>2, <3>3 DEF Undisturbed, Serving, Dispatching
  <2>4. CASE Dispatcher \notin W
    <3>1. DispatcherSettled
      <4>1. CASE turn = 1
        BY Zenon, <1>2, <2>4, <4>1 DEF Undisturbed, Serving, Ticking
      <4>2. CASE turn # 1
        <5>1. Decided
          BY <1>2, <4>2 DEF Decided
        <5> QED
          BY Zenon, <5>1 DEF Undisturbed, Serving, Dispatching, DispatcherSettled
      <4> QED
        BY Zenon, <4>1, <4>2
    <3>2. Decided'
      BY <1>1, <1>3, <2>4 DEF Decided
    <3>3. Dispatcher \notin ready' \ resumed'
      BY Zenon, <1>3, <2>4
    <3> QED
      BY Zenon, <1>1, <2>1, <2>2, <3>1, <3>2, <3>3 DEF Undisturbed, Serving, Dispatching, DispatcherSettled
  <2> QED
    BY Zenon, <2>3, <2>4
<1>8. Acked' <=> Acked
  BY <1>1 DEF Acked
<1>9. Arbitrating'
  <2>1. /\ pc'[Arbiter] \in {"idle", "offer", "hold"}
        /\ rsp_valid' <=> pc'[Arbiter] # "idle"
        /\ rsp_valid' => lane_rsp_valid'[rsp_tag'] /\ rsp_data' = lane_rsp_data'[rsp_tag']
        /\ rsp_valid' => (Acked' <=> stage'[rsp_tag'] # "wait")
    BY <1>1, <1>8 DEF Undisturbed, Serving, Arbitrating
  <2>2. Looked' => ArbiterSettled
    <3>1. phase' # "posedge"
      BY <1>1
    <3> QED
      BY Zenon, <1>1, <1>3, <3>1 DEF Looked
  <2>3. Looked' /\ rsp_valid' => ~ Acked' /\ (pc'[Arbiter] = "hold" <=> rsp_ready')
    BY <1>1, <1>8, <2>2 DEF ArbiterSettled
  <2>4. ASSUME Arbiter \in W
        PROVE  /\ pc[Arbiter] = "offer" => rsp_ready
               /\ pc[Arbiter] = "idle" => \E t \in Tags : lane_rsp_valid[t]
    <3>1. Dispatcher # Arbiter /\ \A t \in Tags : Arbiter # Lane(t)
      BY Zenon, CoroutineFacts
    <3>2. pc[Arbiter] \in {"offer", "idle"} => ~ Elapses(Arbiter)
      BY <3>1 DEF Elapses
    <3>3. "offer" # "idle"
      OBVIOUS
    <3> QED
      BY Zenon, <2>4, <3>1, <3>2, <3>3 DEF Holds
  <2>5. Arbiter \in ready' \ resumed' =>
          /\ pc'[Arbiter] = "offer" => rsp_ready'
          /\ pc'[Arbiter] = "idle" => \E t \in Tags : lane_rsp_valid'[t]
    BY <1>1, <1>3, <2>4
  <2> QED
    BY Zenon, <2>1, <2>3, <2>5 DEF Arbitrating
<1>10. ASSUME NEW t \in Tags PROVE Owned(t)' /\ Due(t)'
  <2>1. Owned(t) /\ Due(t) /\ (Fresh(t)' <=> Fresh(t)) /\ (Outstanding(t)' <=> Outstanding(t))
    BY Zenon, <1>1 DEF Undisturbed, Serving, Fresh, Outstanding
  <2>2. Owned(t)'
    BY <1>1, <1>8, <2>1 DEF Owned
  <2>3. Ahead(Lane(t))' <=> Ahead(Lane(t))
    BY Zenon, <1>1 DEF Ahead
  <2>4. ASSUME Lane(t) \in W
        PROVE  /\ pc[Lane(t)] = "wait" => lane_req_valid[t]
               /\ pc[Lane(t)] = "body" => stage[t] = "wait"
               /\ pc[Lane(t)] = "clear" => ~ lane_rsp_valid[t]
    <3>1. /\ Lane(t) # Dispatcher /\ Lane(t) # Arbiter
          /\ \A u \in Tags : Lane(t) = Lane(u) => t = u
      BY Zenon, CoroutineFacts
    <3>2. /\ "wait" # "clear" /\ "body" # "wait" /\ "body" # "clear"
          /\ pc[Lane(t)] \in {"wait", "clear"} => ~ Elapses(Lane(t))
      BY DEF Elapses
    <3>3. ASSUME pc[Lane(t)] = "body" PROVE stage[t] = "wait"
      <4>1. Outstanding(t)
        BY Zenon, <2>1, <3>2, <3>3 DEF Owned
      <4>2. Ahead(Lane(t))
        <5>1. turn \in turn .. Len(scheds)
          BY <1>2
        <5> QED
          BY Zenon, <2>4, <5>1 DEF Ahead
      <4> QED
        BY Zenon, <2>1, <3>3, <4>1, <4>2 DEF Due, Outstanding
    <3>4. pc[Lane(t)] = "wait" => lane_req_valid[t]
      BY Zenon, <2>4, <3>1, <3>2 DEF Holds
    <3>5. pc[Lane(t)] = "clear" => ~ lane_rsp_valid[t]
      BY Zenon, <2>4, <3>1, <3>2 DEF Holds
    <3> QED
      BY Zenon, <3>3, <3>4, <3>5
  <2>5. Due(t)'
    <3>1. Lane(t) \in ready' \ resumed' <=> Lane(t) \in W
      BY Zenon, <1>3
    <3>2. Lane(t) \in ready' \ resumed' =>
            /\ pc'[Lane(t)] = "wait" => lane_req_valid'[t]
            /\ pc'[Lane(t)] = "body" => stage'[t] = "wait"
            /\ pc'[Lane(t)] = "clear" => ~ lane_rsp_valid'[t]
      BY <1>1, <2>4, <3>1
    <3> QED
      BY Zenon, <1>1, <2>1, <2>3, <3>1, <3>2 DEF Due
  <2> QED
    BY Zenon, <2>2, <2>5
<1> QED
  BY Zenon, <1>7, <1>9, <1>10 DEF Serving

\* Pass 1 resumes what waits for a predicate that holds or for the last cycle.
LEMMA PassOneInv == Undisturbed /\ PassOne => Serving'
<1> SUFFICES ASSUME Undisturbed, PassOne PROVE Serving'
  OBVIOUS
<1> DEFINE due == {c \in scheds[turn] : Holds(c) \/ Elapses(c)}
<1>1. /\ phase = "tick" /\ ready = {}
      /\ left' = [t \in Tags |->
                    IF Lane(t) \in scheds[turn] /\ pc[Lane(t)] = "body" /\ left[t] > 0
                    THEN left[t] - 1 ELSE left[t]]
      /\ IF due = {} THEN EndTurn ELSE ready' = due /\ UNCHANGED <<phase, turn, resumed>>
      /\ UNCHANGED <<initiator, req_ready, response, lanes, pc, scheds>>
  BY Zenon DEF PassOne
<1>2. resumed = ready
  BY Zenon, <1>1 DEF Undisturbed, Serving, Ticking
<1>3. ASSUME NEW t \in Tags
      PROVE  /\ left'[t] \in Nat
             /\ pc[Lane(t)] = "body" /\ Lane(t) \notin due => left'[t] > 0
  <2>1. left[t] \in Nat /\ (pc[Lane(t)] = "body" => left[t] > 0)
    BY Zenon, <1>1 DEF Undisturbed, Serving, TypeOK, Due
  <2>2. Lane(t) \in scheds[turn] /\ Lane(t) \notin due /\ pc[Lane(t)] = "body" => ~ (left[t] <= 1)
    BY Zenon DEF Elapses
  <2>3. left'[t] = IF Lane(t) \in scheds[turn] /\ pc[Lane(t)] = "body" /\ left[t] > 0
                   THEN left[t] - 1 ELSE left[t]
    BY Zenon, <1>1
  <2> HIDE DEF due
  <2> QED
    BY <2>1, <2>2, <2>3
<1>4. left' \in [Tags -> Nat]
  <2>1. left' = [t \in Tags |-> left'[t]]
    BY Zenon, <1>1
  <2> QED
    BY Zenon, <1>3, <2>1
<1>5. Dispatcher \in scheds[turn] \ due => DispatcherSettled
  <2>1. "accept" # "rearm"
    OBVIOUS
  <2> QED
    BY Zenon, <2>1 DEF Undisturbed, Serving, Dispatching, DispatcherSettled, Holds, Elapses
<1>6. Arbiter \in scheds[turn] \ due => ArbiterSettled
  <2>1. Arbiter \in scheds[turn] \ due => pc[Arbiter] # "hold" /\ (pc[Arbiter] = "offer" => ~ rsp_ready)
    BY Zenon DEF Holds, Elapses
  <2> QED
    BY Zenon, <2>1 DEF Undisturbed, Serving, Arbitrating, ArbiterSettled, Acked
<1>7. Dispatcher \in due => ~ Decided
  <2>1. turn \in 1 .. Len(scheds) /\ (Dispatcher \in due => turn = 1)
    BY Zenon DEF Undisturbed, Serving, TypeOK, Ticking
  <2> HIDE DEF due
  <2> QED
    BY <1>1, <2>1 DEF Decided
<1>8. /\ due \subseteq scheds[turn] /\ \A c \in due : Holds(c) \/ Elapses(c)
  BY Zenon
<1> HIDE DEF due
<1>9. CASE due = {}
  <2>1. EndTurn
    BY Zenon, <1>1, <1>9
  <2>2. \A t \in Tags : pc[Lane(t)] = "body" => left'[t] > 0
    BY Zenon, <1>3, <1>9
  <2>3. /\ Dispatcher \in scheds[turn] => DispatcherSettled
        /\ Arbiter \in scheds[turn] => ArbiterSettled
    BY Zenon, <1>5, <1>6, <1>9
  <2> QED
    BY Zenon, <1>1, <1>2, <1>4, <2>1, <2>2, <2>3, EndTurnInv
<1>10. CASE due # {}
  <2>1. ready' = due /\ phase' = phase /\ turn' = turn /\ resumed' = resumed
    BY Zenon, <1>1, <1>10
  <2>2. due \in SUBSET (scheds[turn] \ ready) /\ ready' = ready \cup due
    BY Zenon, <1>1, <1>8, <2>1
  <2> QED
    BY Zenon, <1>1, <1>2, <1>3, <1>4, <1>5, <1>6, <1>7, <1>8, <1>10, <2>1, <2>2, WakeInv
<1> QED
  BY Zenon, <1>9, <1>10

\* The re-check resumes what a coroutine of the same tick has made ready.
LEMMA RecheckInv == Undisturbed /\ Recheck => Serving'
<1> SUFFICES ASSUME Undisturbed, Recheck PROVE Serving'
  OBVIOUS
<1> DEFINE late == {c \in scheds[turn] \ resumed : Holds(c)}
<1>1. /\ phase = "tick" /\ ready # {} /\ resumed = ready
      /\ IF late = {} THEN EndTurn
         ELSE ready' = ready \cup late /\ UNCHANGED <<phase, turn, resumed>>
      /\ UNCHANGED <<initiator, req_ready, response, lanes, pc, left, scheds>>
  BY Zenon DEF Recheck
<1>2. left' \in [Tags -> Nat] /\ \A t \in Tags : pc[Lane(t)] = "body" => left'[t] > 0
  BY Zenon, <1>1 DEF Undisturbed, Serving, TypeOK, Due
<1>3. /\ turn \in 1 .. Len(scheds)
      /\ Dispatcher \in scheds[turn] => turn = 1
      /\ Dispatcher \notin ready \ resumed
  BY Zenon, <1>1 DEF Undisturbed, Serving, TypeOK, Ticking
<1>4. Dispatcher \in scheds[turn] => DispatcherSettled
  <2>1. Decided
    BY Zenon, <1>1, <1>3 DEF Decided
  <2> QED
    BY Zenon, <2>1 DEF Undisturbed, Serving, Dispatching, DispatcherSettled
<1>5. Arbiter \in scheds[turn] => ArbiterSettled
  <2>1. Arbiter \in scheds[turn] => Looked
    BY Zenon, <1>1 DEF Looked
  <2> QED
    BY Zenon, <2>1 DEF Undisturbed, Serving, Arbitrating, ArbiterSettled
<1>6. Dispatcher \notin late
  <2>1. Dispatcher # Arbiter /\ \A t \in Tags : Dispatcher # Lane(t)
    BY Zenon, CoroutineFacts
  <2>2. "accept" # "rearm"
    OBVIOUS
  <2> QED
    BY Zenon, <1>4, <2>1, <2>2 DEF Holds, DispatcherSettled
<1>7. late \in SUBSET (scheds[turn] \ ready) /\ \A c \in late : Holds(c) \/ Elapses(c)
  BY Zenon, <1>1
<1> HIDE DEF late
<1>8. CASE late = {}
  <2>1. EndTurn
    BY Zenon, <1>1, <1>8
  <2> QED
    BY Zenon, <1>1, <1>2, <1>4, <1>5, <2>1, EndTurnInv
<1>9. CASE late # {}
  <2>1. ready' = ready \cup late /\ phase' = phase /\ turn' = turn /\ resumed' = resumed
    BY Zenon, <1>1, <1>9
  <2> QED
    BY Zenon, <1>1, <1>2, <1>4, <1>5, <1>6, <1>7, <1>9, <2>1, WakeInv
<1> QED
  BY Zenon, <1>8, <1>9

-----------------------------------------------------------------------------
\* The gate lets a request through only to a free lane.
LEMMA GateInv == Undisturbed /\ Gate => Serving'
<1> SUFFICES ASSUME Undisturbed, Gate PROVE Serving'
  OBVIOUS
<1>1. /\ phase = "gate" /\ phase' = "tick" /\ req_ready' = TlmReady
      /\ stage' = stage /\ asked' = asked /\ rsp_ready' = rsp_ready
      /\ rsp_valid' = rsp_valid /\ rsp_tag' = rsp_tag /\ rsp_data' = rsp_data
      /\ lane_busy' = lane_busy /\ lane_req_valid' = lane_req_valid
      /\ lane_rsp_valid' = lane_rsp_valid /\ lane_arg' = lane_arg
      /\ lane_rsp_data' = lane_rsp_data /\ pc' = pc /\ scheds' = scheds /\ left' = left
      /\ turn' = turn /\ ready' = ready /\ resumed' = resumed
  BY Zenon DEF Gate, initiator, response, lanes, tick
<1>2. phase # "tick" /\ phase # "posedge" /\ phase' # "posedge"
  BY <1>1
<1>3. turn = 1 /\ ready = {} /\ resumed = {} /\ turn' = 1 /\ ready' = {} /\ resumed' = {}
  BY Zenon, <1>1, <1>2 DEF Undisturbed, Serving, Ticking
<1>4. ~ Decided /\ ~ Decided' /\ ~ Looked'
  BY <1>1, <1>3 DEF Decided, Looked
<1>5. req_ready' \in BOOLEAN
  BY Zenon, <1>1 DEF TlmReady, Free
<1>8. Dispatching'
  <2>1. Requested' = Requested /\ (pc[Dispatcher] = "rearm" => Requested = {})
    BY Zenon, <1>1, <1>4 DEF Undisturbed, Serving, Dispatching, Requested
  <2>2. ASSUME req_ready', NEW t \in Requested PROVE ~ lane_busy'[t]
    <3>1. req_valid /\ t = req_tag
      BY Zenon, RequestTag DEF req_valid, Undisturbed, Serving, Dispatching
    <3>2. TlmReady
      BY Zenon, <1>1, <2>2
    <3>3. ~ lane_busy[t]
      BY Zenon, <3>1, <3>2 DEF TlmReady, Free
    <3> QED
      BY <1>1, <3>3
  <2> QED
    BY Zenon, <1>1, <1>3, <1>4, <2>1, <2>2 DEF Undisturbed, Serving, Dispatching
<1>9. Acked' <=> Acked
  BY Zenon, <1>1, <1>2 DEF Acked
<1>10. Arbitrating'
  <2>1. /\ pc'[Arbiter] \in {"idle", "offer", "hold"}
        /\ rsp_valid' <=> pc'[Arbiter] # "idle"
        /\ rsp_valid' => lane_rsp_valid'[rsp_tag'] /\ rsp_data' = lane_rsp_data'[rsp_tag']
        /\ rsp_valid' => (Acked' <=> stage'[rsp_tag'] # "wait")
    BY <1>1, <1>9 DEF Undisturbed, Serving, Arbitrating
  <2> QED
    BY Zenon, <1>3, <1>4, <2>1 DEF Arbitrating
<1>11. ASSUME NEW t \in Tags PROVE Owned(t)' /\ Due(t)'
  <2>1. Owned(t) /\ Due(t) /\ (Fresh(t)' <=> Fresh(t)) /\ (Outstanding(t)' <=> Outstanding(t))
    BY Zenon, <1>1 DEF Undisturbed, Serving, Fresh, Outstanding
  <2>2. ~ Fresh(t)
    BY Zenon, <1>4 DEF Fresh, Undisturbed, Serving, Dispatching, Requested
  <2>3. Owned(t)'
    BY <1>1, <1>9, <2>1 DEF Owned
  <2>4. Due(t)'
    BY Zenon, <1>1, <1>3, <2>1, <2>2 DEF Due
  <2> QED
    BY Zenon, <2>3, <2>4
<1> QED
  BY Zenon, <1>8, <1>10, <1>11 DEF Serving

\* What the DUT makes of its requests at a posedge, when it is not back to back.
LEMMA EdgeFacts ==
  ASSUME Undisturbed, ~ BackToBack, Edge
  PROVE  /\ stage' \in [Tags -> {"idle", "request", "wait"}] /\ asked' \in [Tags -> Args]
         /\ \A t \in Tags :
               /\ stage'[t] = "wait" <=> (stage[t] = "wait" /\ t \notin Taken) \/ t \in Accepted
               /\ stage'[t] # "request" => asked'[t] = asked[t]
               /\ stage'[t] = "request" => Requested = {} \/ ~ req_ready
         /\ \A t, u \in Requested' : t = u
<1> DEFINE after == [t \in Tags |-> CASE t \in Taken -> "idle"
                                      [] t \in Accepted -> "wait"
                                      [] OTHER -> stage[t]]
<1>1. \/ stage' = after /\ UNCHANGED asked
      \/ /\ Requested = {}
         /\ \E t \in Tags, a \in Args :
               /\ after[t] = "idle"
               /\ stage' = [after EXCEPT ![t] = "request"]
               /\ asked' = [asked EXCEPT ![t] = a]
  BY Zenon DEF Edge
<1>2. /\ stage \in [Tags -> {"idle", "request", "wait"}] /\ asked \in [Tags -> Args]
      /\ \A t, u \in Requested : t = u
  BY Zenon DEF Undisturbed, Serving, TypeOK, Dispatching
<1>3. ASSUME NEW t \in Tags
      PROVE  /\ after[t] \in {"idle", "request", "wait"}
             /\ after[t] = "wait" <=> (stage[t] = "wait" /\ t \notin Taken) \/ t \in Accepted
             /\ after[t] = "request" => t \in Requested /\ ~ req_ready
  <2>1. after[t] = CASE t \in Taken -> "idle" [] t \in Accepted -> "wait" [] OTHER -> stage[t]
    BY Zenon
  <2>2. t \in Taken => stage[t] = "wait"
    BY Zenon DEF Taken
  <2>3. t \in Requested <=> stage[t] = "request"
    BY Zenon DEF Requested
  <2>4. t \in Accepted <=> t \in Requested /\ req_ready
    BY Zenon DEF Accepted
  <2>5. stage[t] \in {"idle", "request", "wait"}
    BY Zenon, <1>2
  <2> HIDE DEF after
  <2> QED
    BY <2>1, <2>2, <2>3, <2>4, <2>5
<1>4. after \in [Tags -> {"idle", "request", "wait"}]
  BY Zenon, <1>3
<1>5. \A t \in Requested' : t \in Tags /\ stage'[t] = "request"
  BY Zenon DEF Requested
<1> HIDE DEF after
<1>6. CASE stage' = after /\ UNCHANGED asked
  BY Zenon, <1>2, <1>3, <1>4, <1>5, <1>6
<1>7. ASSUME Requested = {}, NEW r \in Tags, NEW a \in Args, after[r] = "idle",
             stage' = [after EXCEPT ![r] = "request"], asked' = [asked EXCEPT ![r] = a]
      PROVE  /\ stage' \in [Tags -> {"idle", "request", "wait"}] /\ asked' \in [Tags -> Args]
             /\ \A t \in Tags :
               /\ stage'[t] = "wait" <=> (stage[t] = "wait" /\ t \notin Taken) \/ t \in Accepted
               /\ stage'[t] # "request" => asked'[t] = asked[t]
             /\ \A t, u \in Requested' : t = u
  <2>1. stage'[r] = "request" /\ \A t \in Tags : t # r => stage'[t] = after[t]
    BY Zenon, <1>4, <1>7
  <2>2. \A t \in Tags : t # r => asked'[t] = asked[t]
    BY Zenon, <1>2, <1>7
  <2>3. stage' \in [Tags -> {"idle", "request", "wait"}] /\ asked' \in [Tags -> Args]
    BY Zenon, <1>2, <1>4, <1>7
  <2>4. after[r] # "wait" /\ stage'[r] # "wait"
    BY <1>7, <2>1
  <2>5. \A t \in Tags : t # r => after[t] # "request"
    BY Zenon, <1>3, <1>7
  <2> QED
    BY Zenon, <1>3, <1>5, <2>1, <2>2, <2>3, <2>4, <2>5
<1> QED
  BY Zenon, <1>1, <1>6, <1>7

\* A posedge takes the response the arbiter holds and accepts the request the
\* dispatcher has captured, and nothing else.
LEMMA PosedgeInv == Undisturbed /\ ~ BackToBack /\ Posedge => Serving'
<1> SUFFICES ASSUME Undisturbed, ~ BackToBack, Posedge PROVE Serving'
  OBVIOUS
<1>1. /\ phase = "posedge" /\ phase' = "gate" /\ rsp_ready' \in BOOLEAN /\ req_ready' = req_ready
      /\ rsp_valid' = rsp_valid /\ rsp_tag' = rsp_tag /\ rsp_data' = rsp_data
      /\ lane_busy' = lane_busy /\ lane_req_valid' = lane_req_valid
      /\ lane_rsp_valid' = lane_rsp_valid /\ lane_arg' = lane_arg
      /\ lane_rsp_data' = lane_rsp_data /\ pc' = pc /\ scheds' = scheds /\ left' = left
      /\ turn' = turn /\ ready' = ready /\ resumed' = resumed
  BY Zenon DEF Posedge, Edge, response, lanes, tick
<1>2. phase # "tick" /\ phase' # "tick" /\ phase' # "posedge"
  BY <1>1
<1>3. turn = 1 /\ ready = {} /\ resumed = {} /\ turn' = 1 /\ ready' = {} /\ resumed' = {}
  BY Zenon, <1>1, <1>2 DEF Undisturbed, Serving, Ticking
<1>4. /\ stage' \in [Tags -> {"idle", "request", "wait"}] /\ asked' \in [Tags -> Args]
      /\ \A t \in Tags :
               /\ stage'[t] = "wait" <=> (stage[t] = "wait" /\ t \notin Taken) \/ t \in Accepted
               /\ stage'[t] # "request" => asked'[t] = asked[t]
               /\ stage'[t] = "request" => Requested = {} \/ ~ req_ready
      /\ \A t, u \in Requested' : t = u
  BY Zenon, EdgeFacts DEF Posedge
<1>5. Decided /\ Looked /\ ~ Acked /\ ~ Decided' /\ ~ Looked'
  BY Zenon, <1>1, <1>2 DEF Decided, Looked, Acked
<1>6. pc[Dispatcher] = "rearm" <=> Requested # {} /\ req_ready
  BY Zenon, <1>5 DEF Undisturbed, Serving, Dispatching, req_valid
<1>7. \A t \in Tags : ~ Fresh(t)'
  BY Zenon, <1>1, <1>4, <1>6 DEF Fresh
<1>8. \A t \in Tags : t \in Accepted <=> Fresh(t)
  BY Zenon, <1>6 DEF Accepted, Requested, Fresh
<1>9. rsp_valid => /\ rsp_tag \in Tags /\ stage[rsp_tag] = "wait" /\ lane_rsp_valid[rsp_tag]
                   /\ pc[Arbiter] = "hold" <=> rsp_ready
  BY Zenon, <1>5 DEF Undisturbed, Serving, TypeOK, Arbitrating
<1>10. \A t \in Tags : t \in Taken <=> rsp_valid /\ t = rsp_tag /\ pc[Arbiter] = "hold"
  BY Zenon, <1>9 DEF Taken
<1>11. Acked' <=> pc[Arbiter] = "hold"
  BY Zenon, <1>1, <1>2, <1>3 DEF Acked
<1>14. Dispatching'
  <2>1. pc[Dispatcher] = "rearm" => Requested' = {}
    BY Zenon, <1>4, <1>6 DEF Requested
  <2> QED
    BY Zenon, <1>1, <1>2, <1>3, <1>4, <1>5, <2>1 DEF Undisturbed, Serving, Dispatching
<1>15. Arbitrating'
  <2>1. /\ pc'[Arbiter] \in {"idle", "offer", "hold"}
        /\ rsp_valid' <=> pc'[Arbiter] # "idle"
        /\ rsp_valid' => lane_rsp_valid'[rsp_tag'] /\ rsp_data' = lane_rsp_data'[rsp_tag']
    BY <1>1 DEF Undisturbed, Serving, Arbitrating
  <2>2. rsp_valid => (stage'[rsp_tag] = "wait" <=> pc[Arbiter] # "hold")
    <3> SUFFICES ASSUME rsp_valid PROVE stage'[rsp_tag] = "wait" <=> pc[Arbiter] # "hold"
      BY Zenon
    <3>1. rsp_tag \in Tags /\ stage[rsp_tag] = "wait" /\ "wait" # "request"
      BY <1>9
    <3>2. ~ Fresh(rsp_tag)
      BY Zenon, <3>1 DEF Fresh
    <3> QED
      BY Zenon, <1>4, <1>8, <1>10, <3>1, <3>2
  <2>3. rsp_valid' => (Acked' <=> stage'[rsp_tag'] # "wait")
    BY <1>1, <1>11, <2>2
  <2> QED
    BY Zenon, <1>3, <1>5, <2>1, <2>3 DEF Arbitrating
<1>16. ASSUME NEW t \in Tags PROVE Owned(t)' /\ Due(t)'
  <2>1. Owned(t) /\ Due(t)
    BY Zenon DEF Undisturbed, Serving
  <2>2. Outstanding(t)' <=> Outstanding(t) /\ t \notin Taken
    <3>1. Outstanding(t)' <=> stage'[t] = "wait"
      BY Zenon, <1>7 DEF Outstanding
    <3>2. t \in Taken => ~ Fresh(t)
      <4>1. "wait" # "request"
        OBVIOUS
      <4> QED
        BY Zenon, <4>1 DEF Taken, Fresh
    <3> QED
      BY Zenon, <1>4, <1>8, <3>1, <3>2 DEF Outstanding
  <2>3. Outstanding(t)' => stage'[t] = "wait" /\ asked'[t] = asked[t]
    <3>1. "wait" # "request"
      OBVIOUS
    <3> QED
      BY Zenon, <1>4, <1>7, <3>1 DEF Outstanding
  <2>4. lane_busy[t] /\ ~ Outstanding(t)' =>
          pc[Lane(t)] = "clear" /\ (lane_rsp_valid[t] => Acked' /\ rsp_tag = t)
    <3>1. CASE Outstanding(t)
      BY Zenon, <1>9, <1>10, <1>11, <2>1, <2>2, <3>1 DEF Owned
    <3>2. CASE ~ Outstanding(t)
      BY Zenon, <1>5, <2>1, <3>2 DEF Owned
    <3> QED
      BY Zenon, <3>1, <3>2
  <2>5. Owned(t)'
    BY <1>1, <2>1, <2>2, <2>3, <2>4 DEF Owned
  <2>6. Due(t)'
    BY Zenon, <1>1, <1>2, <1>3, <2>1 DEF Due
  <2> QED
    BY Zenon, <2>5, <2>6
<1> QED
  BY Zenon, <1>14, <1>15, <1>16 DEF Serving

\* Once all is at rest the invariant holds again.
LEMMA RestServing == ASSUME TypeOK, Ticking, phase = "posedge", AtRest PROVE Serving
<1>1. ready = {} /\ phase # "tick"
  BY DEF Ticking
<1>2. /\ pc[Dispatcher] = "accept" /\ pc[Arbiter] = "idle" /\ ~ rsp_valid
      /\ \A t \in Tags : /\ stage[t] = "idle" /\ pc[Lane(t)] = "wait"
                         /\ ~ lane_busy[t] /\ ~ lane_req_valid[t] /\ ~ lane_rsp_valid[t]
  BY Zenon DEF AtRest
<1>3. Requested = {} /\ ~ req_valid
  BY <1>2 DEF Requested, req_valid
<1>4. Dispatching
  BY <1>1, <1>2, <1>3 DEF Dispatching
<1>5. Arbitrating
  BY <1>1, <1>2 DEF Arbitrating
<1>6. \A t \in Tags : Owned(t) /\ Due(t)
  BY <1>1, <1>2 DEF Owned, Due, Outstanding, Fresh
<1> QED
  BY Zenon, <1>4, <1>5, <1>6 DEF Serving

\* A posedge without a tick that finds and leaves no handshake under way changes
\* nothing but what the wires say the two sides would accept.
LEMMA UntickedInv == Undisturbed /\ ~ BackToBack /\ Unticked => slipped' \/ Serving'
<1> SUFFICES ASSUME Undisturbed, ~ BackToBack, Unticked, ~ slipped' PROVE Serving'
  BY Zenon
<1>1. /\ phase' = phase /\ phase = "tick" /\ Edge
      /\ rsp_valid' = rsp_valid /\ rsp_tag' = rsp_tag /\ rsp_data' = rsp_data
      /\ lane_busy' = lane_busy /\ lane_req_valid' = lane_req_valid
      /\ lane_rsp_valid' = lane_rsp_valid /\ lane_arg' = lane_arg
      /\ lane_rsp_data' = lane_rsp_data /\ pc' = pc /\ scheds' = scheds /\ left' = left
      /\ turn' = turn /\ ready' = ready /\ resumed' = resumed
  BY Zenon DEF Unticked, Edge, response, lanes, tick
<1>2. Requested = {} /\ Requested' = {} /\ ~ req_valid /\ ~ req_valid' /\ ~ (rsp_valid /\ rsp_ready)
      /\ ~ (rsp_valid' /\ rsp_ready')
  BY Zenon DEF Unticked, InHandshake, req_valid
<1>3. /\ stage' \in [Tags -> {"idle", "request", "wait"}]
      /\ \A t \in Tags : /\ stage'[t] = "wait" <=> stage[t] = "wait"
                         /\ stage'[t] # "request" /\ stage[t] # "request"
                         /\ asked'[t] = asked[t]
  <2>1. Taken = {} /\ Accepted = {}
    BY Zenon, <1>2 DEF Taken, Accepted
  <2>2. \A t \in Tags : stage'[t] # "request" /\ stage[t] # "request"
    BY Zenon, <1>2 DEF Requested
  <2> QED
    BY Zenon, <1>1, <2>1, <2>2, EdgeFacts
<1>4. rsp_valid => ~ rsp_ready /\ ~ rsp_ready'
  BY <1>1, <1>2
<1>5. (Decided' <=> Decided) /\ (Looked' <=> Looked) /\ (Acked' <=> Acked)
  BY <1>1 DEF Decided, Looked, Acked
<1>6. Dispatching'
  BY Zenon, <1>1, <1>2, <1>5 DEF Undisturbed, Serving, Dispatching
<1>7. Arbitrating'
  <2>1. rsp_tag \in Tags
    BY Zenon DEF Undisturbed, TypeOK
  <2>2. /\ pc[Arbiter] \in {"idle", "offer", "hold"}
        /\ rsp_valid <=> pc[Arbiter] # "idle"
        /\ rsp_valid => lane_rsp_valid[rsp_tag] /\ rsp_data = lane_rsp_data[rsp_tag]
        /\ rsp_valid => (Acked <=> stage[rsp_tag] # "wait")
        /\ Looked /\ rsp_valid => ~ Acked /\ (pc[Arbiter] = "hold" <=> rsp_ready)
        /\ Arbiter \in ready \ resumed =>
              /\ pc[Arbiter] = "offer" => rsp_ready
              /\ pc[Arbiter] = "idle" => \E t \in Tags : lane_rsp_valid[t]
    BY Zenon DEF Undisturbed, Serving, Arbitrating
  <2>3. Arbiter \in ready \ resumed => pc[Arbiter] # "offer"
    BY <1>4, <2>2
  <2> QED
    BY <1>1, <1>3, <1>4, <1>5, <2>1, <2>2, <2>3 DEF Arbitrating
<1>8. ASSUME NEW t \in Tags PROVE Owned(t)' /\ Due(t)'
  <2>1. Owned(t) /\ Due(t)
    BY Zenon DEF Undisturbed, Serving
  <2>2. /\ Fresh(t)' <=> Fresh(t)
        /\ Outstanding(t)' <=> Outstanding(t)
        /\ Ahead(Lane(t))' <=> Ahead(Lane(t))
    BY Zenon, <1>1, <1>3 DEF Fresh, Outstanding, Ahead
  <2>3. Owned(t)'
    BY <1>1, <1>3, <1>5, <2>1, <2>2 DEF Owned
  <2>4. Due(t)'
    BY <1>1, <1>3, <2>1, <2>2 DEF Due
  <2> QED
    BY Zenon, <2>3, <2>4
<1> QED
  BY Zenon, <1>6, <1>7, <1>8 DEF Serving

-----------------------------------------------------------------------------
\* IInv is inductive.
LEMMA NextInv == ASSUME ~ BackToBack, 0 \notin Bodies, IInv, [Next]_vars PROVE IInv'
<1>0. TypeOK /\ Ticking /\ (slipped \/ Serving)
  BY Zenon DEF IInv
<1>1. CASE UNCHANGED vars
  <2>1. /\ phase' = phase /\ stage' = stage /\ asked' = asked /\ rsp_ready' = rsp_ready
        /\ req_ready' = req_ready /\ rsp_valid' = rsp_valid /\ rsp_tag' = rsp_tag
        /\ rsp_data' = rsp_data /\ lane_busy' = lane_busy /\ lane_req_valid' = lane_req_valid
        /\ lane_rsp_valid' = lane_rsp_valid /\ lane_arg' = lane_arg
        /\ lane_rsp_data' = lane_rsp_data /\ pc' = pc /\ scheds' = scheds /\ left' = left
        /\ turn' = turn /\ ready' = ready /\ resumed' = resumed /\ slipped' = slipped
    BY Zenon, <1>1 DEF vars, initiator, response, lanes, tick
  <2>2. TypeOK' /\ Ticking'
    BY Zenon, <1>0, <2>1 DEF TypeOK, Ticking
  <2>3. ASSUME Serving PROVE Serving'
    <3>1. Dispatching'
      BY <2>1, <2>3 DEF Serving, Dispatching, Decided, Requested, req_valid
    <3>2. Arbitrating'
      BY <2>1, <2>3 DEF Serving, Arbitrating, Acked, Looked
    <3>3. ASSUME NEW t \in Tags PROVE Owned(t)' /\ Due(t)'
      <4>1. Owned(t) /\ Due(t)
        BY Zenon, <2>3 DEF Serving
      <4> QED
        BY <2>1, <4>1 DEF Owned, Due, Fresh, Outstanding, Acked, Ahead
    <3> QED
      BY Zenon, <3>1, <3>2, <3>3 DEF Serving
  <2>4. slipped' \/ Serving'
    BY Zenon, <1>0, <2>1, <2>3
  <2> QED
    BY Zenon, <2>2, <2>4 DEF IInv
<1>2. CASE Next
  <2>1. TypeOK' /\ Ticking'
    BY Zenon, <1>0, <1>2, TypeNext
  <2>2. CASE Posedge
    <3>1. slipped' = (slipped /\ ~ AtRest) /\ phase = "posedge"
      BY Zenon, <2>2 DEF Posedge
    <3>2. slipped' \/ Serving
      BY Zenon, <1>0, <3>1, RestServing
    <3> QED
      BY Zenon, <1>0, <2>1, <2>2, <3>2, PosedgeInv DEF IInv, Undisturbed
  <2>3. CASE Unticked
    <3>1. slipped => slipped'
      BY Zenon, <2>3 DEF Unticked
    <3> QED
      BY Zenon, <1>0, <2>1, <2>3, <3>1, UntickedInv DEF IInv, Undisturbed
  <2>4. CASE Tick
    <3>1. slipped' = slipped
      BY Zenon, <2>4 DEF Tick, Gate, PassOne, Recheck, Dispatch, Rearm, Serve, Body, FreeLane,
         Select, Offer, Withdraw, Resume
    <3>2. ASSUME Undisturbed PROVE Serving'
      <4>1. CASE \E t \in Tags : Serve(t) \/ Body(t) \/ FreeLane(t)
        BY Zenon, <3>2, <4>1, ServeInv, BodyInv, FreeLaneInv
      <4>2. CASE Dispatch \/ Rearm \/ Select \/ Offer \/ Withdraw
        BY Zenon, <3>2, <4>2, DispatchInv, RearmInv, SelectInv, OfferInv, WithdrawInv
      <4>3. CASE Gate \/ PassOne \/ Recheck
        BY Zenon, <3>2, <4>3, GateInv, PassOneInv, RecheckInv
      <4> QED
        BY Zenon, <2>4, <4>1, <4>2, <4>3 DEF Tick
    <3>3. slipped' \/ Serving'
      BY Zenon, <1>0, <3>1, <3>2 DEF Undisturbed
    <3> QED
      BY Zenon, <2>1, <3>3 DEF IInv
  <2> QED
    BY Zenon, <1>2, <2>2, <2>3, <2>4 DEF Next
<1> QED
  BY Zenon, <1>1, <1>2

\* With an initiator that is not back to back, and bodies that wait, the lanes
\* are owned in every state, from one slip to the next.
LEMMA Invariance == ASSUME ~ BackToBack, 0 \notin Bodies PROVE Spec => []IInv
<1>1. IInv /\ [Next]_vars => IInv'
  BY NextInv
<1> QED
  BY <1>1, InitInv, PTL DEF Spec

\* The gate's promise is kept: whatever the number of lanes, whether the coroutines
\* share a scheduler or each have one, and whatever posedges go by without a tick,
\* clear of the handshakes, a request the DUT has seen accepted is in its lane, with
\* its argument.
THEOREM Captured == ASSUME ~ BackToBack, 0 \notin Bodies PROVE Spec => []RequestsCaptured
<1>1. IInv => RequestsCaptured
  BY Zenon DEF IInv, Serving, Owned, Outstanding, RequestsCaptured
<1> QED
  BY <1>1, Invariance, PTL

\* A tag gets one response per request, and it answers that request, however the
\* lanes overtake each other, between slips.
THEOREM OwnResponse == ASSUME ~ BackToBack, 0 \notin Bodies PROVE Spec => []OneResponse
<1>1. IInv => OneResponse
  <2> SUFFICES ASSUME IInv, rsp_valid, ~ slipped
               PROVE  /\ stage[rsp_tag] = "wait" => rsp_data = asked[rsp_tag]
                      /\ phase = "posedge" => stage[rsp_tag] = "wait"
    BY Zenon DEF OneResponse
  <2>1. rsp_tag \in Tags /\ Serving
    BY Zenon DEF IInv, TypeOK
  <2>2. lane_rsp_valid[rsp_tag] /\ rsp_data = lane_rsp_data[rsp_tag] /\ Owned(rsp_tag)
    BY Zenon, <2>1 DEF Serving, Arbitrating
  <2>3. pc[Lane(rsp_tag)] # "wait"
    BY <2>2 DEF Owned
  <2>4. stage[rsp_tag] = "wait" => rsp_data = asked[rsp_tag]
    BY Zenon, <2>2, <2>3 DEF Owned, Outstanding
  <2>5. phase = "posedge" => stage[rsp_tag] = "wait"
    BY Zenon, <2>1 DEF Serving, Arbitrating, Acked
  <2> QED
    BY Zenon, <2>4, <2>5
<1> QED
  BY <1>1, Invariance, PTL

\* A response the DUT has not taken is neither withdrawn nor replaced, unless a
\* handshake has slipped by.
THEOREM Held == ASSUME ~ BackToBack, 0 \notin Bodies PROVE Spec => ResponseHeld
<1> DEFINE kept == rsp_valid /\ ~ slipped /\ stage[rsp_tag] = "wait" =>
                     rsp_valid' /\ UNCHANGED <<rsp_tag, rsp_data>>
<1>1. IInv /\ [Next]_vars => [kept]_vars
  <2> SUFFICES ASSUME IInv, Next, rsp_valid, ~ slipped, stage[rsp_tag] = "wait"
               PROVE  rsp_valid' /\ UNCHANGED <<rsp_tag, rsp_data>>
    BY Zenon
  <2>0. Arbitrating
    BY Zenon DEF IInv, Serving
  <2>1. CASE UNCHANGED response
    BY <2>1 DEF response
  <2>2. CASE Select
    <3>1. pc[Arbiter] = "idle"
      BY Zenon, <2>2 DEF Select
    <3> QED
      BY Zenon, <2>0, <3>1 DEF Arbitrating
  <2>3. CASE Withdraw
    <3>1. Resume(Arbiter) /\ pc[Arbiter] = "hold"
      BY Zenon, <2>3 DEF Withdraw
    <3>2. Arbiter \notin resumed /\ phase = "tick"
      BY Zenon, <3>1 DEF Resume
    <3>3. Acked
      BY <3>1, <3>2 DEF Acked
    <3> QED
      BY Zenon, <2>0, <3>3 DEF Arbitrating
  <2> QED
    BY Zenon, <2>1, <2>2, <2>3 DEF Next, Tick, Posedge, Unticked, Edge, Gate, PassOne, Recheck,
       Dispatch, Rearm, Serve, Body, FreeLane, Offer
<1> QED
  BY <1>1, Invariance, PTL DEF Spec, ResponseHeld

-----------------------------------------------------------------------------
\* The blocking responder.

\* The invariant holds once bootstrap() has run the responder to its first
\* co_await.
LEMMA BlockingInit == ASSUME MaxBody \in Nat, Blocking!Init PROVE Blocking!IInv
<1>0. /\ rsp_ready \in BOOLEAN /\ req_ready \in BOOLEAN /\ rsp_valid \in BOOLEAN
      /\ woken \in BOOLEAN /\ resumed \in BOOLEAN /\ slipped \in BOOLEAN
  BY Zenon DEF Blocking!Init
<1>1. Blocking!TypeOK
  BY <1>0 DEF Blocking!Init, Blocking!TypeOK
<1>2. Blocking!Ticking /\ Blocking!Driven
  BY DEF Blocking!Init, Blocking!Ticking, Blocking!Driven
<1>3. Blocking!Awaiting /\ Blocking!Answering
  BY DEF Blocking!Init, Blocking!Awaiting, Blocking!Answering
<1> QED
  BY <1>1, <1>2, <1>3 DEF Blocking!IInv

\* What a posedge changes: the DUT's registers, according to the wires.
LEMMA BlockingEdge ==
    ASSUME Blocking!TypeOK, ~ BackToBack, Blocking!Posedge
    PROVE  /\ pc' = pc /\ left' = left /\ local' = local /\ req_ready' = req_ready
           /\ rsp_valid' = rsp_valid /\ rsp_data' = rsp_data
           /\ woken' = woken /\ resumed' = resumed
           /\ rsp_ready' \in BOOLEAN /\ arg' \in Args /\ asked' \in Args
           /\ dut' \in {"idle", "request", "wait"}
           /\ dut' = "wait" <=> \/ dut = "request" /\ req_ready
                                \/ dut = "wait" /\ ~ (rsp_valid /\ rsp_ready)
           /\ dut' = "request" /\ dut # "idle" =>
                 dut = "request" /\ ~ req_ready /\ arg' = arg /\ asked' = asked
           /\ dut' = "request" /\ dut = "idle" => asked' = arg'
           /\ dut' # "request" => asked' = asked
<1>1. /\ pc' = pc /\ left' = left /\ local' = local /\ req_ready' = req_ready
      /\ rsp_valid' = rsp_valid /\ rsp_data' = rsp_data
      /\ woken' = woken /\ resumed' = resumed /\ rsp_ready' \in BOOLEAN
  BY Zenon DEF Blocking!Posedge, Blocking!responder, Blocking!wires
<1>2. /\ dut \in {"idle", "request", "wait"} /\ arg \in Args /\ asked \in Args
  BY DEF Blocking!TypeOK
<1>3. \/ Blocking!Idle \/ Blocking!Handshake \/ Blocking!Response \/ Blocking!NoResponse
  BY Zenon DEF Blocking!Posedge
<1> QED
  BY <1>1, <1>2, <1>3 DEF Blocking!Idle, Blocking!Handshake, Blocking!Response,
     Blocking!NoResponse, Blocking!Takes, Blocking!Request, Blocking!NoRequest, Blocking!req_valid

\* The drive loop's posedge.
LEMMA ScheduledInv ==
    ASSUME ~ BackToBack, Blocking!IInv, Blocking!Scheduled PROVE Blocking!IInv'
<1>0. Blocking!TypeOK /\ Blocking!Ticking /\ Blocking!Driven
  BY Zenon DEF Blocking!IInv
<1>1. phase = "posedge" /\ phase' = "pass1" /\ Blocking!Posedge
  BY Zenon DEF Blocking!Scheduled
<1>2. slipped' \in BOOLEAN /\ (slipped' \/ ~ slipped \/ Blocking!AtRest)
  BY Zenon, <1>0 DEF Blocking!Scheduled, Blocking!TypeOK
<1>3. ~ woken /\ ~ resumed
  BY <1>0, <1>1 DEF Blocking!Ticking
<1>4. /\ woken' \in BOOLEAN /\ resumed' \in BOOLEAN /\ rsp_ready' \in BOOLEAN
      /\ req_ready' \in BOOLEAN /\ rsp_valid' \in BOOLEAN
  BY Zenon, <1>0, <1>1, BlockingEdge DEF Blocking!TypeOK
<1>5. Blocking!TypeOK'
  BY <1>0, <1>1, <1>2, <1>4, BlockingEdge DEF Blocking!TypeOK
<1>6. Blocking!Ticking' /\ Blocking!Driven'
  BY <1>0, <1>1, <1>3, BlockingEdge DEF Blocking!Ticking, Blocking!Driven, Blocking!Since
<1>7. slipped' \/ (Blocking!Awaiting /\ Blocking!Answering) \/ Blocking!AtRest
  BY Zenon, <1>2 DEF Blocking!IInv
<1>8. ASSUME Blocking!Awaiting, Blocking!Answering
      PROVE  Blocking!Awaiting' /\ Blocking!Answering'
  BY <1>0, <1>1, <1>3, <1>8, BlockingEdge DEF Blocking!Awaiting, Blocking!Answering,
     Blocking!Driven, Blocking!Since, Blocking!TypeOK
<1>9. ASSUME Blocking!AtRest PROVE Blocking!Awaiting' /\ Blocking!Answering'
  BY <1>0, <1>1, <1>3, <1>9, BlockingEdge DEF Blocking!AtRest, Blocking!Awaiting,
     Blocking!Answering, Blocking!Since
<1> QED
  BY Zenon, <1>5, <1>6, <1>7, <1>8, <1>9 DEF Blocking!IInv

\* A posedge without a tick: it slips, or it finds and leaves no handshake under way.
LEMMA BlockingUnticked ==
    ASSUME ~ BackToBack, Blocking!IInv, Blocking!Unticked PROVE Blocking!IInv'
<1>0. Blocking!TypeOK /\ Blocking!Ticking /\ Blocking!Driven
  BY Zenon DEF Blocking!IInv
<1>1. phase # "posedge" /\ phase' = phase /\ Blocking!Posedge
  BY Zenon DEF Blocking!Unticked
<1>2. slipped' \in BOOLEAN /\ (slipped' \/ ~ (slipped \/ Blocking!InHandshake \/ Blocking!InHandshake'))
  BY Zenon, <1>0 DEF Blocking!Unticked, Blocking!TypeOK
<1>3. /\ woken' \in BOOLEAN /\ resumed' \in BOOLEAN /\ rsp_ready' \in BOOLEAN
      /\ req_ready' \in BOOLEAN /\ rsp_valid' \in BOOLEAN
  BY Zenon, <1>0, <1>1, BlockingEdge DEF Blocking!TypeOK
<1>4. Blocking!TypeOK'
  BY <1>0, <1>1, <1>2, <1>3, BlockingEdge DEF Blocking!TypeOK
<1>5. Blocking!Ticking' /\ Blocking!Driven'
  BY <1>0, <1>1, BlockingEdge DEF Blocking!Ticking, Blocking!Driven, Blocking!Since
<1>6. ASSUME ~ slipped' PROVE Blocking!Awaiting' /\ Blocking!Answering'
  <2>1. /\ Blocking!Awaiting /\ Blocking!Answering /\ dut # "request" /\ dut' # "request"
        /\ ~ (rsp_valid /\ rsp_ready) /\ ~ (rsp_valid' /\ rsp_ready')
    BY Zenon, <1>2, <1>6 DEF Blocking!IInv, Blocking!InHandshake, Blocking!req_valid
  <2> QED
    BY <1>0, <1>1, <2>1, BlockingEdge DEF Blocking!Awaiting, Blocking!Answering,
       Blocking!Driven, Blocking!Since, Blocking!TypeOK
<1> QED
  BY Zenon, <1>4, <1>5, <1>6 DEF Blocking!IInv

\* The passes of the scheduler.
LEMMA BlockingPasses ==
    ASSUME Blocking!IInv, Blocking!PassOne \/ Blocking!Recheck \/ Blocking!TickEnds
    PROVE  Blocking!IInv'
<1>0. Blocking!TypeOK /\ Blocking!Ticking /\ Blocking!Driven
  BY Zenon DEF Blocking!IInv
<1>1. /\ dut' = dut /\ arg' = arg /\ asked' = asked /\ rsp_ready' = rsp_ready
      /\ pc' = pc /\ left' = left /\ local' = local /\ req_ready' = req_ready
      /\ rsp_valid' = rsp_valid /\ rsp_data' = rsp_data /\ slipped' = slipped
  BY Zenon DEF Blocking!PassOne, Blocking!Recheck, Blocking!TickEnds, Blocking!initiator,
     Blocking!responder, Blocking!wires
<1>2. /\ rsp_ready \in BOOLEAN /\ req_ready \in BOOLEAN /\ rsp_valid \in BOOLEAN
      /\ woken \in BOOLEAN /\ resumed \in BOOLEAN /\ slipped \in BOOLEAN
  BY Zenon, <1>0 DEF Blocking!TypeOK
<1>3. CASE Blocking!PassOne
  <2>1. /\ phase = "pass1" /\ phase' = "pass2" /\ woken' \in BOOLEAN /\ resumed' = resumed
        /\ woken' <=> pc \in {"taken", "body", "answer"} \/ Blocking!Holds
    BY Zenon, <1>3 DEF Blocking!PassOne, Blocking!Holds
  <2>2. Blocking!TypeOK'
    BY <1>0, <1>1, <1>2, <2>1 DEF Blocking!TypeOK
  <2>3. Blocking!Ticking' /\ Blocking!Driven'
    BY <1>0, <1>1, <2>1 DEF Blocking!Ticking, Blocking!Driven, Blocking!Since, Blocking!Holds
  <2>4. ASSUME Blocking!Awaiting, Blocking!Answering
        PROVE  Blocking!Awaiting' /\ Blocking!Answering'
    BY <1>0, <1>1, <2>1, <2>4 DEF Blocking!Awaiting, Blocking!Answering, Blocking!Since,
       Blocking!Holds, Blocking!Accepts, Blocking!req_valid, Blocking!Ticking
  <2> QED
    BY Zenon, <1>1, <2>2, <2>3, <2>4 DEF Blocking!IInv
<1>4. CASE Blocking!Recheck
  <2>1. /\ phase = "pass2" /\ phase' = "pass2" /\ ~ woken /\ ~ resumed /\ Blocking!Holds
        /\ woken' /\ woken' \in BOOLEAN /\ resumed' = resumed
    BY Zenon, <1>4 DEF Blocking!Recheck
  <2>2. Blocking!TypeOK'
    BY <1>0, <1>1, <1>2, <2>1 DEF Blocking!TypeOK
  <2>3. Blocking!Ticking' /\ Blocking!Driven'
    BY <1>0, <1>1, <2>1 DEF Blocking!Ticking, Blocking!Driven, Blocking!Since, Blocking!Holds
  <2>4. ASSUME Blocking!Awaiting, Blocking!Answering
        PROVE  Blocking!Awaiting' /\ Blocking!Answering'
    BY <1>0, <1>1, <2>1, <2>4 DEF Blocking!Awaiting, Blocking!Answering, Blocking!Since,
       Blocking!Holds, Blocking!Accepts, Blocking!req_valid
  <2> QED
    BY Zenon, <1>1, <2>2, <2>3, <2>4 DEF Blocking!IInv
<1>5. CASE Blocking!TickEnds
  <2>1. /\ phase = "pass2" /\ phase' = "posedge" /\ ~ woken /\ (resumed \/ ~ Blocking!Holds)
        /\ pc # "run" /\ ~ resumed' /\ resumed' \in BOOLEAN /\ woken' = woken
    BY Zenon, <1>5 DEF Blocking!TickEnds
  <2>2. Blocking!TypeOK'
    BY <1>0, <1>1, <1>2, <2>1 DEF Blocking!TypeOK
  <2>3. Blocking!Ticking' /\ Blocking!Driven'
    BY <1>0, <1>1, <2>1 DEF Blocking!Ticking, Blocking!Driven, Blocking!Since, Blocking!Holds
  <2>4. ASSUME Blocking!Awaiting, Blocking!Answering
        PROVE  Blocking!Awaiting' /\ Blocking!Answering'
    BY <1>0, <1>1, <2>1, <2>4 DEF Blocking!Awaiting, Blocking!Answering, Blocking!Since,
       Blocking!Holds, Blocking!Accepts, Blocking!req_valid, Blocking!Ticking, Blocking!Driven
  <2> QED
    BY Zenon, <1>1, <2>2, <2>3, <2>4 DEF Blocking!IInv
<1> QED
  BY Zenon, <1>3, <1>4, <1>5

\* What the responder does when it is resumed from a co_await.
LEMMA BlockingResumed ==
    ASSUME MaxBody \in Nat, Blocking!IInv,
           \/ Blocking!Accept \/ Blocking!Serve \/ Blocking!Body \/ Blocking!Offer \/ Blocking!Answer
    PROVE  Blocking!IInv'
<1>0. Blocking!TypeOK /\ Blocking!Ticking /\ Blocking!Driven
  BY Zenon DEF Blocking!IInv
<1>1. /\ phase = "pass2" /\ phase' = "pass2" /\ woken /\ ~ woken' /\ resumed'
      /\ dut' = dut /\ arg' = arg /\ asked' = asked /\ rsp_ready' = rsp_ready
      /\ slipped' = slipped /\ woken' \in BOOLEAN /\ resumed' \in BOOLEAN
  BY Zenon DEF Blocking!Accept, Blocking!Serve, Blocking!Body, Blocking!Offer, Blocking!Answer,
     Blocking!Resume, Blocking!initiator
<1>2. /\ rsp_ready \in BOOLEAN /\ req_ready' \in BOOLEAN /\ rsp_valid' \in BOOLEAN
      /\ slipped \in BOOLEAN
  BY Zenon, <1>0 DEF Blocking!TypeOK, Blocking!Accept, Blocking!Serve, Blocking!Body,
     Blocking!Offer, Blocking!Answer, Blocking!wires
<1>3. ~ resumed
  BY <1>0, <1>1 DEF Blocking!Ticking
<1>4. Blocking!TypeOK'
  BY <1>0, <1>1, <1>2 DEF Blocking!TypeOK, Blocking!Accept, Blocking!Serve, Blocking!Body,
     Blocking!Offer, Blocking!Answer, Blocking!wires
<1> DEFINE Facts == /\ Blocking!Ticking' /\ Blocking!Driven'
                    /\ Blocking!Awaiting /\ Blocking!Answering =>
                          Blocking!Awaiting' /\ Blocking!Answering'
<1> USE DEF Blocking!wires, Blocking!Ticking, Blocking!Driven, Blocking!Since, Blocking!Awaiting,
       Blocking!Answering
<1>5. ASSUME Blocking!Accept PROVE Facts
  BY <1>0, <1>1, <1>3, <1>5 DEF Blocking!Accept
<1>6. ASSUME Blocking!Serve PROVE Facts
  BY <1>0, <1>1, <1>3, <1>6 DEF Blocking!Serve
<1>7. ASSUME Blocking!Body PROVE Facts
  BY <1>0, <1>1, <1>3, <1>7 DEF Blocking!Body
<1>8. ASSUME Blocking!Offer PROVE Facts
  BY <1>0, <1>1, <1>3, <1>8 DEF Blocking!Offer
<1>9. ASSUME Blocking!Answer PROVE Facts
  BY <1>0, <1>1, <1>3, <1>9 DEF Blocking!Answer
<1> HIDE DEF Blocking!Ticking, Blocking!Driven, Blocking!Awaiting, Blocking!Answering
<1> QED
  BY Zenon, <1>1, <1>4, <1>5, <1>6, <1>7, <1>8, <1>9 DEF Blocking!IInv

\* What it does as its body runs.
LEMMA BlockingRunning ==
    ASSUME MaxBody \in Nat, Blocking!IInv, Blocking!Suspend \/ Blocking!Respond
    PROVE  Blocking!IInv'
<1>0. Blocking!TypeOK /\ Blocking!Ticking /\ Blocking!Driven
  BY Zenon DEF Blocking!IInv
<1>1. /\ phase' = phase /\ woken' = woken /\ resumed' = resumed /\ pc = "run"
      /\ dut' = dut /\ arg' = arg /\ asked' = asked /\ rsp_ready' = rsp_ready
      /\ slipped' = slipped
  BY Zenon DEF Blocking!Suspend, Blocking!Respond, Blocking!scheduler, Blocking!initiator
<1>2. /\ rsp_ready \in BOOLEAN /\ req_ready' \in BOOLEAN /\ rsp_valid' \in BOOLEAN
      /\ slipped \in BOOLEAN /\ woken \in BOOLEAN /\ resumed \in BOOLEAN
  BY Zenon, <1>0 DEF Blocking!TypeOK, Blocking!Suspend, Blocking!Respond, Blocking!wires
<1>3. Blocking!TypeOK'
  BY <1>0, <1>1, <1>2 DEF Blocking!TypeOK, Blocking!Suspend, Blocking!Respond, Blocking!wires
<1>4. Blocking!Ticking' /\ Blocking!Driven'
  BY <1>0, <1>1 DEF Blocking!Suspend, Blocking!Respond, Blocking!wires, Blocking!Ticking,
     Blocking!Driven, Blocking!Since
<1>5. ASSUME Blocking!Awaiting, Blocking!Answering
      PROVE  Blocking!Awaiting' /\ Blocking!Answering'
  BY <1>0, <1>1, <1>5 DEF Blocking!Suspend, Blocking!Respond, Blocking!wires, Blocking!Ticking,
     Blocking!Since, Blocking!Awaiting, Blocking!Answering
<1> QED
  BY Zenon, <1>1, <1>3, <1>4, <1>5 DEF Blocking!IInv

\* The invariant is inductive.
LEMMA BlockingNext ==
    ASSUME MaxBody \in Nat, ~ BackToBack, Blocking!IInv, [Blocking!Next]_(Blocking!vars)
    PROVE  Blocking!IInv'
<1>1. CASE Blocking!Next
  BY Zenon, <1>1, ScheduledInv, BlockingUnticked, BlockingPasses, BlockingResumed, BlockingRunning
     DEF Blocking!Next, Blocking!Tick, Blocking!Responder
<1>2. CASE UNCHANGED Blocking!vars
  BY Zenon, <1>2 DEF Blocking!vars, Blocking!scheduler, Blocking!initiator, Blocking!responder,
     Blocking!wires, Blocking!IInv, Blocking!TypeOK, Blocking!Ticking, Blocking!Driven,
     Blocking!Since, Blocking!Awaiting, Blocking!Answering
<1> QED
  BY Zenon, <1>1, <1>2

-----------------------------------------------------------------------------
\* The wires and the two sides agree at every co_await of the responder, from one
\* slip to the next, if the initiator does not raise a request at the posedge at
\* which it takes a response; what the responder drives agrees with where it is in
\* every state, slips included.
THEOREM BlockingInvariance ==
    ASSUME MaxBody \in Nat, ~ BackToBack PROVE Blocking!Spec => []Blocking!IInv
<1>1. Blocking!IInv /\ [Blocking!Next]_(Blocking!vars) => Blocking!IInv'
  BY BlockingNext
<1> QED
  BY <1>1, BlockingInit, PTL DEF Blocking!Spec

\* No handshake goes by while the responder does not look, and what it captured
\* is what was asked, whatever posedges go by without a tick, clear of the handshakes.
THEOREM BlockingCaptured ==
    ASSUME MaxBody \in Nat, ~ BackToBack PROVE Blocking!Spec => []Blocking!RequestsCaptured
<1>1. Blocking!IInv => Blocking!RequestsCaptured
  BY DEF Blocking!IInv, Blocking!Awaiting, Blocking!Answering, Blocking!RequestsCaptured
<1> QED
  BY <1>1, BlockingInvariance, PTL

\* A response the DUT samples is the one answer to its outstanding request, between
\* slips.
THEOREM BlockingMatched ==
    ASSUME MaxBody \in Nat, ~ BackToBack PROVE Blocking!Spec => []Blocking!OneResponse
<1>1. Blocking!IInv => Blocking!OneResponse
  BY DEF Blocking!IInv, Blocking!TypeOK, Blocking!Driven, Blocking!Since, Blocking!Awaiting,
     Blocking!Answering, Blocking!OneResponse
<1> QED
  BY <1>1, BlockingInvariance, PTL

\* rsp_valid and rsp_data keep their values until the DUT has taken the response,
\* even when handshakes slip by.
THEOREM BlockingHeld ==
    ASSUME MaxBody \in Nat, ~ BackToBack PROVE Blocking!Spec => Blocking!ResponseHeld
<1>1. Blocking!IInv /\ [Blocking!Next]_(Blocking!vars) =>
        [rsp_valid /\ dut = "wait" => rsp_valid' /\ rsp_data' = rsp_data]_(Blocking!vars)
  <2> SUFFICES ASSUME Blocking!IInv, Blocking!Next, rsp_valid, dut = "wait"
               PROVE  rsp_valid' /\ rsp_data' = rsp_data
    OBVIOUS
  <2>0. Blocking!Ticking /\ Blocking!Driven
    BY Zenon DEF Blocking!IInv
  <2>1. CASE UNCHANGED Blocking!wires
    BY Zenon, <2>1 DEF Blocking!wires
  <2>2. CASE Blocking!Serve \/ Blocking!Respond
    <3>1. pc = "taken" \/ pc = "run"
      BY Zenon, <2>2 DEF Blocking!Serve, Blocking!Respond
    <3> QED
      BY <2>0, <3>1 DEF Blocking!Driven
  <2>3. CASE Blocking!Answer
    <3>1. phase = "pass2" /\ woken /\ pc = "answer"
      BY Zenon, <2>3 DEF Blocking!Answer, Blocking!Resume
    <3> QED
      BY <2>0, <3>1 DEF Blocking!Driven, Blocking!Ticking, Blocking!Since
  <2> QED
    BY Zenon, <2>1, <2>2, <2>3 DEF Blocking!Next, Blocking!Tick, Blocking!Responder,
       Blocking!Scheduled, Blocking!Unticked, Blocking!Posedge, Blocking!PassOne, Blocking!Recheck,
       Blocking!TickEnds, Blocking!Accept, Blocking!Suspend, Blocking!Body, Blocking!Offer,
       Blocking!responder
<1> QED
  BY <1>1, BlockingInvariance, PTL DEF Blocking!Spec, Blocking!ResponseHeld
=============================================================================
