-------------------------- MODULE TlmTaggedTarget --------------------------
(***************************************************************************)
(* The responder of an `out_of_order tags N` TLM method: a combinational   *)
(* gate that drives req_ready, a dispatcher coroutine, one lane coroutine  *)
(* per tag and an arbiter coroutine, with the initiator in the DUT.        *)
(*                                                                         *)
(* A turn of the drive loop is a posedge, the gate (a post_eval service)   *)
(* and a tick of the schedulers the coroutines are registered with: one    *)
(* for all of them, or, under --mt, one for each, ticked in order.  The    *)
(* order in which a tick resumes coroutines is that of ThreadScheduler.    *)
(*                                                                         *)
(* In the middle of a tick posedges, with their gate, also go by that no   *)
(* tick follows: inside a helper's tick() or a wall-clock wait (see        *)
(* TlmTarget).  A lane reads and drives no wire, so those inside its body  *)
(* are the same as posedges just before it is resumed.                     *)
(***************************************************************************)
EXTENDS Integers, Sequences

CONSTANTS
    NTags,        \* lanes
    Args, Zero,   \* request arguments; what the registers start with
    Asks,         \* the requests the initiator makes: <<tag, argument>> pairs
    Bodies,       \* how many cycles the responder body may wait
    BackToBack,   \* TRUE: the initiator may present another tag's request at
                  \* the posedge at which one is accepted
    KeepSlipping  \* bound: FALSE lets no posedge without a tick go by between a
                  \* slip (see Unticked) and the end of what it disturbed

ASSUME ConstantsAssumption ==
    /\ NTags \in Nat \ {0} /\ Zero \in Args /\ Bodies \subseteq Nat
    /\ BackToBack \in BOOLEAN /\ KeepSlipping \in BOOLEAN

Tags == 0 .. NTags - 1

\* The coroutines in the order of registration.
Dispatcher == 0
Lane(t) == t + 1
Arbiter == NTags + 1
Coroutines == 0 .. NTags + 1

VARIABLES
    phase,                  \* posedge, gate, or tick
    stage, asked,           \* the initiator, per tag, and what it asks
    rsp_ready,              \* a register of the DUT
    req_ready, rsp_valid, rsp_tag, rsp_data,
    lane_busy, lane_req_valid, lane_rsp_valid, lane_arg, lane_rsp_data,
    pc, left,               \* where each coroutine is suspended; its cycles
    scheds,                 \* the schedulers, as sets of coroutines
    turn, ready, resumed,   \* the tick: which scheduler, its Ready slots
    slipped                 \* history: see Unticked

initiator == <<stage, asked, rsp_ready>>
response == <<rsp_valid, rsp_tag, rsp_data>>
lanes == <<lane_busy, lane_req_valid, lane_rsp_valid, lane_arg, lane_rsp_data>>
tick == <<turn, ready, resumed>>
vars == <<phase, initiator, req_ready, response, lanes, pc, left, scheds, tick, slipped>>

TypeOK ==
    /\ phase \in {"posedge", "gate", "tick"}
    /\ stage \in [Tags -> {"idle", "request", "wait"}] /\ asked \in [Tags -> Args]
    /\ rsp_ready \in BOOLEAN /\ req_ready \in BOOLEAN
    /\ rsp_valid \in BOOLEAN /\ rsp_tag \in Tags /\ rsp_data \in Args
    /\ lane_busy \in [Tags -> BOOLEAN] /\ lane_req_valid \in [Tags -> BOOLEAN]
    /\ lane_rsp_valid \in [Tags -> BOOLEAN] /\ lane_arg \in [Tags -> Args]
    /\ lane_rsp_data \in [Tags -> Args]
    /\ pc \in [Coroutines -> {"accept", "rearm", "wait", "body", "clear", "idle", "offer", "hold"}]
    /\ left \in [Tags -> Nat]
    /\ turn \in 1 .. Len(scheds) /\ ready \subseteq Coroutines /\ resumed \subseteq ready
    /\ slipped \in BOOLEAN

Requested == {t \in Tags : stage[t] = "request"}
req_valid == Requested # {}
req_tag == CHOOSE t \in Tags : stage[t] = "request"

\* bootstrap() has run every one of these coroutines to its first co_await and
\* may be running another.
Init ==
    /\ phase = "tick"
    /\ stage = [t \in Tags |-> "idle"]
    /\ asked = [t \in Tags |-> Zero] /\ rsp_data = Zero
    /\ lane_arg = [t \in Tags |-> Zero] /\ lane_rsp_data = lane_arg
    /\ rsp_ready = FALSE /\ req_ready = FALSE /\ rsp_valid = FALSE /\ rsp_tag = 0
    /\ lane_busy = [t \in Tags |-> FALSE]
    /\ lane_req_valid = [t \in Tags |-> FALSE]
    /\ lane_rsp_valid = [t \in Tags |-> FALSE]
    /\ pc = [c \in Coroutines |-> IF c = Dispatcher THEN "accept"
                                  ELSE IF c = Arbiter THEN "idle" ELSE "wait"]
    /\ left = [t \in Tags |-> 0]
    /\ scheds \in {<<Coroutines>>, [i \in 1 .. NTags + 2 |-> {i - 1}]}
    /\ turn = Len(scheds) /\ ready = scheds[turn] /\ resumed = ready
    /\ slipped = FALSE

-----------------------------------------------------------------------------
\* The DUT at a posedge.  It presents one request at a time, holds it until it
\* is accepted, and does not reuse a tag that is outstanding; its tags are those
\* of the method's lanes (the gate refuses any other).

Taken == {t \in Tags : rsp_valid /\ rsp_ready /\ t = rsp_tag /\ stage[t] = "wait"}
Accepted == {t \in Requested : req_ready}

Edge ==
    LET after == [t \in Tags |-> CASE t \in Taken -> "idle"
                                   [] t \in Accepted -> "wait"
                                   [] OTHER -> stage[t]]
        quiet == Requested = {} \/ (BackToBack /\ Accepted # {})
    IN  /\ \/ stage' = after /\ UNCHANGED asked
           \/ /\ quiet
              /\ \E t \in Tags, a \in Args :
                    /\ <<t, a>> \in Asks /\ after[t] = "idle"
                    /\ stage' = [after EXCEPT ![t] = "request"]
                    /\ asked' = [asked EXCEPT ![t] = a]
        /\ rsp_ready' \in BOOLEAN
        /\ UNCHANGED <<response, lanes, pc, left, scheds, tick>>

\* The drive loop's posedge.  With all at rest whatever went wrong before is over.
AtRest ==
    /\ \A t \in Tags : /\ stage[t] = "idle" /\ pc[Lane(t)] = "wait"
                       /\ ~ (lane_busy[t] \/ lane_req_valid[t] \/ lane_rsp_valid[t])
    /\ pc[Dispatcher] = "accept" /\ pc[Arbiter] = "idle" /\ ~ rsp_valid

Posedge ==
    /\ phase = "posedge" /\ phase' = "gate"
    /\ Edge
    /\ slipped' = (slipped /\ ~ AtRest)
    /\ UNCHANGED req_ready

\* The accept gate, after the posedge has been evaluated.
Free(t) == ~ lane_busy[t] /\ ~ lane_req_valid[t]
\* Mutant: any free lane will do.
TlmReadyAny == \E t \in Tags : Free(t)
TlmReady == IF req_valid THEN Free(req_tag) ELSE \E t \in Tags : Free(t)

Gate ==
    /\ phase = "gate" /\ phase' = "tick"
    /\ req_ready' = TlmReady
    /\ UNCHANGED <<initiator, response, lanes, pc, left, scheds, tick, slipped>>

\* A posedge inside a helper's tick() or a wall-clock wait, and the gate after it.
\* slipped records that one began or ended with a request raised, or with both
\* sides of a response: no tick let the coroutines take part in the handshake.
InHandshake == req_valid \/ (rsp_valid /\ rsp_ready)

Unticked ==
    /\ phase = "tick" /\ (slipped => KeepSlipping)
    /\ Edge
    /\ req_ready' = TlmReady'
    /\ slipped' = (slipped \/ InHandshake \/ InHandshake')
    /\ UNCHANGED phase

-----------------------------------------------------------------------------
\* What each coroutine waits for: wait_until predicates, and wait_cycles(1).

Holds(c) ==
    \/ c = Dispatcher /\ pc[c] = "accept" /\ req_valid /\ req_ready
    \/ c = Arbiter /\ pc[c] = "idle" /\ \E t \in Tags : lane_rsp_valid[t]
    \/ c = Arbiter /\ pc[c] = "offer" /\ rsp_ready
    \/ \E t \in Tags : c = Lane(t) /\ pc[c] = "wait" /\ lane_req_valid[t]
    \/ \E t \in Tags : c = Lane(t) /\ pc[c] = "clear" /\ ~ lane_rsp_valid[t]

Elapses(c) ==
    \/ pc[c] \in {"rearm", "hold"}
    \/ \E t \in Tags : c = Lane(t) /\ pc[c] = "body" /\ left[t] <= 1

EndTurn ==
    /\ ready' = {} /\ resumed' = {}
    /\ IF turn = Len(scheds) THEN turn' = 1 /\ phase' = "posedge"
       ELSE turn' = turn + 1 /\ UNCHANGED phase

\* Pass 1 of a scheduler's tick.
PassOne ==
    /\ phase = "tick" /\ ready = {}
    /\ left' = [t \in Tags |-> IF Lane(t) \in scheds[turn] /\ pc[Lane(t)] = "body" /\ left[t] > 0
                               THEN left[t] - 1 ELSE left[t]]
    /\ LET due == {c \in scheds[turn] : Holds(c) \/ Elapses(c)}
       IN  IF due = {} THEN EndTurn
           ELSE ready' = due /\ UNCHANGED <<phase, turn, resumed>>
    /\ UNCHANGED <<initiator, req_ready, response, lanes, pc, scheds, slipped>>

\* The re-check of pass 2, until it finds nothing new.
Recheck ==
    /\ phase = "tick" /\ ready # {} /\ resumed = ready
    /\ LET woken == {c \in scheds[turn] \ resumed : Holds(c)}
       IN  IF woken = {} THEN EndTurn
           ELSE ready' = ready \cup woken /\ UNCHANGED <<phase, turn, resumed>>
    /\ UNCHANGED <<initiator, req_ready, response, lanes, pc, left, scheds, slipped>>

Resume(c) ==
    /\ phase = "tick" /\ c \in ready \ resumed /\ \A d \in ready \ resumed : c <= d
    /\ resumed' = resumed \cup {c}
    /\ UNCHANGED <<phase, initiator, req_ready, scheds, turn, ready, slipped>>

Goto(c, s) == pc' = [pc EXCEPT ![c] = s]

-----------------------------------------------------------------------------
\* The dispatcher captures the request into the lane of its tag, waits for the
\* posedge at which the DUT sees the handshake, and starts over.  It reads the
\* wires when it is resumed: they mean nothing once the request has slipped by.

Wires(t, a) == IF req_valid THEN t = req_tag /\ a = asked[t] ELSE <<t, a>> \in Asks

Dispatch ==
    /\ Resume(Dispatcher) /\ pc[Dispatcher] = "accept"
    /\ \E t \in Tags, a \in Args :
          /\ Wires(t, a)
          /\ lane_arg' = [lane_arg EXCEPT ![t] = a]
          /\ lane_busy' = [lane_busy EXCEPT ![t] = TRUE]
          /\ lane_req_valid' = [lane_req_valid EXCEPT ![t] = TRUE]
    /\ Goto(Dispatcher, "rearm")
    /\ UNCHANGED <<response, lane_rsp_valid, lane_rsp_data, left>>

Rearm ==
    /\ Resume(Dispatcher) /\ pc[Dispatcher] = "rearm"
    /\ Goto(Dispatcher, "accept")
    /\ UNCHANGED <<response, lanes, left>>

\* A lane binds the arguments captured for it, runs the body and hands the result
\* to the arbiter; its tag is free again once the arbiter is done with it.

Complete(t) == lane_rsp_valid' = [lane_rsp_valid EXCEPT ![t] = TRUE] /\ Goto(Lane(t), "clear")

Serve(t) ==
    /\ Resume(Lane(t)) /\ pc[Lane(t)] = "wait"
    /\ lane_req_valid' = [lane_req_valid EXCEPT ![t] = FALSE]
    /\ lane_rsp_data' = [lane_rsp_data EXCEPT ![t] = lane_arg[t]]
    /\ \E n \in Bodies :
          /\ left' = [left EXCEPT ![t] = n]
          /\ IF n = 0 THEN Complete(t) ELSE Goto(Lane(t), "body") /\ UNCHANGED lane_rsp_valid
    /\ UNCHANGED <<response, lane_busy, lane_arg>>

Body(t) ==
    /\ Resume(Lane(t)) /\ pc[Lane(t)] = "body"
    /\ Complete(t)
    /\ UNCHANGED <<response, lane_busy, lane_req_valid, lane_arg, lane_rsp_data, left>>

\* Mutant: the lane does not free its tag.
FreeLaneNot(t) ==
    /\ Resume(Lane(t)) /\ pc[Lane(t)] = "clear"
    /\ Goto(Lane(t), "wait")
    /\ UNCHANGED <<response, lanes, left>>
FreeLane(t) ==
    /\ Resume(Lane(t)) /\ pc[Lane(t)] = "clear"
    /\ lane_busy' = [lane_busy EXCEPT ![t] = FALSE]
    /\ Goto(Lane(t), "wait")
    /\ UNCHANGED <<response, lane_req_valid, lane_rsp_valid, lane_arg, lane_rsp_data, left>>

\* The arbiter drives the response of the highest tag that has one, waits for
\* rsp_ready, and for the posedge at which the DUT sees it.

\* Mutant: it does not look at rsp_ready.
AfterSelectBlind == "hold"
AfterSelect == IF rsp_ready THEN "hold" ELSE "offer"

Select ==
    /\ Resume(Arbiter) /\ pc[Arbiter] = "idle"
    /\ \E sel \in Tags :
          /\ lane_rsp_valid[sel] /\ \A t \in Tags : lane_rsp_valid[t] => t <= sel
          /\ rsp_tag' = sel /\ rsp_data' = lane_rsp_data[sel]
    /\ rsp_valid' = TRUE
    /\ Goto(Arbiter, AfterSelect)
    /\ UNCHANGED <<lanes, left>>

Offer ==
    /\ Resume(Arbiter) /\ pc[Arbiter] = "offer"
    /\ Goto(Arbiter, "hold")
    /\ UNCHANGED <<response, lanes, left>>

\* Mutant: the lane's response is not taken off.
WithdrawOnly ==
    /\ Resume(Arbiter) /\ pc[Arbiter] = "hold"
    /\ rsp_valid' = FALSE
    /\ Goto(Arbiter, "idle")
    /\ UNCHANGED <<rsp_tag, rsp_data, lanes, left>>
Withdraw ==
    /\ Resume(Arbiter) /\ pc[Arbiter] = "hold"
    /\ rsp_valid' = FALSE
    /\ lane_rsp_valid' = [lane_rsp_valid EXCEPT ![rsp_tag] = FALSE]
    /\ Goto(Arbiter, "idle")
    /\ UNCHANGED <<rsp_tag, rsp_data, lane_busy, lane_req_valid, lane_arg, lane_rsp_data, left>>

Tick ==
    \/ Gate \/ PassOne \/ Recheck
    \/ Dispatch \/ Rearm
    \/ \E t \in Tags : Serve(t) \/ Body(t) \/ FreeLane(t)
    \/ Select \/ Offer \/ Withdraw
Next == Posedge \/ Unticked \/ Tick

\* Time goes on, a tick comes to its end (a helper waits finitely often), and an
\* initiator that waits for a response does not refuse to be ready for ever.
Spec ==
    /\ Init /\ [][Next]_vars
    /\ WF_vars(Posedge) /\ WF_vars(Tick)
    /\ SF_vars((Posedge \/ Unticked) /\ rsp_ready' /\ \E t \in Tags : stage'[t] = "wait")

-----------------------------------------------------------------------------
\* A request the DUT has seen accepted is in the lane of its tag, with its
\* argument: "the dispatcher accepts a request when the lane named by req_tag is
\* free, captures the method args into that lane" (spec section 8).  The gate's
\* promise to the DUT is one the dispatcher keeps, as long as posedges without a
\* tick stay clear of the handshakes.
RequestsCaptured ==
    ~ slipped =>
        \A t \in Tags : stage[t] = "wait" => lane_busy[t] /\ lane_arg[t] = asked[t]

\* A tag gets one response per request: the data answers what was asked under the
\* response's tag, and when the drive loop's posedge samples it that tag is
\* outstanding, in whatever order the lanes complete.
OneResponse ==
    rsp_valid /\ ~ slipped =>
        /\ stage[rsp_tag] = "wait" => rsp_data = asked[rsp_tag]
        /\ phase = "posedge" => stage[rsp_tag] = "wait"

\* A response not yet taken is neither withdrawn nor replaced by that of a lane
\* with a higher tag that completes meanwhile, unless a handshake has slipped by.
ResponseHeld ==
    [][rsp_valid /\ ~ slipped /\ stage[rsp_tag] = "wait" => rsp_valid' /\ UNCHANGED <<rsp_tag, rsp_data>>]_vars

\* Every request is accepted, and answered unless higher tags, which the arbiter
\* prefers, are requested again and again; or a handshake slips by.
Answered ==
    \A t \in Tags :
        /\ stage[t] = "request" ~> stage[t] = "wait" \/ slipped
        /\ \/ []<>(\E u \in Requested : u > t)
           \/ stage[t] = "wait" ~> stage[t] # "wait" \/ slipped

-----------------------------------------------------------------------------
\* The inductive invariant: as long as no handshake slips by, who owns a lane, and
\* what each coroutine has yet to look at in this cycle.

\* Between cycles no tick is under way; schedulers share no coroutine, the first
\* has the dispatcher and the last the arbiter.
Ticking ==
    /\ resumed \subseteq ready /\ ready \subseteq scheds[turn]
    /\ phase # "tick" => turn = 1 /\ ready = {}
    /\ Len(scheds) \in Nat \ {0}
    /\ \A i \in 1 .. Len(scheds) :
          /\ scheds[i] \subseteq Coroutines
          /\ Dispatcher \in scheds[i] <=> i = 1
          /\ Arbiter \in scheds[i] <=> i = Len(scheds)
          /\ \A j \in 1 .. Len(scheds) : i # j => scheds[i] \cap scheds[j] = {}

\* The request of t has been captured but the DUT has not seen it accepted.
Fresh(t) == stage[t] = "request" /\ pc[Dispatcher] = "rearm"
Outstanding(t) == stage[t] = "wait" \/ Fresh(t)

\* The dispatcher has had its chance at this cycle's request.
Decided ==
    \/ phase = "posedge"
    \/ phase = "tick" /\ (turn > 1 \/ (ready # {} /\ Dispatcher \notin ready \ resumed))

\* It captures what the gate lets through, when the DUT asks, into a free lane.
Dispatching ==
    /\ pc[Dispatcher] \in {"accept", "rearm"}
    /\ \A t, u \in Requested : t = u
    /\ Decided => (pc[Dispatcher] = "rearm" <=> req_valid /\ req_ready)
    /\ ~ Decided => (pc[Dispatcher] = "rearm" => Requested = {})
    /\ ~ Decided /\ phase = "tick" /\ req_ready => \A t \in Requested : ~ lane_busy[t]
    /\ Dispatcher \in ready \ resumed /\ pc[Dispatcher] = "accept" => req_valid /\ req_ready

\* The DUT has taken the response the arbiter still holds.
Acked == pc[Arbiter] = "hold" /\ phase # "posedge" /\ Arbiter \notin resumed

\* The scheduler that has c is still to tick, or may still resume it.
Ahead(c) == c \notin resumed /\ \E i \in turn .. Len(scheds) : c \in scheds[i]

\* A lane is busy from capture until its response has been taken.
Owned(t) ==
    /\ pc[Lane(t)] \in {"wait", "body", "clear"}
    /\ ~ lane_busy[t] => pc[Lane(t)] = "wait" /\ ~ lane_req_valid[t] /\ ~ Outstanding(t)
    /\ Outstanding(t) => lane_arg[t] = asked[t]
    /\ lane_req_valid[t] <=> lane_busy[t] /\ pc[Lane(t)] = "wait"
    /\ lane_rsp_valid[t] => pc[Lane(t)] = "clear"
    /\ pc[Lane(t)] # "wait" => lane_rsp_data[t] = lane_arg[t]
    /\ lane_busy[t] /\ ~ Outstanding(t) =>
          pc[Lane(t)] = "clear" /\ (lane_rsp_valid[t] => Acked /\ rsp_tag = t)
    /\ Outstanding(t) /\ pc[Lane(t)] = "clear" => stage[t] = "wait" /\ lane_rsp_valid[t]

\* A lane that is to be resumed has something to do, and a body ends no earlier
\* than the cycle after the one its request is accepted in.
Due(t) ==
    /\ Lane(t) \in ready \ resumed =>
          /\ pc[Lane(t)] = "wait" => lane_req_valid[t]
          /\ pc[Lane(t)] = "body" => stage[t] = "wait"
          /\ pc[Lane(t)] = "clear" => ~ lane_rsp_valid[t]
    /\ phase = "tick" /\ pc[Lane(t)] = "body" /\ Fresh(t) => ~ Ahead(Lane(t))
    /\ pc[Lane(t)] = "body" /\ Lane(t) \notin ready \ resumed => left[t] > 0

\* The arbiter has had its chance at this cycle's rsp_ready.
Looked ==
    \/ phase = "posedge"
    \/ phase = "tick" /\ ready # {} /\ Arbiter \in scheds[turn] /\ Arbiter \notin ready \ resumed

\* It shows the response of a lane until the posedge that takes it.
Arbitrating ==
    /\ pc[Arbiter] \in {"idle", "offer", "hold"}
    /\ rsp_valid <=> pc[Arbiter] # "idle"
    /\ rsp_valid => lane_rsp_valid[rsp_tag] /\ rsp_data = lane_rsp_data[rsp_tag]
    /\ rsp_valid => (Acked <=> stage[rsp_tag] # "wait")
    /\ Looked /\ rsp_valid => ~ Acked /\ (pc[Arbiter] = "hold" <=> rsp_ready)
    /\ Arbiter \in ready \ resumed =>
          /\ pc[Arbiter] = "offer" => rsp_ready
          /\ pc[Arbiter] = "idle" => \E t \in Tags : lane_rsp_valid[t]

Serving == Dispatching /\ Arbitrating /\ \A t \in Tags : Owned(t) /\ Due(t)

IInv == TypeOK /\ Ticking /\ (slipped \/ Serving)
=============================================================================
