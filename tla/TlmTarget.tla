----------------------------- MODULE TlmTarget -----------------------------
(***************************************************************************)
(* The responder actor of a blocking TLM method, with the initiator in the *)
(* DUT.  A turn of the drive loop is a posedge, at which the DUT's         *)
(* registers sample the wires, and then the scheduler tick: pass 1 finds   *)
(* out whether the responder's wait is over, pass 2 resumes it, and it     *)
(* runs to its next co_await.  The responder sees the wires as they are    *)
(* when it is resumed, the DUT sees what the responder wrote only at the   *)
(* next posedge.                                                           *)
(*                                                                         *)
(* Posedges also go by that no tick follows.  A helper that waits calls    *)
(* tick(), a wall-clock wait calls eval_clocks_until: both evaluate the    *)
(* DUT and never enter the scheduler, in the middle of the tick that       *)
(* resumed their caller.  The caller is another coroutine, or the          *)
(* responder itself inside its body.                                       *)
(*                                                                         *)
(* The responder body is abstracted to its waits, its result to the        *)
(* argument.                                                               *)
(***************************************************************************)
EXTENDS Integers

CONSTANTS
    Args,         \* request arguments
    MaxBody,      \* bound: cycles the responder body is suspended
    BackToBack    \* TRUE: the initiator may raise a request at the very
                  \* posedge at which it takes the previous response

ASSUME ConstantsAssumption == MaxBody \in Nat /\ BackToBack \in BOOLEAN

VARIABLES
    phase,        \* what comes next: the drive loop's posedge, pass 1 or pass 2
    woken,        \* the responder's slot is Ready
    resumed,      \* resumed[] of the tick under way
    dut,          \* the initiator: idle, requesting (req_valid), or waiting
    arg,          \* the argument wires
    asked,        \* the argument of its last request
    rsp_ready,    \* a register of the DUT
    pc,           \* the co_await the responder is suspended in, or "run"
    left,         \* cycles its body will still be suspended
    local,        \* the argument it has captured
    req_ready, rsp_valid, rsp_data,
    slipped       \* history: see Unticked

initiator == <<dut, arg, asked, rsp_ready>>
wires == <<req_ready, rsp_valid, rsp_data>>
responder == <<pc, left, local, wires>>
scheduler == <<phase, woken, resumed>>
vars == <<scheduler, initiator, responder, slipped>>

TypeOK ==
    /\ phase \in {"posedge", "pass1", "pass2"}
    /\ {woken, resumed, slipped} \subseteq BOOLEAN
    /\ dut \in {"idle", "request", "wait"}
    /\ {arg, asked, local, rsp_data} \subseteq Args
    /\ {rsp_ready, req_ready, rsp_valid} \subseteq BOOLEAN
    /\ pc \in {"accept", "taken", "run", "body", "offer", "answer"}
    /\ left \in 0 .. MaxBody

req_valid == dut = "request"

\* bootstrap() has run the responder to its first co_await and may be running
\* another coroutine.
Init ==
    /\ phase = "pass2" /\ woken = FALSE /\ resumed = TRUE
    /\ dut = "idle" /\ arg \in Args /\ asked = arg /\ rsp_ready \in BOOLEAN
    /\ pc = "accept" /\ left = 0 /\ local = arg
    /\ req_ready = TRUE /\ rsp_valid = FALSE /\ rsp_data = arg
    /\ slipped = FALSE

-----------------------------------------------------------------------------
\* The DUT, one action per thing its initiator may do at a posedge.  It holds a
\* request until it is accepted and has one outstanding at a time; its argument
\* wires mean nothing otherwise, and it may take any time to be ready for the
\* response.

Request == dut' = "request" /\ arg' \in Args /\ asked' = arg'
NoRequest(state) == dut' = state /\ arg' \in Args /\ UNCHANGED asked

Idle == dut = "idle" /\ (Request \/ NoRequest("idle"))

Handshake ==
    /\ req_valid
    /\ IF req_ready THEN NoRequest("wait") ELSE UNCHANGED <<dut, arg, asked>>

Takes == dut = "wait" /\ rsp_valid /\ rsp_ready

Response == Takes /\ (NoRequest("idle") \/ (BackToBack /\ Request))

NoResponse == dut = "wait" /\ ~ Takes /\ NoRequest("wait")

Posedge ==
    /\ Idle \/ Handshake \/ Response \/ NoResponse
    /\ rsp_ready' \in BOOLEAN
    /\ UNCHANGED <<woken, resumed, responder>>

\* The drive loop's posedge, which a tick follows.  With both sides at rest
\* whatever went wrong before is over.
AtRest == dut = "idle" /\ pc = "accept"

Scheduled ==
    /\ phase = "posedge" /\ phase' = "pass1"
    /\ Posedge
    /\ slipped' = (slipped /\ ~ AtRest)

\* A posedge inside a helper's tick() or a wall-clock wait.  slipped records that
\* one began or ended with a request raised, or with both sides of a response:
\* the responder had no tick in which to take part in the handshake.
InHandshake == req_valid \/ (rsp_valid /\ rsp_ready)

Unticked ==
    /\ phase # "posedge"
    /\ Posedge
    /\ slipped' = (slipped \/ InHandshake \/ InHandshake')
    /\ UNCHANGED phase

-----------------------------------------------------------------------------
\* The tick, as far as the responder's slot goes.

\* co_await wait_until(req_valid && req_ready), wait_until(rsp_ready).
Accepts == req_valid /\ req_ready
Holds == (pc = "accept" /\ Accepts) \/ (pc = "offer" /\ rsp_ready)

\* Pass 1: a wait_cycles(1) is over, a predicate is evaluated.
PassOne ==
    /\ phase = "pass1" /\ phase' = "pass2"
    /\ woken' = (pc \in {"taken", "body", "answer"} \/ Holds)
    /\ UNCHANGED <<resumed, initiator, responder, slipped>>

\* The predicates once more, after other slots have run.
Recheck ==
    /\ phase = "pass2" /\ ~ woken /\ ~ resumed /\ Holds
    /\ woken' = TRUE
    /\ UNCHANGED <<phase, resumed, initiator, responder, slipped>>

TickEnds ==
    /\ phase = "pass2" /\ phase' = "posedge"
    /\ ~ woken /\ (resumed \/ ~ Holds) /\ pc # "run"
    /\ resumed' = FALSE
    /\ UNCHANGED <<woken, initiator, responder, slipped>>

-----------------------------------------------------------------------------
\* The responder, one action per co_await that it comes back from.

Resume ==
    /\ phase = "pass2" /\ woken
    /\ woken' = FALSE /\ resumed' = TRUE
    /\ UNCHANGED <<phase, initiator, slipped>>

\* The arguments are captured from the wires, and the responder waits for the
\* posedge at which the DUT sees the handshake.
\* Mutant: req_ready is lowered at once, before the DUT has seen it.
AcceptAtOnce ==
    /\ Resume /\ pc = "accept"
    /\ local' = arg /\ pc' = "taken" /\ req_ready' = FALSE
    /\ UNCHANGED <<left, rsp_valid, rsp_data>>
Accept ==
    /\ Resume /\ pc = "accept"
    /\ local' = arg /\ pc' = "taken"
    /\ UNCHANGED <<left, wires>>

Serve ==
    /\ Resume /\ pc = "taken"
    /\ req_ready' = FALSE
    /\ pc' = "run" /\ left' \in 0 .. MaxBody
    /\ UNCHANGED <<local, rsp_valid, rsp_data>>

\* The body runs, and may let time pass as it does (Unticked), to its next
\* co_await or to its end.
Suspend ==
    /\ pc = "run" /\ left > 0
    /\ left' = left - 1 /\ pc' = "body"
    /\ UNCHANGED <<scheduler, initiator, local, wires, slipped>>

\* Mutant: the result is computed from the wires, not from the capture.
BodyRereads ==
    /\ Resume /\ pc = "body"
    /\ pc' = "run" /\ local' = arg
    /\ UNCHANGED <<left, wires>>
Body ==
    /\ Resume /\ pc = "body"
    /\ pc' = "run"
    /\ UNCHANGED <<left, local, wires>>

\* The response is driven; if (!rsp_ready) co_await wait_until(rsp_ready).
\* Mutant: the responder does not wait for rsp_ready.
RespondBlindly ==
    /\ pc = "run" /\ left = 0
    /\ rsp_data' = local /\ rsp_valid' = TRUE
    /\ pc' = "answer"
    /\ UNCHANGED <<scheduler, initiator, left, local, req_ready, slipped>>
Respond ==
    /\ pc = "run" /\ left = 0
    /\ rsp_data' = local /\ rsp_valid' = TRUE
    /\ pc' = IF rsp_ready THEN "answer" ELSE "offer"
    /\ UNCHANGED <<scheduler, initiator, left, local, req_ready, slipped>>

Offer ==
    /\ Resume /\ pc = "offer"
    /\ pc' = "answer"
    /\ UNCHANGED <<left, local, wires>>

\* The DUT has taken the response; the loop starts over.
\* Mutant: req_ready is raised only before the loop.
AnswerNotReady ==
    /\ Resume /\ pc = "answer"
    /\ rsp_valid' = FALSE /\ pc' = "accept"
    /\ UNCHANGED <<left, local, req_ready, rsp_data>>
Answer ==
    /\ Resume /\ pc = "answer"
    /\ rsp_valid' = FALSE /\ req_ready' = TRUE /\ pc' = "accept"
    /\ UNCHANGED <<left, local, rsp_data>>

Responder == Accept \/ Serve \/ Suspend \/ Body \/ Respond \/ Offer \/ Answer
Tick == PassOne \/ Recheck \/ Responder \/ TickEnds
Next == Scheduled \/ Unticked \/ Tick

\* Time goes on, a tick comes to its end (a helper waits finitely often), and an
\* initiator that waits for a response does not refuse to be ready for ever.
Spec ==
    /\ Init /\ [][Next]_vars
    /\ WF_vars(Scheduled) /\ WF_vars(Tick)
    /\ SF_vars((Scheduled \/ Unticked) /\ dut' = "wait" /\ rsp_ready')

-----------------------------------------------------------------------------
\* A request that the DUT has seen accepted is the one the responder is serving:
\* "captures request args on the req handshake" (spec section 8).  No handshake
\* goes by while the responder does not look, as long as posedges without a tick
\* stay clear of the handshakes.
RequestsCaptured == dut = "wait" /\ ~ slipped => pc # "accept" /\ local = asked

\* The DUT is offered one response per request: the data answers what it asked,
\* and when the drive loop's posedge samples a response the DUT waits for one.
OneResponse ==
    rsp_valid /\ ~ slipped =>
        /\ dut = "wait" => rsp_data = asked
        /\ phase = "posedge" => dut = "wait"

\* The responder "holds the response until the DUT raises rsp_ready": a response
\* not yet taken is neither withdrawn nor changed, whatever posedges go by.
ResponseHeld == [][rsp_valid /\ dut = "wait" => rsp_valid' /\ rsp_data' = rsp_data]_vars

\* Every request is accepted and answered, unless a handshake slipped by.
Answered ==
    /\ req_valid /\ ~ slipped ~> dut = "wait"
    /\ dut = "wait" /\ ~ slipped ~> dut # "wait"

\* What RequestsCaptured would be if every posedge were followed by a tick.
AlwaysCaptured == dut = "wait" => pc # "accept" /\ local = asked

-----------------------------------------------------------------------------
\* The inductive invariant, for an initiator that is not back to back.  Since is
\* the time from the co_await to the next posedge of the drive loop.
Since == phase = "posedge" \/ resumed

\* Whatever posedges go by: the tick, the wires at each co_await, and a response
\* that the DUT is about to take.
Ticking ==
    /\ woken => phase = "pass2" /\ ~ resumed
    /\ resumed => phase = "pass2"
    /\ pc = "run" => resumed
    /\ pc \in {"taken", "body", "answer"} /\ phase = "pass2" => woken \/ resumed

Driven ==
    /\ req_ready <=> pc \in {"accept", "taken"}
    /\ rsp_valid <=> pc \in {"offer", "answer"}
    /\ pc = "offer" /\ woken /\ dut = "wait" => rsp_ready
    /\ pc = "answer" /\ dut = "wait" => Since /\ rsp_ready

\* Unless a handshake slipped by: what the DUT is at each co_await.
Awaiting ==
    /\ pc = "accept" => dut \in {"idle", "request"}
    /\ pc = "accept" /\ dut = "request" => ~ Since
    /\ pc = "accept" /\ woken => dut = "request"
    /\ pc = "taken" => dut = IF Since THEN "request" ELSE "wait"
    /\ pc \in {"run", "body", "offer"} => dut = "wait"
    /\ pc = "offer" /\ Since => ~ rsp_ready
    /\ pc = "answer" => dut = IF Since THEN "wait" ELSE "idle"

Answering ==
    /\ dut = "request" => arg = asked
    /\ pc # "accept" => local = asked
    /\ pc \in {"offer", "answer"} => rsp_data = asked

IInv == TypeOK /\ Ticking /\ Driven /\ (slipped \/ (Awaiting /\ Answering))
=============================================================================
