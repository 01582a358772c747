---------------------------- MODULE TlmInitiator ----------------------------
(***************************************************************************)
(* The initiator side of bus traffic: the C++ a test emits for a direct    *)
(* `bus.method(args)`, for `fork bus.method(args)` with its `join_all`,    *)
(* and for `bus.ch.send` / `bus.ch.recv`.  All of it is straight-line code *)
(* cut by cycle advances: it writes DUT inputs, looks at DUT outputs,      *)
(* advances one cycle, and gives up when a budget runs out.                *)
(*                                                                         *)
(* Time alternates.  While turn = "tb" the emitted code runs; `advance`    *)
(* hands the turn to Posedge, the DUT's clock edge, which takes it back.   *)
(* The DUT is external: any target that keeps an offered response until it *)
(* is taken, answers a `blocking` method in acceptance order and an        *)
(* `out_of_order` one in any order, and whose ready outputs do not depend  *)
(* on the inputs of the same cycle (except on req_tag).                    *)
(*                                                                         *)
(* A transaction is its number, and it stands for its own payload: `req`   *)
(* is 0 or the transaction whose request is on the wires, `rsp` is 0 or    *)
(* the one whose answer is.                                                *)
(*                                                                         *)
(* The list a join_all drains and the tag of a fork are made when the test *)
(* is lowered, in the order of the text: the k-th fork statement since the *)
(* last join_all of the text is the k-th entry of the list and, in a       *)
(* tagged method, has the tag k - 1.  `pending` is that list for the place *)
(* the code has reached; an entry is the transaction its fork statement    *)
(* issued last, 0 if it issued none.  While the code runs in the order of  *)
(* the text, or through loops and branches that leave the list as they     *)
(* found it, only the fork statements and the joins change the list.  Any  *)
(* other loop or branch brings the code to a place with another list: Jump.*)
(***************************************************************************)
EXTENDS Integers, Sequences, Functions

CONSTANTS MaxCalls,   \* transactions one behaviour issues
          WaitBound,  \* TLM_WAIT_BOUND, 16 in the code
          DrainBound, \* TLM_JOIN_DRAIN_BOUND, 64 in the code
          PollBound,  \* the tagged join's budget, 256 in the code
          Tags,       \* N of `out_of_order tags N`
          Depth,      \* requests a `blocking` target holds unanswered
          Modes,      \* the kinds of bus member explored
          Mixed,      \* direct calls while forks of the method are pending
          MaxJumps    \* bound: jumps to a place with another list

ASSUME BudgetAssumption ==
  /\ {MaxCalls, WaitBound, DrainBound, PollBound, MaxJumps} \subseteq Nat
  /\ {Tags, Depth} \subseteq Nat \ {0}
  /\ Modes \subseteq {"blocking", "out_of_order", "channel"}
  /\ Mixed \in BOOLEAN

VARIABLES
  mode,     \* what the bus member is: a method of one of two modes, a channel
  stalls,   \* may the out_of_order target refuse a request to an idle slot?
  turn,     \* "tb" or "dut"
  pc,       \* the wait the emitted code is in
  stmt,     \* the statement being executed
  n,        \* transactions issued
  pending,  \* pending_tlm_forks where the code is: what the next join drains
  seen,     \* _tlm_seen_<i>: the entries the tagged join has already served
  now,      \* the entry or transaction whose response is waited for
  b,        \* _b or _tlm_budget
  tag,      \* entries before a transaction's in its list: a fork's static tag
  dest,     \* the response captured for each transaction, in the local of its
            \* statement; [0] for statements that issued none
  errors,   \* ctx.errors
  req, rspReady,     \* wires the testbench drives
  reqReady, rsp,     \* wires the DUT drives
  inside,   \* requests the DUT accepted and has not offered an answer to
  accepted, \* requests accepted, in order
  taken,    \* responses transferred, in order
  captured, \* history: responses captured in some local, in order
  forked,   \* history: transactions issued by fork statements
  strays    \* history: jumps so far

wires == <<req, rspReady>>
target == <<reqReady, rsp, inside, accepted, taken>>
stored == <<dest, captured>>
static == <<tag, forked, strays>>
control == <<pc, stmt, n, pending, seen, now, b, errors, stored, static>>
vars == <<mode, stalls, turn, wires, target, control>>

Calls == 1 .. MaxCalls
\* What a recv channel's DUT sends: not the answer to anything.
Item == MaxCalls + 1

TypeOK ==
  /\ mode \in Modes /\ stalls \in BOOLEAN /\ turn \in {"tb", "dut"}
  /\ pc \in {"idle", "request", "accept", "response", "release", "poll"}
  /\ stmt \in {"none", "call", "fork", "join", "send", "recv"}
  /\ n \in 0 .. MaxCalls /\ pending \in Seq(0 .. MaxCalls)
  /\ seen \subseteq Nat /\ now \in 0 .. MaxCalls /\ b \in Nat
  /\ tag \in [Calls -> Nat] /\ forked \subseteq Calls /\ strays \in Nat
  /\ dest \in [0 .. MaxCalls -> 0 .. Item] /\ captured \in Seq(1 .. Item)
  /\ errors \in Nat
  /\ req \in 0 .. MaxCalls /\ rspReady \in BOOLEAN
  /\ reqReady \in BOOLEAN /\ rsp \in 0 .. Item
  /\ inside \in Seq(Calls) /\ accepted \in Seq(Calls) /\ taken \in Seq(1 .. Item)

Init ==
  /\ mode \in Modes
  /\ stalls \in IF mode = "out_of_order" THEN BOOLEAN ELSE {FALSE}
  /\ turn = "tb" /\ pc = "idle" /\ stmt = "none"
  /\ n = 0 /\ pending = <<>> /\ seen = {} /\ now = 0 /\ b = 0
  /\ tag = [c \in Calls |-> 0] /\ forked = {} /\ strays = 0
  /\ dest = [c \in 0 .. MaxCalls |-> 0] /\ captured = <<>> /\ errors = 0
  /\ req = 0 /\ rspReady = FALSE
  /\ reqReady \in BOOLEAN /\ rsp = 0
  /\ inside = <<>> /\ accepted = <<>> /\ taken = <<>>


-----------------------------------------------------------------------------
(* The emitted code.                                                       *)

\* tlm_cycle_advance: `co_await wait_cycles(_slot, 1)` or `tick()`.
Advance == turn' = "dut"
Running(at) == turn = "tb" /\ pc = at

\* Issuing transaction n + 1 with its payload on the wires.
Issue(s) ==
  /\ Running("idle") /\ n < MaxCalls
  /\ n' = n + 1 /\ stmt' = s /\ now' = n + 1
  /\ tag' = [tag EXCEPT ![n + 1] = Len(pending)]
  /\ forked' = IF s = "fork" THEN forked \cup {n + 1} ELSE forked
  /\ UNCHANGED <<mode, stalls, seen, errors, stored, strays, target>>

\* Payload, req_valid = 1, then the bounded wait for req_ready.
Request ==
  /\ req' = n + 1 /\ pc' = "request" /\ b' = WaitBound
  /\ UNCHANGED <<turn, rspReady>>

\* A tagged request is presented for exactly one cycle, req_ready unread.  The
\* lowering has refused a list longer than the tags.
RequestTagged ==
  /\ Len(pending) < Tags
  /\ req' = n + 1 /\ pc' = "accept" /\ b' = b /\ Advance
  /\ UNCHANGED rspReady

\* A direct call of a `blocking` method (emit_transactor_call).
CallBlocking ==
  /\ mode = "blocking" /\ (Mixed \/ pending = <<>>)
  /\ Issue("call") /\ Request /\ UNCHANGED pending

\* A direct call of an `out_of_order` method: a one-request group on tag 0,
\* refused by the lowering while forks of the method are pending.
CallTagged ==
  /\ mode = "out_of_order" /\ pending = <<>>
  /\ Issue("call") /\ RequestTagged /\ pending' = <<n + 1>>

\* Mutant: an untagged fork presents its request for one cycle too.
ForkUnwaited ==
  /\ mode = "blocking" /\ Issue("fork") /\ RequestTagged
  /\ pending' = Append(pending, n + 1)

\* `fork bus.method(args)`: the request side only.
ForkBlocking ==
  /\ mode = "blocking" /\ Issue("fork") /\ Request
  /\ pending' = Append(pending, n + 1)

ForkTagged ==
  /\ mode = "out_of_order" /\ Issue("fork") /\ RequestTagged
  /\ pending' = Append(pending, n + 1)

\* `bus.ch.send`: the request side of a handshake, on a channel.
Send == mode = "channel" /\ Issue("send") /\ Request /\ UNCHANGED pending

\* `bus.ch.recv`: the response side of one.
Recv ==
  /\ mode = "channel" /\ Issue("recv")
  /\ rspReady' = TRUE /\ pc' = "response" /\ b' = WaitBound
  /\ UNCHANGED <<turn, req, pending>>

\* One pass of a bounded wait that has not seen its signal: a cycle goes by.
Spin ==
  /\ b > 0 /\ b' = b - 1 /\ Advance
  /\ UNCHANGED <<pc, stored, errors>>

\* A budget has run out.  bounded_handshake_wait counts an error; the channel
\* waits of lower_budget_wait_low fall through.
Expired == errors' = IF mode = "channel" THEN errors ELSE errors + 1

\* The wait for req_ready, and the trailing advance that carries the request.
AwaitAccept ==
  /\ Running("request")
  /\ \/ /\ reqReady /\ pc' = "accept" /\ Advance
        /\ UNCHANGED <<b, stored, errors>>
     \/ ~reqReady /\ Spin
     \/ /\ ~reqReady /\ b = 0 /\ Expired /\ pc' = "accept" /\ Advance
        /\ UNCHANGED <<b, stored>>
  /\ UNCHANGED <<mode, stalls, stmt, n, pending, seen, now, static, wires, target>>

\* After the trailing advance, req_valid becomes `lowered`.  A direct call
\* goes on to its response, rsp_ready = 1; a direct tagged call to its
\* one-entry join.
AfterAccept(lowered) ==
  /\ Running("accept") /\ req' = lowered
  /\ \/ /\ stmt = "call" /\ mode = "blocking"
        /\ rspReady' = TRUE /\ pc' = "response" /\ b' = WaitBound
        /\ UNCHANGED <<stmt, seen>>
     \/ /\ stmt = "call" /\ mode = "out_of_order"
        /\ pc' = "poll" /\ seen' = {} /\ b' = PollBound
        /\ UNCHANGED <<stmt, rspReady>>
     \/ /\ stmt \in {"fork", "send"}
        /\ pc' = "idle" /\ stmt' = "none"
        /\ UNCHANGED <<seen, b, rspReady>>
  /\ UNCHANGED <<mode, stalls, turn, n, pending, now, errors, stored, static, target>>

\* Mutant: a direct call lowers req_valid only with its next request.
DropForgotten ==
  AfterAccept(IF stmt = "call" /\ mode = "blocking" THEN req ELSE 0)

\* req_valid = 0.
DropRequest == AfterAccept(0)

\* Control comes to a place whose list is another one: back to the head of a
\* loop that forks or joins, past a loop body or a branch that was not taken.
\* The k-th entry of a list is a fork statement that presents tag k - 1.
\* Bound: the list is no longer than Tags.
Jump ==
  /\ Running("idle") /\ mode # "channel" /\ strays < MaxJumps
  /\ \E k \in 0 .. Tags : pending' \in [1 .. k -> {0} \cup forked]
  /\ \A i \in DOMAIN pending' : pending'[i] # 0 => tag[pending'[i]] = i - 1
  /\ pending' # pending /\ strays' = strays + 1
  /\ UNCHANGED <<mode, stalls, turn, wires, target, pc, stmt, n, seen, now, b, errors,
                 stored, tag, forked>>

\* join_all of untagged forks: issue order, one response wait per entry.
JoinOrdered ==
  /\ mode = "blocking" /\ Running("idle") /\ pending # <<>>
  /\ stmt' = "join" /\ now' = Head(pending)
  /\ rspReady' = TRUE /\ pc' = "response" /\ b' = DrainBound
  /\ UNCHANGED <<mode, stalls, turn, n, pending, seen, errors, stored, static, req,
                 target>>

\* The wait for rsp_valid.  The payload is captured before the trailing
\* advance that completes the handshake, and only when the wait succeeded;
\* a channel's recv captures whatever its wires hold (0: no item).
AwaitResponse ==
  /\ Running("response")
  /\ \/ /\ rsp # 0 /\ dest' = [dest EXCEPT ![now] = rsp]
        /\ captured' = Append(captured, rsp)
        /\ pc' = "release" /\ Advance
        /\ UNCHANGED <<b, errors>>
     \/ rsp = 0 /\ Spin
     \/ /\ rsp = 0 /\ b = 0 /\ Expired /\ pc' = "release" /\ Advance
        /\ UNCHANGED <<b, stored>>
  /\ UNCHANGED <<mode, stalls, stmt, n, pending, seen, now, static, wires, target>>

\* After the trailing advance of a response: the join of untagged forks turns
\* to the next entry; otherwise the statement is over and rsp_ready becomes
\* `ready`.
AfterResponse(ready) ==
  /\ Running("release")
  /\ pending' = IF stmt = "join" THEN Tail(pending) ELSE pending
  /\ \/ /\ stmt = "join" /\ pending' # <<>>
        /\ now' = Head(pending') /\ b' = DrainBound /\ pc' = "response"
        /\ UNCHANGED <<stmt, rspReady>>
     \/ /\ stmt # "join" \/ pending' = <<>>
        /\ rspReady' = ready /\ pc' = "idle" /\ stmt' = "none"
        /\ UNCHANGED <<now, b>>
  /\ UNCHANGED <<mode, stalls, turn, n, seen, errors, stored, static, req, target>>

\* Mutant: rsp_ready stays up.
ReleaseForgotten == AfterResponse(TRUE)

\* rsp_ready = 0.
Release == AfterResponse(FALSE)

\* join_all of tagged forks.
JoinTagged ==
  /\ mode = "out_of_order" /\ Running("idle") /\ pending # <<>>
  /\ stmt' = "join" /\ pc' = "poll" /\ seen' = {} /\ b' = PollBound
  /\ UNCHANGED <<mode, stalls, turn, n, pending, now, errors, stored, static, wires,
                 target>>

\* Mutant: the tag of the offered response is not compared.
MatchingAny == {i \in DOMAIN pending \ seen : rsp # 0}

\* The entry not yet served whose static tag the offered response carries.
Matching == {i \in DOMAIN pending \ seen : rsp # 0 /\ tag[rsp] = i - 1}

\* One round: rsp_ready = 0, then 1 if some entry takes the offered response;
\* a cycle; a round that took nothing costs `cost` of the budget.
Round(cost) ==
  /\ Running("poll") /\ DOMAIN pending # seen /\ b > 0
  /\ rspReady' = (Matching # {})
  /\ dest' = [c \in 0 .. MaxCalls |->
                IF \E i \in Matching : pending[i] = c THEN rsp ELSE dest[c]]
  /\ captured' = IF Matching = {} THEN captured ELSE Append(captured, rsp)
  /\ seen' = seen \cup Matching
  /\ b' = IF Matching = {} THEN b - cost ELSE b
  /\ Advance
  /\ UNCHANGED <<mode, stalls, pc, stmt, n, pending, now, errors, static, req,
                 target>>

\* Mutant: a round without a match is free.
PollUnbounded == Round(0)

Poll == Round(1)

\* The loop is over; entries left unserved are one error.  rsp_ready = 0.
PollEnd ==
  /\ Running("poll") /\ (DOMAIN pending = seen \/ b = 0)
  /\ errors' = IF DOMAIN pending = seen THEN errors ELSE errors + 1
  /\ rspReady' = FALSE /\ pending' = <<>>
  /\ pc' = "idle" /\ stmt' = "none"
  /\ UNCHANGED <<mode, stalls, turn, n, seen, now, b, stored, static, req, target>>

\* The test waits a cycle between statements.
Pause ==
  /\ Running("idle") /\ Advance
  /\ UNCHANGED <<mode, stalls, wires, target, control>>
-----------------------------------------------------------------------------
(* The DUT's clock edge (external).                                        *)

\* The slot of a tag is busy from acceptance until its response is taken.
SlotIdle(t) == \A c \in Range(inside) \cup ({rsp} \ {0}) : tag[c] # t

\* s without its i-th element.
Without(s, i) == SubSeq(s, 1, i - 1) \o SubSeq(s, i + 1, Len(s))

\* The places of `held` that may be answered next.
Answerable(held) ==
  CASE mode = "channel" -> {}
    [] mode = "blocking" -> {1} \cap DOMAIN held
    [] mode = "out_of_order" -> DOMAIN held

\* What the response wires show after an edge that leaves them free.
Offer(held) ==
  \/ rsp' = 0 /\ inside' = held
  \/ mode = "channel" /\ rsp' = Item /\ inside' = held
  \/ \E i \in Answerable(held) : rsp' = held[i] /\ inside' = Without(held, i)

Accepts(refuse) ==
  /\ req # 0
  /\ IF mode = "out_of_order" THEN SlotIdle(tag[req]) /\ ~refuse ELSE reqReady

Takes == rsp # 0 /\ rspReady

Posedge ==
  /\ turn = "dut" /\ turn' = "tb"
  /\ \E refuse \in {FALSE, stalls} :
       LET held == IF Accepts(refuse) /\ mode # "channel"
                   THEN Append(inside, req) ELSE inside
       IN /\ accepted' = IF Accepts(refuse) THEN Append(accepted, req) ELSE accepted
          /\ taken' = IF Takes THEN Append(taken, rsp) ELSE taken
          /\ IF rsp = 0 \/ Takes THEN Offer(held) ELSE rsp' = rsp /\ inside' = held
  /\ reqReady' \in IF mode = "channel" \/ Len(inside') < Depth THEN BOOLEAN ELSE {FALSE}
  /\ UNCHANGED <<mode, stalls, wires, control>>
-----------------------------------------------------------------------------
Next ==
  \/ CallBlocking \/ CallTagged \/ ForkBlocking \/ ForkTagged
  \/ Send \/ Recv \/ Jump \/ AwaitAccept \/ DropRequest
  \/ JoinOrdered \/ AwaitResponse \/ Release
  \/ JoinTagged \/ Poll \/ PollEnd \/ Pause \/ Posedge

\* The emitted code runs until its next advance and the clock keeps ticking.
Spec == Init /\ [][Next]_vars /\ WF_vars(Next)
-----------------------------------------------------------------------------
\* Transactions whose statement, or whose join, has finished.
Done == (1 .. n) \ (Range(pending) \cup (IF pc = "idle" THEN {} ELSE {now}))

(* A test that counted no error, in the order of its text, holds the right  *)
(* answers: every finished call and every joined fork has the response to   *)
(* its own request, whatever the target's latency and order, and although a *)
(* tagged request is presented for one cycle without looking at req_ready.  *)
NoSilentMismatch ==
  mode # "channel" /\ errors = 0 /\ strays = 0 => \A c \in Done : dest[c] = c

(* A request is accepted at most once: req_valid falls right after the edge *)
(* that carries it, also after a timeout, so no transaction is duplicated.  *)
AcceptedOnce == IsInjective(accepted)

(* Between statements, the responses the DUT handed over are those some     *)
(* local captured, in the same order: none is taken unread (a late answer   *)
(* after a timeout, an answer with a foreign tag) and none is read twice,   *)
(* whatever loops and branches the forks and joins are in.                  *)
CaptureIsTransfer == pc = "idle" => captured = taken

(* While no error has been counted, in the order of the text, and if the    *)
(* out_of_order target never refuses an idle slot, a method's request is    *)
(* not withdrawn unaccepted: the one cycle a tagged request gets is enough  *)
(* because join_all leaves every slot idle before its tag is issued again.  *)
RequestKept ==
  [][/\ mode # "channel" /\ ~stalls /\ errors' = 0 /\ strays = 0
     /\ req # 0 /\ req' # req
     => req \in Range(accepted)]_vars

(* Every call, join, send and recv comes back, answered or not: each wait   *)
(* has a budget and each pass of it costs some.                             *)
Returns == pc # "idle" ~> pc = "idle"

(* What NoSilentMismatch says of loops and branches too: a test that counted *)
(* no error has stored no transaction's answer for another one.             *)
MatchedAnywhere ==
  mode # "channel" /\ errors = 0 => \A c \in 1 .. n : dest[c] \in {0, c}

(* What the timeout resolution says of channels too: a send that was not    *)
(* accepted, or a recv that captured nothing, has counted an error.         *)
ChannelReported ==
  mode = "channel" /\ pc = "idle" /\ errors = 0 =>
    \A c \in 1 .. n : c \in Range(accepted) \/ dest[c] = Item
-----------------------------------------------------------------------------
(* The inductive invariants, one on top of the other.                      *)

\* The join of untagged forks is at the first of those pending.
Joining ==
  pc \in {"response", "release"} /\ stmt = "join" => pending # <<>> /\ now = Head(pending)

\* The request on the wires is the last transaction issued, and it is not
\* accepted before the edge for which req_ready was seen or, on a tagged
\* method, before the one edge it is presented to.
Presenting ==
  /\ pc \in {"request", "accept"} => req = n /\ now = n /\ n > 0
  /\ pc \notin {"request", "accept"} => req = 0
  /\ pc = "request" => mode # "out_of_order" /\ (turn = "dut" => ~reqReady)
  /\ Range(accepted) \subseteq 1 .. n
  /\ req # 0 /\ (pc = "request" \/ turn = "dut") => req \notin Range(accepted)

\* rsp_ready is up only in a response wait or a poll, and an answer that waits
\* for the edge has been captured.
Receiving ==
  /\ rspReady => pc \in {"response", "release", "poll"}
  /\ pc \in {"response", "release"} =>
       /\ rspReady /\ mode # "out_of_order"
       /\ stmt \in {"call", "join", "recv"}
  /\ pc = "response" /\ turn = "dut" => rsp = 0
  /\ pc = "poll" => mode = "out_of_order" /\ seen \subseteq DOMAIN pending

\* A response is captured one edge before it is transferred.
Balance == captured = IF turn = "dut" /\ Takes THEN Append(taken, rsp) ELSE taken

\* In the order of the text, the entries of the list are different
\* transactions, under different tags.
Pending ==
  strays = 0 =>
    /\ IsInjective(pending) /\ Range(pending) \subseteq 1 .. n
    /\ mode = "out_of_order" => \A i \in DOMAIN pending : tag[pending[i]] = i - 1

\* The transactions of the list that the tagged join has served.
Served == {pending[i] : i \in seen}

\* A method's target holds every request once.
Held ==
  mode # "channel" =>
    /\ IsInjective(inside) /\ rsp \notin Range(inside)
    /\ Range(inside) \cup ({rsp} \ {0}) \subseteq Range(accepted)

\* Without an error, everything inside an out_of_order target was forked and is
\* not served yet, so a tag tells the answers apart.
ByTag ==
  mode = "out_of_order" /\ errors = 0 /\ strays = 0 =>
    /\ Range(inside) \subseteq Range(pending) \ (IF pc = "poll" THEN Served ELSE {})
    /\ rsp # 0 => /\ rsp \in Range(pending)
                  /\ pc = "poll" /\ rsp \in Served => turn = "dut" /\ rspReady
    /\ req # 0 => req \in Range(pending)
    /\ \A c \in 1 .. n : c \notin Range(pending) => dest[c] = c
    /\ pc = "poll" => \A c \in Served : dest[c] = c
    /\ ~stalls /\ pc = "accept" /\ turn = "tb" => req \in Range(accepted)

\* Without an error, a `blocking` request leaves its wait accepted.
Carried ==
  mode = "blocking" /\ errors = 0 /\ pc = "accept" =>
    IF turn = "dut" THEN reqReady ELSE req \in Range(accepted)

\* Responses a `blocking` target has offered, and those captured so far.
Answered == Len(taken) + IF rsp # 0 THEN 1 ELSE 0
Captured == Len(taken) + IF turn = "dut" /\ Takes THEN 1 ELSE 0

\* The request of the last transaction has not been accepted yet.
Presented == pc = "request" \/ (pc = "accept" /\ turn = "dut")

\* Transactions before the first pending fork.
Joined == Captured - IF pc = "release" /\ stmt = "join" THEN 1 ELSE 0

\* Without an error, transactions of a `blocking` method are accepted, answered
\* and captured in the order of their numbers.
OrderedTarget ==
  /\ rsp # 0 => rsp = Len(taken) + 1
  /\ \A i \in DOMAIN inside : inside[i] = Answered + i
  /\ Answered + Len(inside) = n - IF Presented THEN 1 ELSE 0

OrderedTest ==
  /\ \A c \in 1 .. Captured : dest[c] = c
  /\ \A i \in DOMAIN pending : pending[i] = Joined + i
  /\ stmt \in {"none", "fork", "join"} => Joined + Len(pending) = n
  /\ stmt = "call" => /\ pending = <<>> /\ now = n /\ pc # "idle"
                     /\ Captured = n - IF pc = "release" THEN 0 ELSE 1
  /\ stmt \notin {"send", "recv"}

InOrder ==
  mode = "blocking" /\ errors = 0 /\ strays = 0 => OrderedTarget /\ OrderedTest

IInv == TypeOK /\ Joining /\ Presenting /\ AcceptedOnce
CInv == Receiving /\ Pending /\ Balance
AInv == Held /\ ByTag /\ Carried
=============================================================================
