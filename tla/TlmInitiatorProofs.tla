------------------------- MODULE TlmInitiatorProofs -------------------------
(* Proofs about the initiator's statements, for any number of calls, tags and *)
(* outstanding requests, and for every length of the waits.                   *)
EXTENDS TlmInitiator, TLAPS

-----------------------------------------------------------------------------
\* Sequences and their elements.

\* The elements of a sequence are its values at 1 .. Len.
LEMMA SeqFacts ==
  ASSUME NEW S, NEW s \in Seq(S)
  PROVE  /\ Len(s) \in Nat /\ DOMAIN s = 1 .. Len(s)
         /\ Range(s) \subseteq S
         /\ \A i \in 1 .. Len(s) : s[i] \in Range(s) /\ s[i] \in S
         /\ \A x : x \in Range(s) => \E i \in 1 .. Len(s) : x = s[i]
         /\ s = <<>> <=> Len(s) = 0
<1>1. Len(s) \in Nat /\ DOMAIN s = 1 .. Len(s) /\ (s = <<>> <=> Len(s) = 0)
  OBVIOUS
<1>2. \A i \in 1 .. Len(s) : s[i] \in S
  OBVIOUS
<1> QED
  BY Zenon, <1>1, <1>2 DEF Range

\* An empty sequence has no element.
LEMMA EmptyFacts == Range(<<>>) = {} /\ IsInjective(<<>>) /\ DOMAIN <<>> = {} /\ Len(<<>>) = 0
  BY DEF Range, IsInjective

\* Appending a new element.
LEMMA AppendFacts ==
  ASSUME NEW S, NEW s \in Seq(S), NEW x \in S
  PROVE  /\ Append(s, x) \in Seq(S) /\ Len(Append(s, x)) = Len(s) + 1
         /\ \A i \in 1 .. Len(s) : Append(s, x)[i] = s[i]
         /\ Append(s, x)[Len(s) + 1] = x
         /\ Range(Append(s, x)) = Range(s) \cup {x}
         /\ IsInjective(s) /\ x \notin Range(s) => IsInjective(Append(s, x))
<1> DEFINE t == Append(s, x)
<1>1. /\ t \in Seq(S) /\ Len(t) = Len(s) + 1 /\ Len(s) \in Nat
      /\ \A i \in 1 .. Len(s) : t[i] = s[i]
      /\ t[Len(s) + 1] = x
  OBVIOUS
<1>2. DOMAIN t = 1 .. Len(s) + 1 /\ DOMAIN s = 1 .. Len(s)
  BY <1>1
<1> HIDE DEF t
<1>3. Range(t) = Range(s) \cup {x}
  <2>1. \A i : i \in DOMAIN t <=> i \in DOMAIN s \/ i = Len(s) + 1
    BY <1>1, <1>2
  <2> QED
    BY Zenon, <1>1, <1>2, <2>1 DEF Range
<1>4. ASSUME IsInjective(s), x \notin Range(s) PROVE IsInjective(t)
  <2>1. \A i \in DOMAIN s : s[i] # x
    BY Zenon, <1>4 DEF Range
  <2> QED
    BY <1>1, <1>2, <1>4, <2>1 DEF IsInjective
<1> QED
  BY Zenon, <1>1, <1>3, <1>4 DEF t

\* A sequence without the k-th element of another.
LEMMA SkipFacts ==
  ASSUME NEW S, NEW s \in Seq(S), NEW t \in Seq(S), NEW k \in 1 .. Len(s),
         Len(t) = Len(s) - 1,
         \A i \in 1 .. Len(t) : t[i] = s[IF i < k THEN i ELSE i + 1]
  PROVE  /\ Range(t) \subseteq Range(s)
         /\ IsInjective(s) => IsInjective(t) /\ s[k] \notin Range(t)
<1> DEFINE at(i) == IF i < k THEN i ELSE i + 1
<1>1. Len(s) \in Nat /\ DOMAIN s = 1 .. Len(s) /\ DOMAIN t = 1 .. Len(t) /\ k \in DOMAIN s
  OBVIOUS
<1>2. \A i \in DOMAIN t : at(i) \in DOMAIN s /\ at(i) # k
  BY <1>1
<1>3. \A i, j \in DOMAIN t : at(i) = at(j) => i = j
  BY <1>1
<1>4. \A i \in DOMAIN t : t[i] = s[at(i)]
  BY Zenon, <1>1
<1> HIDE DEF at
<1>5. Range(t) \subseteq Range(s)
  <2> SUFFICES ASSUME NEW x \in Range(t) PROVE x \in Range(s)
    BY Zenon
  <2>1. PICK i \in DOMAIN t : x = t[i]
    BY Zenon DEF Range
  <2>2. at(i) \in DOMAIN s /\ x = s[at(i)]
    BY Zenon, <1>2, <1>4, <2>1
  <2> QED
    BY Zenon, <2>2 DEF Range
<1>6. ASSUME IsInjective(s) PROVE IsInjective(t) /\ s[k] \notin Range(t)
  <2>1. ASSUME NEW i \in DOMAIN t PROVE t[i] # s[k]
    <3>1. at(i) \in DOMAIN s /\ at(i) # k /\ t[i] = s[at(i)]
      BY Zenon, <1>2, <1>4
    <3> QED
      BY Zenon, <1>1, <1>6, <3>1 DEF IsInjective
  <2>2. ASSUME NEW i \in DOMAIN t, NEW j \in DOMAIN t, t[i] = t[j] PROVE i = j
    <3>1. /\ at(i) \in DOMAIN s /\ at(j) \in DOMAIN s
          /\ s[at(i)] = s[at(j)]
      BY Zenon, <1>2, <1>4, <2>2
    <3> QED
      BY Zenon, <1>3, <1>6, <3>1 DEF IsInjective
  <2> QED
    BY Zenon, <2>1, <2>2 DEF IsInjective, Range
<1> QED
  BY Zenon, <1>5, <1>6

\* One sequence after another.
LEMMA ConcatFacts ==
  ASSUME NEW S, NEW u \in Seq(S), NEW v \in Seq(S)
  PROVE  /\ u \o v \in Seq(S) /\ Len(u \o v) = Len(u) + Len(v)
         /\ \A i \in 1 .. Len(u) + Len(v) :
              (u \o v)[i] = IF i <= Len(u) THEN u[i] ELSE v[i - Len(u)]
  OBVIOUS

\* Removing one element.
LEMMA RemoveFacts ==
  ASSUME NEW S, NEW s \in Seq(S), NEW k \in 1 .. Len(s)
  PROVE  /\ Without(s, k) \in Seq(S) /\ Len(Without(s, k)) = Len(s) - 1
         /\ \A i \in 1 .. Len(Without(s, k)) :
              Without(s, k)[i] = s[IF i < k THEN i ELSE i + 1]
         /\ Range(Without(s, k)) \subseteq Range(s)
         /\ IsInjective(s) => /\ IsInjective(Without(s, k))
                              /\ s[k] \notin Range(Without(s, k))
<1> DEFINE u == SubSeq(s, 1, k - 1)
           v == SubSeq(s, k + 1, Len(s))
           t == Without(s, k)
<1>0. Len(s) \in Nat /\ k \in Nat /\ k >= 1 /\ k <= Len(s) /\ \A i \in 1 .. Len(s) : s[i] \in S
  OBVIOUS
<1>1. /\ u \in Seq(S) /\ Len(u) = k - 1
      /\ \A i \in 1 .. k - 1 : u[i] = s[i]
  <2>1. \A i \in 1 .. k - 1 : s[i] \in S
    BY <1>0
  <2>2. /\ u \in Seq(S) /\ Len(u) = IF 1 <= k - 1 THEN (k - 1) - 1 + 1 ELSE 0
        /\ \A i \in 1 .. (k - 1) - 1 + 1 : u[i] = s[1 + i - 1]
    BY <1>0, <2>1
  <2> HIDE DEF u
  <2> QED
    BY <1>0, <2>2
<1>2. /\ v \in Seq(S) /\ Len(v) = Len(s) - k
      /\ \A i \in 1 .. Len(s) - k : v[i] = s[k + i]
  <2>1. \A i \in k + 1 .. Len(s) : s[i] \in S
    BY <1>0
  <2>2. /\ v \in Seq(S) /\ Len(v) = IF k + 1 <= Len(s) THEN Len(s) - (k + 1) + 1 ELSE 0
        /\ \A i \in 1 .. Len(s) - (k + 1) + 1 : v[i] = s[(k + 1) + i - 1]
    BY <1>0, <2>1
  <2> HIDE DEF v
  <2> QED
    BY <1>0, <2>2
<1>3. t = u \o v
  BY DEF Without
<1> HIDE DEF u, v, t
<1>4. /\ t \in Seq(S) /\ Len(t) = Len(u) + Len(v)
      /\ \A i \in 1 .. Len(u) + Len(v) : t[i] = IF i <= Len(u) THEN u[i] ELSE v[i - Len(u)]
  BY Zenon, <1>1, <1>2, <1>3, ConcatFacts
<1>5. Len(t) = Len(s) - 1
  BY <1>0, <1>1, <1>2, <1>4
<1>6. \A i \in 1 .. Len(t) : t[i] = s[IF i < k THEN i ELSE i + 1]
  <2> SUFFICES ASSUME NEW i \in 1 .. Len(t)
               PROVE  t[i] = s[IF i < k THEN i ELSE i + 1]
    BY Zenon
  <2>1. t[i] = IF i <= Len(u) THEN u[i] ELSE v[i - Len(u)]
    BY Zenon, <1>4
  <2>2. i \in Nat /\ i >= 1 /\ i <= Len(s) - 1
    BY <1>0, <1>5
  <2>3. CASE i < k
    <3>1. i <= Len(u) /\ i \in 1 .. k - 1
      BY <1>0, <1>1, <2>2, <2>3
    <3> QED
      BY Zenon, <1>1, <2>1, <2>3, <3>1
  <2>4. CASE ~ (i < k)
    <3>1. ~ (i <= Len(u)) /\ i - Len(u) \in 1 .. Len(s) - k /\ k + (i - Len(u)) = i + 1
      BY <1>0, <1>1, <2>2, <2>4
    <3>2. t[i] = s[k + (i - Len(u))]
      BY Zenon, <1>2, <2>1, <3>1
    <3> QED
      BY Zenon, <2>4, <3>1, <3>2
  <2> QED
    BY Zenon, <2>3, <2>4
<1>7. /\ Range(t) \subseteq Range(s)
      /\ IsInjective(s) => IsInjective(t) /\ s[k] \notin Range(t)
  BY Zenon, <1>4, <1>5, <1>6, SkipFacts
<1> QED
  BY Zenon, <1>4, <1>5, <1>6, <1>7 DEF t

\* Dropping the first element.
LEMMA TailFacts ==
  ASSUME NEW S, NEW s \in Seq(S), s # <<>>
  PROVE  /\ Tail(s) \in Seq(S) /\ Len(Tail(s)) = Len(s) - 1
         /\ \A i \in 1 .. Len(Tail(s)) : Tail(s)[i] = s[i + 1]
         /\ Range(Tail(s)) \subseteq Range(s) /\ Head(s) \in Range(s) /\ Head(s) = s[1]
         /\ IsInjective(s) => IsInjective(Tail(s)) /\ Head(s) \notin Range(Tail(s))
<1> DEFINE t == Tail(s)
<1>1. /\ t \in Seq(S) /\ Len(t) = Len(s) - 1 /\ Len(s) \in Nat \ {0}
      /\ \A i \in 1 .. Len(t) : t[i] = s[i + 1]
      /\ Head(s) = s[1]
  OBVIOUS
<1> HIDE DEF t
<1>2. 1 \in 1 .. Len(s) /\ \A i \in 1 .. Len(t) : t[i] = s[IF i < 1 THEN i ELSE i + 1]
  BY <1>1
<1>3. /\ Range(t) \subseteq Range(s)
      /\ IsInjective(s) => IsInjective(t) /\ s[1] \notin Range(t)
  BY Zenon, <1>1, <1>2, SkipFacts
<1>4. Head(s) \in Range(s)
  BY <1>1, <1>2 DEF Range
<1> QED
  BY <1>1, <1>3, <1>4 DEF t

-----------------------------------------------------------------------------
\* Types.

\* Transactions are numbers from 1, and an item is none of them.
LEMMA Numbers ==
  /\ MaxCalls \in Nat /\ Calls = 1 .. MaxCalls /\ Item = MaxCalls + 1
  /\ 0 \notin Calls /\ Calls \subseteq 0 .. MaxCalls /\ Calls \subseteq 1 .. Item
  /\ 0 .. MaxCalls \subseteq 0 .. Item /\ Item \in 0 .. Item /\ 0 \in 0 .. MaxCalls
  /\ Tags \in Nat \ {0} /\ WaitBound \in Nat /\ DrainBound \in Nat /\ PollBound \in Nat
  BY BudgetAssumption DEF Calls, Item

\* Issuing takes the next number.
LEMMA IssueNumber ==
  ASSUME TypeOK, NEW s, Issue(s)
  PROVE  /\ n' = n + 1 /\ n + 1 \in Calls /\ n + 1 \in 0 .. MaxCalls /\ now' = n + 1
         /\ stmt' = s /\ turn = "tb" /\ pc = "idle"
         /\ UNCHANGED <<mode, stalls, seen, dest, captured, errors, strays, target>>
<1>1. n < MaxCalls /\ n \in 0 .. MaxCalls /\ n' = n + 1
  BY Zenon DEF Issue, TypeOK
<1>2. n + 1 \in Calls /\ n + 1 \in 0 .. MaxCalls
  BY <1>1, Numbers
<1> QED
  BY Zenon, <1>1, <1>2 DEF Issue, Running, stored

\* A list of k entries is a sequence.
LEMMA ListType ==
  ASSUME NEW k \in Nat, NEW S, NEW l \in [1 .. k -> S]
  PROVE  l \in Seq(S)
  OBVIOUS

\* A fork statement adds its transaction to the list.
LEMMA ListAppend ==
  ASSUME TypeOK, n + 1 \in Calls
  PROVE  LET l == Append(pending, n + 1) IN
         /\ l \in Seq(0 .. MaxCalls) /\ Len(l) = Len(pending) + 1 /\ Len(pending) \in Nat
         /\ \A i \in 1 .. Len(pending) : l[i] = pending[i]
         /\ l[Len(pending) + 1] = n + 1
         /\ Range(l) = Range(pending) \cup {n + 1}
         /\ IsInjective(pending) /\ n + 1 \notin Range(pending) => IsInjective(l)
<1> DEFINE l == Append(pending, n + 1)
<1>1. pending \in Seq(0 .. MaxCalls) /\ n + 1 \in 0 .. MaxCalls
  BY Zenon, Numbers DEF TypeOK
<1>2. Len(pending) \in Nat
  BY Zenon, <1>1, SeqFacts
<1>3. /\ l \in Seq(0 .. MaxCalls) /\ Len(l) = Len(pending) + 1
      /\ \A i \in 1 .. Len(pending) : l[i] = pending[i]
      /\ l[Len(pending) + 1] = n + 1
      /\ Range(l) = Range(pending) \cup {n + 1}
      /\ IsInjective(pending) /\ n + 1 \notin Range(pending) => IsInjective(l)
  BY Zenon, <1>1, AppendFacts
<1> QED
  BY Zenon, <1>2, <1>3

\* The statements that issue a transaction keep the types.
LEMMA IssueType ==
  ASSUME TypeOK, CallBlocking \/ ForkBlocking \/ Send \/ CallTagged \/ ForkTagged \/ Recv
  PROVE  TypeOK'
<1>1. PICK s \in {"call", "fork", "send", "recv"} : Issue(s)
  BY Zenon DEF CallBlocking, ForkBlocking, Send, CallTagged, ForkTagged, Recv
<1>2. /\ n + 1 \in Calls /\ n' \in 0 .. MaxCalls /\ now' \in 0 .. MaxCalls
      /\ stmt' \in {"none", "call", "fork", "join", "send", "recv"}
      /\ UNCHANGED <<mode, stalls, seen, dest, captured, errors, strays, target>>
  BY Zenon, <1>1, IssueNumber
<1>3. UNCHANGED <<reqReady, rsp, inside, accepted, taken>>
  BY Zenon, <1>2 DEF target
<1>4. pending' \in Seq(0 .. MaxCalls)
  <2>1. n + 1 \in 0 .. MaxCalls
    BY Zenon, <1>1, IssueNumber
  <2>2. Append(pending, n + 1) \in Seq(0 .. MaxCalls) /\ <<n + 1>> \in Seq(0 .. MaxCalls)
    BY <2>1 DEF TypeOK
  <2> QED
    BY Zenon, <2>2 DEF TypeOK, CallBlocking, ForkBlocking, Send, CallTagged, ForkTagged, Recv
<1>t. tag' \in [Calls -> Nat] /\ forked' \subseteq Calls
  <2>1. Len(pending) \in Nat
    BY DEF TypeOK
  <2> QED
    BY Zenon, <1>1, <1>2, <2>1 DEF TypeOK, Issue
<1>5. CASE Request
  BY Zenon, <1>2, <1>3, <1>4, <1>t, <1>5, Numbers DEF TypeOK, Request
<1>6. CASE RequestTagged
  <2>1. /\ req' \in 0 .. MaxCalls /\ pc' = "accept" /\ b' = b /\ turn' = "dut"
        /\ rspReady' = rspReady
    BY Zenon, <1>1, <1>6, IssueNumber DEF RequestTagged, Advance
  <2> QED
    BY Zenon, <1>2, <1>3, <1>4, <1>t, <2>1 DEF TypeOK
<1>7. CASE Recv
  BY Zenon, <1>2, <1>3, <1>4, <1>t, <1>7, Numbers DEF TypeOK, Recv
<1> QED
  BY Zenon, <1>5, <1>6, <1>7 DEF CallBlocking, ForkBlocking, Send, CallTagged, ForkTagged

\* The waits and joins keep the types.
LEMMA WaitType ==
  ASSUME TypeOK, Joining,
         \/ Jump \/ AwaitAccept \/ DropRequest \/ JoinOrdered \/ AwaitResponse \/ Release
         \/ JoinTagged \/ Poll \/ PollEnd \/ Pause
  PROVE  TypeOK'
<1>1. UNCHANGED <<mode, stalls, n, tag, forked, reqReady, rsp, inside, accepted, taken>>
  BY Zenon DEF Jump, AwaitAccept, DropRequest, AfterAccept, JoinOrdered, AwaitResponse, Release,
     AfterResponse, JoinTagged, Poll, Round, PollEnd, Pause, target, control, static
<1>s. Jump \/ strays' = strays
  BY Zenon DEF AwaitAccept, DropRequest, AfterAccept, JoinOrdered, AwaitResponse, Release,
     AfterResponse, JoinTagged, Poll, Round, PollEnd, Pause, control, static
<1>j. CASE Jump
  <2>1. PICK k \in 0 .. Tags : pending' \in [1 .. k -> {0} \cup forked]
    BY Zenon, <1>j DEF Jump
  <2>2. k \in Nat /\ {0} \cup forked \subseteq 0 .. MaxCalls
    BY Numbers DEF TypeOK
  <2>3. pending' \in [1 .. k -> 0 .. MaxCalls]
    BY Zenon, <2>1, <2>2
  <2>4. pending' \in Seq(0 .. MaxCalls)
    BY Zenon, <2>2, <2>3, ListType
  <2>5. strays + 1 \in Nat
    BY DEF TypeOK
  <2> QED
    BY Zenon, <1>1, <1>j, <2>4, <2>5 DEF TypeOK, Jump, wires, stored
<1>2. b - 1 \in Nat \/ ~ (b > 0)
  BY DEF TypeOK
<1>3. errors + 1 \in Nat
  BY DEF TypeOK
<1>r. rsp # 0 => Append(captured, rsp) \in Seq(1 .. Item)
  BY Numbers DEF TypeOK
<1>4. CASE AwaitAccept
  BY Zenon, <1>1, <1>s, <1>2, <1>3, <1>4
  DEF TypeOK, AwaitAccept, Spin, Expired, Advance, wires, stored, static
<1>5. CASE DropRequest
  BY Zenon, <1>1, <1>5, Numbers DEF TypeOK, DropRequest, AfterAccept, stored, static
<1>6. CASE JoinOrdered
  <2>1. Head(pending) \in 0 .. MaxCalls
    BY Zenon, <1>6, TailFacts, SeqFacts DEF JoinOrdered, TypeOK
  <2> QED
    BY Zenon, <1>1, <1>6, <2>1, Numbers DEF TypeOK, JoinOrdered, stored, static
<1>7. CASE AwaitResponse
  <2>1. dest' \in [0 .. MaxCalls -> 0 .. Item] /\ captured' \in Seq(1 .. Item)
    BY Zenon, <1>7, <1>r DEF TypeOK, AwaitResponse, Spin, stored
  <2> QED
    BY Zenon, <1>1, <1>2, <1>3, <1>7, <2>1
    DEF TypeOK, AwaitResponse, Spin, Expired, Advance, wires, static
<1>8. CASE Release
  <2>1. pending' \in Seq(0 .. MaxCalls)
    <3>1. pending # <<>> => Tail(pending) \in Seq(0 .. MaxCalls)
      BY Zenon, TailFacts DEF TypeOK
    <3> QED
      BY Zenon, <1>8, <3>1 DEF TypeOK, Joining, Release, AfterResponse, Running
  <2>2. pending' # <<>> => Head(pending') \in 0 .. MaxCalls
    BY Zenon, <2>1, TailFacts, SeqFacts
  <2> QED
    BY Zenon, <1>1, <1>8, <2>1, <2>2, Numbers
    DEF TypeOK, Release, AfterResponse, stored, static
<1>9. CASE JoinTagged
  BY Zenon, <1>1, <1>9, Numbers DEF TypeOK, JoinTagged, wires, stored, static
<1>10. CASE Poll
  <2>1. dest' \in [0 .. MaxCalls -> 0 .. Item]
    BY Zenon, <1>10 DEF TypeOK, Poll, Round
  <2>2. DOMAIN pending \subseteq Nat
    BY DEF TypeOK
  <2>3. seen' \subseteq Nat
    BY Zenon, <1>10, <2>2 DEF TypeOK, Poll, Round, Matching
  <2>4. b' \in Nat
    BY Zenon, <1>2, <1>10 DEF TypeOK, Poll, Round
  <2>5. captured' \in Seq(1 .. Item)
    BY Zenon, <1>10, <1>r DEF TypeOK, Poll, Round, Matching
  <2> QED
    BY Zenon, <1>1, <1>10, <2>1, <2>3, <2>4, <2>5 DEF TypeOK, Poll, Round, Advance, static
<1>11. CASE PollEnd
  <2>1. <<>> \in Seq(0 .. MaxCalls)
    OBVIOUS
  <2> QED
    BY Zenon, <1>1, <1>3, <1>11, <2>1 DEF TypeOK, PollEnd, stored, static
<1>12. CASE Pause
  BY Zenon, <1>1, <1>12 DEF TypeOK, Pause, Advance, wires, control, stored, static
<1> QED
  BY Zenon, <1>j, <1>4, <1>5, <1>6, <1>7, <1>8, <1>9, <1>10, <1>11, <1>12

\* What a clock edge does: a request on the wires may be accepted, an offered
\* response is taken if rsp_ready is up, and free wires may show an answer.
LEMMA EdgeEffect ==
  ASSUME TypeOK, Posedge
  PROVE  /\ turn = "dut" /\ turn' = "tb"
         /\ UNCHANGED <<mode, stalls, req, rspReady, pc, stmt, n, pending, seen, now, b, errors,
                        dest, captured, tag, forked, strays>>
         /\ \/ accepted' = accepted
            \/ /\ req \in Calls /\ accepted' = Append(accepted, req)
               /\ mode # "out_of_order" => reqReady
         /\ taken' = IF Takes THEN Append(taken, rsp) ELSE taken
         /\ rsp # 0 /\ ~rspReady => rsp' = rsp
<1>1. /\ turn = "dut" /\ turn' = "tb"
      /\ UNCHANGED <<mode, stalls, req, rspReady, pc, stmt, n, pending, seen, now, b, errors,
                     dest, captured, tag, forked, strays>>
  BY Zenon DEF Posedge, wires, control, stored, static
<1>2. PICK refuse \in {FALSE, stalls} :
        /\ accepted' = IF Accepts(refuse) THEN Append(accepted, req) ELSE accepted
        /\ taken' = IF Takes THEN Append(taken, rsp) ELSE taken
        /\ rsp = 0 \/ Takes \/ rsp' = rsp
  BY Zenon DEF Posedge
<1>3. Accepts(refuse) => req \in Calls /\ (mode # "out_of_order" => reqReady)
  <2>1. Accepts(refuse) => req # 0 /\ (mode # "out_of_order" => reqReady)
    BY Zenon DEF Accepts
  <2>2. req # 0 => req \in Calls
    BY Numbers DEF TypeOK
  <2> QED
    BY Zenon, <2>1, <2>2
<1> QED
  BY Zenon, <1>1, <1>2, <1>3 DEF Takes

\* What the DUT holds after an edge.
LEMMA EdgeHeld ==
  ASSUME TypeOK, Posedge
  PROVE  \E held \in Seq(Calls) :
           /\ \/ held = inside /\ (accepted' = accepted \/ mode = "channel")
              \/ /\ held = Append(inside, req) /\ req \in Calls
                 /\ accepted' = Append(accepted, req)
           /\ \/ rsp' = rsp /\ ~Takes /\ inside' = held
              \/ (rsp = 0 \/ Takes) /\ rsp' = 0 /\ inside' = held
              \/ (rsp = 0 \/ Takes) /\ mode = "channel" /\ rsp' = Item /\ inside' = held
              \/ /\ rsp = 0 \/ Takes
                 /\ mode # "channel"
                 /\ \E i \in 1 .. Len(held) :
                      /\ mode = "blocking" => i = 1
                      /\ rsp' = held[i] /\ inside' = Without(held, i)
<1>1. PICK refuse \in {FALSE, stalls} :
        LET held == IF Accepts(refuse) /\ mode # "channel"
                    THEN Append(inside, req) ELSE inside
        IN /\ accepted' = IF Accepts(refuse) THEN Append(accepted, req) ELSE accepted
           /\ IF rsp = 0 \/ Takes THEN Offer(held) ELSE rsp' = rsp /\ inside' = held
  BY Zenon DEF Posedge
<1> DEFINE held == IF Accepts(refuse) /\ mode # "channel"
                   THEN Append(inside, req) ELSE inside
<1>2. /\ accepted' = IF Accepts(refuse) THEN Append(accepted, req) ELSE accepted
      /\ IF rsp = 0 \/ Takes THEN Offer(held) ELSE rsp' = rsp /\ inside' = held
  BY Zenon, <1>1
<1>3. Accepts(refuse) => req \in Calls
  <2>1. Accepts(refuse) => req # 0
    BY Zenon DEF Accepts
  <2>2. req # 0 => req \in Calls
    BY Numbers DEF TypeOK
  <2> QED
    BY Zenon, <2>1, <2>2
<1>4. held \in Seq(Calls)
  BY Zenon, <1>3, AppendFacts DEF TypeOK
<1>5. \/ held = inside /\ (accepted' = accepted \/ mode = "channel")
      \/ /\ held = Append(inside, req) /\ req \in Calls
         /\ accepted' = Append(accepted, req)
  BY Zenon, <1>2, <1>3
<1> HIDE DEF held
<1>6. /\ Answerable(held) \subseteq 1 .. Len(held)
      /\ mode = "channel" => Answerable(held) = {}
      /\ mode = "blocking" => Answerable(held) \subseteq {1}
  <2>1. DOMAIN held = 1 .. Len(held)
    BY Zenon, <1>4, SeqFacts
  <2>2. mode \in {"blocking", "out_of_order", "channel"}
    BY Zenon, BudgetAssumption DEF TypeOK
  <2>3. CASE mode = "channel"
    BY Zenon, <2>3 DEF Answerable
  <2>4. CASE mode = "blocking"
    BY <2>1, <2>4 DEF Answerable
  <2>5. CASE mode = "out_of_order"
    BY <2>1, <2>5 DEF Answerable
  <2> QED
    BY Zenon, <2>2, <2>3, <2>4, <2>5
<1>7. CASE ~ (rsp = 0 \/ Takes)
  BY Zenon, <1>2, <1>4, <1>5, <1>7
<1>8. CASE rsp = 0 \/ Takes
  <2>1. \/ rsp' = 0 /\ inside' = held
        \/ mode = "channel" /\ rsp' = Item /\ inside' = held
        \/ \E i \in Answerable(held) : rsp' = held[i] /\ inside' = Without(held, i)
    BY Zenon, <1>2, <1>8 DEF Offer
  <2>2. ASSUME NEW i \in Answerable(held), rsp' = held[i], inside' = Without(held, i)
        PROVE  /\ mode # "channel" /\ i \in 1 .. Len(held) /\ (mode = "blocking" => i = 1)
               /\ rsp' = held[i] /\ inside' = Without(held, i)
    BY Zenon, <1>6, <2>2
  <2> QED
    BY Zenon, <1>4, <1>5, <1>8, <2>1, <2>2
<1> QED
  BY Zenon, <1>7, <1>8

\* A clock edge keeps the types.
LEMMA EdgeType == ASSUME TypeOK, Posedge PROVE TypeOK'
<1>1. PICK held \in Seq(Calls) :
        \/ rsp' = rsp /\ inside' = held
        \/ rsp' = 0 /\ inside' = held
        \/ rsp' = Item /\ inside' = held
        \/ \E i \in 1 .. Len(held) : rsp' = held[i] /\ inside' = Without(held, i)
  BY Zenon, EdgeHeld
<1>2. \A i \in 1 .. Len(held) : held[i] \in Calls /\ Without(held, i) \in Seq(Calls)
  BY Zenon, RemoveFacts, SeqFacts
<1>3. rsp' \in 0 .. Item /\ inside' \in Seq(Calls)
  BY Zenon, <1>1, <1>2, Numbers DEF TypeOK
<1>4. accepted' \in Seq(Calls)
  <2>1. accepted \in Seq(Calls)
    BY Zenon DEF TypeOK
  <2>2. req \in Calls => Append(accepted, req) \in Seq(Calls)
    BY Zenon, <2>1, AppendFacts
  <2> QED
    BY Zenon, <2>1, <2>2, EdgeEffect
<1>5. taken' \in Seq(1 .. Item)
  <2>1. rsp # 0 => rsp \in 1 .. Item
    BY Numbers DEF TypeOK
  <2>2. taken \in Seq(1 .. Item)
    BY Zenon DEF TypeOK
  <2>3. rsp \in 1 .. Item => Append(taken, rsp) \in Seq(1 .. Item)
    BY Zenon, <2>2, AppendFacts
  <2> QED
    BY Zenon, <2>1, <2>2, <2>3, EdgeEffect DEF Takes
<1>6. reqReady' \in BOOLEAN
  BY Zenon DEF Posedge
<1> QED
  BY Zenon, <1>3, <1>4, <1>5, <1>6, EdgeEffect DEF TypeOK

-----------------------------------------------------------------------------
\* Requests.

\* The actions of the emitted code, by what they do to the request.
Issues == CallBlocking \/ ForkBlocking \/ Send \/ CallTagged \/ ForkTagged \/ Recv
Waits ==
  \/ Jump \/ AwaitAccept \/ DropRequest \/ JoinOrdered \/ AwaitResponse \/ Release
  \/ JoinTagged \/ Poll \/ PollEnd \/ Pause

\* Issuing presents the new transaction, which was never accepted.
LEMMA IssuePresenting ==
  ASSUME TypeOK, Presenting, Issues
  PROVE  Presenting'
<1>1. PICK s : Issue(s)
  BY Zenon DEF Issues, CallBlocking, ForkBlocking, Send, CallTagged, ForkTagged, Recv
<1>2. /\ n' = n + 1 /\ now' = n + 1 /\ turn = "tb" /\ pc = "idle"
      /\ UNCHANGED <<mode, reqReady, accepted>>
  BY Zenon, <1>1, IssueNumber DEF target
<1>3. /\ n + 1 > 0 /\ n + 1 # 0 /\ n + 1 \notin 1 .. n
      /\ 1 .. n \subseteq 1 .. n + 1
  BY DEF TypeOK
<1>4. Range(accepted) \subseteq 1 .. n /\ req = 0
  BY Zenon, <1>2 DEF Presenting
<1>5. CASE Request /\ mode # "out_of_order"
  BY Zenon, <1>2, <1>3, <1>4, <1>5 DEF Presenting, Request
<1>6. CASE RequestTagged
  BY Zenon, <1>2, <1>3, <1>4, <1>6 DEF Presenting, RequestTagged
<1>7. CASE Recv
  BY Zenon, <1>2, <1>3, <1>4, <1>7 DEF Presenting, Recv
<1> QED
  BY Zenon, <1>5, <1>6, <1>7
  DEF Issues, CallBlocking, ForkBlocking, Send, CallTagged, ForkTagged

\* A wait leaves the request alone, and the edge it is accepted at ends it.
LEMMA WaitPresenting ==
  ASSUME TypeOK, Presenting, Waits
  PROVE  Presenting'
<1>1. UNCHANGED <<mode, n, reqReady, accepted>>
  BY Zenon DEF Waits, Jump, AwaitAccept, DropRequest, AfterAccept, JoinOrdered, AwaitResponse,
     Release, AfterResponse, JoinTagged, Poll, Round, PollEnd, Pause, target, control
<1>2. CASE AwaitAccept
  BY Zenon, <1>1, <1>2 DEF Presenting, AwaitAccept, Spin, Advance, Running, wires
<1>3. CASE DropRequest
  BY Zenon, <1>1, <1>3 DEF Presenting, DropRequest, AfterAccept, Running
<1>4. CASE ~ (AwaitAccept \/ DropRequest)
  <2>1. /\ pc \notin {"request", "accept"} /\ pc' \notin {"request", "accept"}
        /\ req' = req
    BY Zenon, <1>4 DEF Waits, Jump, JoinOrdered, AwaitResponse, Spin, Release, AfterResponse,
       JoinTagged, Poll, Round, PollEnd, Pause, Running, wires, control
  <2> QED
    BY Zenon, <1>1, <2>1 DEF Presenting
<1> QED
  BY Zenon, <1>2, <1>3, <1>4

\* An edge accepts the request on the wires, for the first time.
LEMMA EdgeAccepts ==
  ASSUME TypeOK, Presenting, AcceptedOnce, Posedge
  PROVE  Presenting' /\ AcceptedOnce'
<1>1. CASE accepted' = accepted
  BY Zenon, <1>1, EdgeEffect DEF Presenting, AcceptedOnce
<1>2. CASE accepted' = Append(accepted, req) /\ req \in Calls /\ (mode # "out_of_order" => reqReady)
  <2>1. turn = "dut" /\ req # 0
    BY Zenon, <1>2, EdgeEffect, Numbers
  <2>2. req \notin Range(accepted) /\ pc = "accept" /\ req = n
    BY Zenon, <1>2, <2>1 DEF Presenting
  <2>3. accepted \in Seq(Calls)
    BY Zenon DEF TypeOK
  <2>4. Range(accepted') = Range(accepted) \cup {req} /\ AcceptedOnce'
    <3>1. IsInjective(accepted)
      BY Zenon DEF AcceptedOnce
    <3>2. /\ Range(Append(accepted, req)) = Range(accepted) \cup {req}
          /\ IsInjective(Append(accepted, req))
      BY <1>2, <2>2, <2>3, <3>1, AppendFacts
    <3> QED
      BY Zenon, <1>2, <3>2 DEF AcceptedOnce
  <2>5. req \in 1 .. n
    BY <1>2, <2>2, Numbers
  <2> QED
    BY Zenon, <2>2, <2>4, <2>5, EdgeEffect DEF Presenting
<1> QED
  BY Zenon, <1>1, <1>2, EdgeEffect

\* The join of untagged forks stays at the first of them.
LEMMA JoiningStep ==
  ASSUME TypeOK, Joining, Next
  PROVE  Joining'
<1>1. CASE pc \in {"response", "release"}
  <2>1. AwaitResponse \/ Release \/ Posedge
    BY Zenon, <1>1 DEF Next, CallBlocking, ForkBlocking, Send, CallTagged, ForkTagged, Recv,
       Issue, Jump, AwaitAccept, DropRequest, AfterAccept, JoinOrdered, JoinTagged, Poll, Round,
       PollEnd, Pause, Running
  <2>2. CASE Release
    BY Zenon, <2>2 DEF Joining, Release, AfterResponse
  <2>3. CASE AwaitResponse \/ Posedge
    <3>1. UNCHANGED <<stmt, pending, now>>
      BY Zenon, <2>3 DEF AwaitResponse, Posedge, control
    <3> QED
      BY Zenon, <1>1, <3>1 DEF Joining
  <2> QED
    BY Zenon, <2>1, <2>2, <2>3
<1>2. CASE pc \notin {"response", "release"}
  <2>1. \/ pc' \notin {"response", "release"}
        \/ stmt' # "join"
        \/ JoinOrdered
    BY Zenon, <1>2 DEF Next, CallBlocking, ForkBlocking, Send, CallTagged, ForkTagged, Recv,
       Issue, Request, RequestTagged, Jump, AwaitAccept, Spin, DropRequest, AfterAccept, AwaitResponse,
       Release, AfterResponse, JoinTagged, Poll, Round, PollEnd, Pause, Posedge, Running, control
  <2> QED
    BY Zenon, <2>1 DEF Joining, JoinOrdered
<1> QED
  BY Zenon, <1>1, <1>2

\* The invariants of the requests are inductive.
LEMMA RequestInvariance == Spec => []IInv
<1>1. Init => IInv
  <2> SUFFICES ASSUME Init PROVE IInv
    BY Zenon
  <2>1. TypeOK
    <3>1. <<>> \in Seq(Calls) /\ <<>> \in Seq(1 .. Item) /\ <<>> \in Seq(0 .. MaxCalls)
      OBVIOUS
    <3>2. 0 \in 0 .. Item /\ 0 \in Nat
      BY Numbers
    <3> QED
      BY Zenon, <3>1, <3>2, Numbers DEF Init, TypeOK
  <2>2. Presenting /\ AcceptedOnce /\ Joining
    BY Zenon, EmptyFacts DEF Init, Presenting, AcceptedOnce, Joining
  <2> QED
    BY Zenon, <2>1, <2>2 DEF IInv
<1>2. IInv /\ [Next]_vars => IInv'
  <2> SUFFICES ASSUME IInv, [Next]_vars PROVE IInv'
    BY Zenon
  <2>0. TypeOK /\ Joining /\ Presenting /\ AcceptedOnce
    BY Zenon DEF IInv
  <2>1. CASE Issues \/ Waits
    <3>1. TypeOK'
      BY Zenon, <2>0, <2>1, IssueType, WaitType DEF Issues, Waits
    <3>2. Joining'
      BY Zenon, <2>0, <2>1, JoiningStep DEF Issues, Waits, Next
    <3>3. Presenting'
      BY Zenon, <2>0, <2>1, IssuePresenting, WaitPresenting
    <3>4. accepted' = accepted
      BY Zenon, <2>1 DEF Issues, CallBlocking, ForkBlocking, Send, CallTagged, ForkTagged, Recv,
         Issue, Waits, Jump, AwaitAccept, DropRequest, AfterAccept, JoinOrdered, AwaitResponse,
         Release, AfterResponse, JoinTagged, Poll, Round, PollEnd, Pause, target
    <3> QED
      BY Zenon, <2>0, <3>1, <3>2, <3>3, <3>4 DEF IInv, AcceptedOnce
  <2>2. CASE Posedge
    <3>1. Joining'
      BY Zenon, <2>0, <2>2, JoiningStep DEF Next
    <3> QED
      BY Zenon, <2>0, <2>2, <3>1, EdgeType, EdgeAccepts DEF IInv
  <2>3. CASE UNCHANGED vars
    <3>1. TypeOK'
      BY Zenon, <2>0, <2>3 DEF TypeOK, vars, wires, target, control, stored, static
    <3>2. Joining' /\ Presenting' /\ AcceptedOnce'
      BY Zenon, <2>0, <2>3
      DEF Joining, Presenting, AcceptedOnce, vars, wires, target, control
    <3> QED
      BY Zenon, <3>1, <3>2 DEF IInv
  <2> QED
    BY Zenon, <2>1, <2>2, <2>3 DEF Next, Issues, Waits
<1> QED
  BY <1>1, <1>2, PTL DEF Spec

(* No transaction is duplicated: whatever the budgets and however they run   *)
(* out, a request that bounded_handshake_wait or a one-cycle presentation    *)
(* puts on the wires is accepted at most once.                               *)
THEOREM NoDuplicate == Spec => []AcceptedOnce
  BY RequestInvariance, PTL DEF IInv

-----------------------------------------------------------------------------
\* Responses.

\* Only rsp_ready in a response wait or a poll lets a response go.
LEMMA ReceivingStep ==
  ASSUME IInv, Receiving, Next
  PROVE  Receiving'
<1>0. TypeOK /\ Joining /\ Presenting
  BY Zenon DEF IInv
<1>1. CASE Issues
  <2>1. PICK s : Issue(s)
    BY Zenon, <1>1 DEF Issues, CallBlocking, ForkBlocking, Send, CallTagged, ForkTagged, Recv
  <2>2. turn = "tb" /\ pc = "idle"
    BY Zenon, <1>0, <2>1, IssueNumber
  <2>3. ~rspReady
    BY Zenon, <2>2 DEF Receiving
  <2>4. CASE Recv
    BY Zenon, <2>2, <2>4 DEF Receiving, Recv, Issue
  <2>5. CASE ~Recv
    <3>1. pc' \in {"request", "accept"} /\ rspReady' = rspReady
      BY Zenon, <1>1, <2>5 DEF Issues, CallBlocking, ForkBlocking, Send, CallTagged, ForkTagged,
         Request, RequestTagged
    <3> QED
      BY Zenon, <2>3, <3>1 DEF Receiving
  <2> QED
    BY Zenon, <2>4, <2>5
<1>2. CASE AwaitAccept
  BY Zenon, <1>2 DEF Receiving, AwaitAccept, Spin, Running, wires
<1>3. CASE DropRequest
  <2>1. ~rspReady /\ turn = "tb" /\ UNCHANGED <<mode, turn, pending>>
    BY Zenon, <1>3 DEF Receiving, DropRequest, AfterAccept, Running
  <2> QED
    BY <1>3, <2>1 DEF Receiving, DropRequest, AfterAccept
<1>4. CASE JoinOrdered
  BY Zenon, <1>4 DEF Receiving, JoinOrdered, Running
<1>j. CASE Jump
  BY Zenon, <1>j DEF Receiving, Jump, Running, wires
<1>5. CASE AwaitResponse
  BY Zenon, <1>5 DEF Receiving, AwaitResponse, Spin, Advance, Running, wires, target
<1>6. CASE Release
  <2>1. pc = "release" /\ turn = "tb" /\ UNCHANGED <<mode, turn>>
    BY Zenon, <1>6 DEF Release, AfterResponse, Running
  <2> QED
    <3>1. CASE pc' = "idle"
      BY Zenon, <1>6, <2>1, <3>1 DEF Receiving, Release, AfterResponse
    <3>2. CASE pc' = "response"
      <4>1. stmt = "join" /\ stmt' = stmt /\ rspReady' = rspReady
        BY Zenon, <1>6, <3>2 DEF Release, AfterResponse
      <4> QED
        BY Zenon, <2>1, <3>2, <4>1 DEF Receiving
    <3> QED
      BY Zenon, <1>6, <3>1, <3>2 DEF Release, AfterResponse
<1>7. CASE JoinTagged
  BY Zenon, <1>7 DEF Receiving, JoinTagged, Running, wires
<1>8. CASE Poll
  BY Zenon, <1>8 DEF Receiving, Poll, Round, Running, Matching
<1>9. CASE PollEnd
  BY Zenon, <1>9 DEF Receiving, PollEnd, Running
<1>10. CASE Pause
  BY Zenon, <1>10 DEF Receiving, Pause, Running, wires, control
<1>11. CASE Posedge
  <2>1. turn' = "tb" /\ UNCHANGED <<mode, rspReady, pc, stmt, n, pending, seen, now>>
    BY Zenon, <1>0, <1>11, EdgeEffect
  <2> QED
    BY <2>1 DEF Receiving
<1> QED
  BY Zenon, <1>1, <1>2, <1>3, <1>4, <1>j, <1>5, <1>6, <1>7, <1>8, <1>9, <1>10, <1>11
  DEF Next, Issues

\* Jumps are only ever counted.
LEMMA TextBefore ==
  ASSUME TypeOK, Next, strays' = 0
  PROVE  strays = 0 /\ strays' = strays /\ ~Jump
<1>1. strays' = strays + 1 \/ (strays' = strays /\ (Jump => strays' = strays + 1))
  BY Zenon DEF Next, CallBlocking, ForkBlocking, Send, CallTagged, ForkTagged, Recv,
     Issue, Jump, AwaitAccept, DropRequest, AfterAccept, JoinOrdered, AwaitResponse,
     Release, AfterResponse, JoinTagged, Poll, Round, PollEnd, Pause, Posedge, control, static
<1> QED
  BY <1>1 DEF TypeOK

\* A fork joins the pending ones under the next tag.
LEMMA ForkPending ==
  ASSUME IInv, Pending, strays = 0, Issues
  PROVE  Pending'
<1>0. TypeOK
  BY Zenon DEF IInv
<1>1. PICK s : Issue(s)
  BY Zenon DEF Issues, CallBlocking, ForkBlocking, Send, CallTagged, ForkTagged, Recv
<1>2. n' = n + 1 /\ now' = n + 1 /\ n + 1 \in Calls /\ mode' = mode /\ stmt' = s
  BY Zenon, <1>0, <1>1, IssueNumber
<1>3. n + 1 \notin 1 .. n /\ 1 .. n \subseteq 1 .. n + 1 /\ n + 1 \in 1 .. n + 1
  BY <1>0 DEF TypeOK
<1>4. pending \in Seq(0 .. MaxCalls) /\ n + 1 \notin Range(pending)
  BY Zenon, <1>0, <1>3 DEF TypeOK, Pending
<1>t. tag' = [tag EXCEPT ![n + 1] = Len(pending)] /\ DOMAIN tag = Calls
  BY Zenon, <1>0, <1>1 DEF Issue, TypeOK
<1>5. CASE CallBlocking \/ Send \/ Recv
  <2>1. mode # "out_of_order" /\ pending' = pending
    BY Zenon, <1>5 DEF CallBlocking, Send, Recv
  <2> QED
    BY Zenon, <1>2, <1>3, <1>4, <2>1 DEF Pending
<1>6. CASE ForkBlocking \/ ForkTagged \/ CallTagged
  <2>0. pending' = Append(pending, n + 1)
    <3>1. CASE ForkBlocking \/ ForkTagged
      BY Zenon, <3>1 DEF ForkBlocking, ForkTagged
    <3>2. CASE CallTagged
      <4>1. Append(<<>>, n + 1) = <<n + 1>>
        OBVIOUS
      <4> QED
        BY Zenon, <3>2, <4>1 DEF CallTagged
    <3> QED
      BY Zenon, <1>6, <3>1, <3>2
  <2>1. /\ Len(pending') = Len(pending) + 1 /\ Len(pending) \in Nat
        /\ \A i \in 1 .. Len(pending) : pending'[i] = pending[i]
        /\ pending'[Len(pending) + 1] = n + 1
        /\ Range(pending') = Range(pending) \cup {n + 1}
        /\ IsInjective(pending')
        /\ pending' \in Seq(0 .. MaxCalls)
    <3>1. IsInjective(pending)
      BY Zenon DEF Pending
    <3> QED
      BY Zenon, <1>0, <1>2, <1>4, <2>0, <3>1, ListAppend
  <2>2. Range(pending') \subseteq 1 .. n'
    BY Zenon, <1>2, <1>3, <2>1 DEF Pending
  <2>3. ASSUME mode = "out_of_order", NEW i \in DOMAIN pending'
        PROVE  tag'[pending'[i]] = i - 1
    <3>1. /\ tag' = [tag EXCEPT ![n + 1] = Len(pending)] /\ DOMAIN tag = Calls
      BY Zenon, <1>t
    <3>2. i \in 1 .. Len(pending) \/ i = Len(pending) + 1
      BY <2>1
    <3>3. CASE i = Len(pending) + 1
      <4>1. tag'[pending'[i]] = Len(pending)
        BY Zenon, <1>2, <2>1, <3>1, <3>3
      <4> QED
        BY <2>1, <3>3, <4>1
    <3>4. CASE i \in 1 .. Len(pending)
      <4>1. pending[i] \in Calls /\ pending[i] # n + 1 /\ i \in DOMAIN pending
        <5>0. pending[i] \in Range(pending) /\ pending[i] \in 1 .. n
          BY Zenon, <1>4, <3>4, SeqFacts DEF Pending
        <5>1. pending[i] \in Range(pending) /\ pending[i] \in Calls
          BY <1>0, <5>0, Numbers DEF TypeOK
        <5>2. DOMAIN pending = 1 .. Len(pending)
          BY Zenon, <1>4, SeqFacts
        <5> QED
          BY Zenon, <1>4, <3>4, <5>1, <5>2
      <4>2. tag[pending[i]] = i - 1
        BY Zenon, <2>3, <4>1 DEF Pending
      <4> QED
        BY Zenon, <2>1, <3>1, <3>4, <4>1, <4>2
    <3> QED
      BY Zenon, <3>2, <3>3, <3>4
  <2> QED
    BY Zenon, <1>2, <2>1, <2>2, <2>3 DEF Pending
<1> QED
  BY Zenon, <1>5, <1>6 DEF Issues

\* The pending forks stay apart until their join has served them.
LEMMA PendingStep ==
  ASSUME IInv, Receiving, Pending, Next
  PROVE  Pending'
<1>0. TypeOK /\ Joining
  BY Zenon DEF IInv
<1> SUFFICES ASSUME strays' = 0 PROVE Pending'
  BY Zenon DEF Pending
<1>s. strays = 0 /\ ~Jump
  BY Zenon, <1>0, TextBefore
<1>p. /\ IsInjective(pending) /\ Range(pending) \subseteq 1 .. n
      /\ mode = "out_of_order" => \A i \in DOMAIN pending : tag[pending[i]] = i - 1
  BY Zenon, <1>s DEF Pending
<1>1. CASE Issues
  BY Zenon, <1>s, <1>1, ForkPending
<1>2. CASE Release
  <2>1. pc = "release" /\ UNCHANGED <<mode, n>>
    BY Zenon, <1>2 DEF Release, AfterResponse, Running
  <2>2. mode # "out_of_order"
    BY Zenon, <2>1 DEF Receiving
  <2>3. IsInjective(pending') /\ Range(pending') \subseteq 1 .. n
    <3>1. CASE stmt = "join"
      <4>1. pending # <<>> /\ pending' = Tail(pending)
        BY Zenon, <1>0, <1>2, <2>1, <3>1 DEF Joining, Release, AfterResponse
      <4>2. IsInjective(Tail(pending)) /\ Range(Tail(pending)) \subseteq Range(pending)
        BY Zenon, <1>0, <1>p, <4>1, TailFacts DEF TypeOK
      <4> QED
        BY Zenon, <1>p, <4>1, <4>2
    <3>2. CASE stmt # "join"
      BY Zenon, <1>p, <1>2, <3>2 DEF Release, AfterResponse
    <3> QED
      BY Zenon, <3>1, <3>2
  <2> QED
    BY Zenon, <2>1, <2>2, <2>3 DEF Pending
<1>3. CASE PollEnd
  <2>1. pending' = <<>>
    BY Zenon, <1>3 DEF PollEnd
  <2> QED
    BY Zenon, <2>1, EmptyFacts DEF Pending
<1>4. CASE \/ JoinOrdered \/ JoinTagged \/ DropRequest \/ AwaitAccept \/ AwaitResponse
           \/ Poll \/ Pause \/ Posedge
  <2>1. UNCHANGED <<mode, n, tag, pending>>
    BY Zenon, <1>4 DEF JoinOrdered, JoinTagged, DropRequest, AfterAccept, AwaitAccept,
       AwaitResponse, Poll, Round, Pause, Posedge, control, static
  <2> QED
    BY Zenon, <1>p, <2>1 DEF Pending
<1> QED
  BY Zenon, <1>s, <1>1, <1>2, <1>3, <1>4 DEF Next, Issues

\* Tags tell the pending forks apart.
LEMMA OneTag ==
  ASSUME IInv, Pending, strays = 0, mode = "out_of_order",
         NEW c \in Range(pending), NEW d \in Range(pending), tag[c] = tag[d]
  PROVE  c = d
<1>1. pending \in Seq(0 .. MaxCalls)
  BY Zenon DEF IInv, TypeOK
<1>2. PICK i \in DOMAIN pending : c = pending[i]
  BY Zenon DEF Range
<1>3. PICK j \in DOMAIN pending : d = pending[j]
  BY Zenon DEF Range
<1>4. i - 1 = j - 1
  BY Zenon, <1>2, <1>3 DEF Pending
<1>5. i = j
  BY <1>1, <1>4
<1> QED
  BY Zenon, <1>2, <1>3, <1>5

\* A response is captured by the wait or the round that raises rsp_ready for
\* it, and transferred at the edge that follows.
LEMMA BalanceStep ==
  ASSUME IInv, Receiving, Balance, Next
  PROVE  Balance'
<1>0. TypeOK
  BY Zenon DEF IInv
<1>q. ASSUME turn = "tb", turn' = "tb" \/ ~Takes', UNCHANGED <<captured, taken>>
      PROVE  Balance'
  BY Zenon, <1>q DEF Balance
<1>1. CASE Issues \/ AwaitAccept \/ Pause
  <2>1. Running("idle") \/ Running("request")
    BY Zenon, <1>1 DEF Issues, CallBlocking, ForkBlocking, Send, CallTagged, ForkTagged, Recv,
       Issue, AwaitAccept, Pause
  <2>2. turn = "tb" /\ ~rspReady
    BY Zenon, <2>1 DEF Receiving, Running
  <2>3. turn' = turn \/ rspReady' = rspReady
    BY Zenon, <1>1 DEF Issues, CallBlocking, ForkBlocking, Send, CallTagged, ForkTagged, Recv,
       Request, RequestTagged, AwaitAccept, Pause, wires
  <2>4. UNCHANGED <<captured, taken>>
    BY Zenon, <1>1 DEF Issues, CallBlocking, ForkBlocking, Send, CallTagged, ForkTagged, Recv,
       Issue, AwaitAccept, Spin, Pause, target, control, stored
  <2>5. turn' = "tb" \/ ~rspReady'
    BY <2>2, <2>3
  <2> QED
    BY Zenon, <1>q, <2>2, <2>4, <2>5 DEF Takes
<1>2. CASE Jump \/ DropRequest \/ JoinOrdered \/ Release \/ JoinTagged \/ PollEnd
  <2>1. turn = "tb" /\ UNCHANGED <<turn, captured, taken>>
    BY Zenon, <1>2 DEF Jump, DropRequest, AfterAccept, JoinOrdered, Release, AfterResponse,
       JoinTagged, PollEnd, Running, target, stored
  <2> QED
    BY Zenon, <1>q, <2>1
<1>3. CASE AwaitResponse
  <2>1. /\ turn = "tb" /\ turn' = "dut" /\ pc = "response" /\ UNCHANGED <<rspReady, rsp, taken>>
    BY Zenon, <1>3 DEF AwaitResponse, Running, Spin, Advance, wires, target
  <2>2. CASE rsp = 0
    <3>1. captured' = captured /\ ~Takes'
      BY Zenon, <1>3, <2>1, <2>2 DEF AwaitResponse, Spin, stored, Takes
    <3> QED
      BY Zenon, <1>q, <2>1, <3>1
  <2>3. CASE rsp # 0
    <3>1. captured' = Append(captured, rsp)
      BY Zenon, <1>3, <2>3 DEF AwaitResponse
    <3>2. rspReady /\ captured = taken
      BY Zenon, <2>1 DEF Receiving, Balance
    <3>3. Takes'
      BY Zenon, <2>1, <2>3, <3>2 DEF Takes
    <3> QED
      BY Zenon, <2>1, <3>1, <3>2, <3>3 DEF Balance
  <2> QED
    BY Zenon, <2>2, <2>3
<1>4. CASE Poll
  <2>1. /\ turn = "tb" /\ turn' = "dut" /\ UNCHANGED <<rsp, taken>>
        /\ rspReady' = (Matching # {})
        /\ captured' = IF Matching = {} THEN captured ELSE Append(captured, rsp)
    BY Zenon, <1>4 DEF Poll, Round, Running, Advance, target
  <2>2. CASE Matching = {}
    BY Zenon, <1>q, <2>1, <2>2 DEF Takes
  <2>3. CASE Matching # {}
    <3>1. rsp # 0 /\ captured = taken
      BY Zenon, <2>1, <2>3 DEF Matching, Balance
    <3>2. Takes'
      BY Zenon, <2>1, <2>3, <3>1 DEF Takes
    <3> QED
      BY Zenon, <2>1, <2>3, <3>1, <3>2 DEF Balance
  <2> QED
    BY Zenon, <2>2, <2>3
<1>5. CASE Posedge
  <2>1. /\ turn = "dut" /\ turn' = "tb" /\ captured' = captured
        /\ taken' = IF Takes THEN Append(taken, rsp) ELSE taken
    BY Zenon, <1>0, <1>5, EdgeEffect
  <2>2. turn' # "dut"
    BY Zenon, <2>1
  <2> QED
    BY Zenon, <2>1, <2>2 DEF Balance
<1> QED
  BY Zenon, <1>1, <1>2, <1>3, <1>4, <1>5 DEF Next, Issues

\* The invariants of the responses are inductive.
LEMMA ResponseInvariance == Spec => []CInv
<1>1. Init => CInv
  BY Zenon, EmptyFacts DEF Init, CInv, Receiving, Pending, Balance
<1>2. IInv /\ CInv /\ [Next]_vars => CInv'
  <2> SUFFICES ASSUME IInv, CInv, [Next]_vars PROVE CInv'
    BY Zenon
  <2>0. Receiving /\ Pending /\ Balance
    BY Zenon DEF CInv
  <2>1. CASE Next
    BY Zenon, <2>0, <2>1, ReceivingStep, PendingStep, BalanceStep DEF CInv
  <2>2. CASE UNCHANGED vars
    <3>1. Receiving'
      BY <2>0, <2>2 DEF Receiving, vars, wires, target, control
    <3>2. Pending'
      BY Zenon, <2>0, <2>2 DEF Pending, vars, control, static
    <3>3. Balance'
      BY <2>0, <2>2 DEF Balance, Takes, vars, wires, target, control, stored
    <3> QED
      BY Zenon, <3>1, <3>2, <3>3 DEF CInv
  <2> QED
    BY Zenon, <2>1, <2>2
<1> QED
  BY <1>1, <1>2, RequestInvariance, PTL DEF Spec

(* Between statements, captures and transfers agree, response by response    *)
(* and in order: for any budgets, any latency and any mix of calls, forks,   *)
(* joins and channel accesses, in loops and branches too, no answer is       *)
(* acknowledged that no local captured.                                      *)
THEOREM CapturesMatch == Spec => []CaptureIsTransfer
<1>1. CInv => CaptureIsTransfer
  <2> SUFFICES ASSUME CInv, pc = "idle" PROVE captured = taken
    BY Zenon DEF CaptureIsTransfer
  <2>1. ~Takes
    BY Zenon DEF CInv, Receiving, Takes
  <2> QED
    BY Zenon, <2>1 DEF CInv, Balance
<1> QED
  BY <1>1, ResponseInvariance, PTL

-----------------------------------------------------------------------------
\* Answers.

\* Nothing but the clock edge changes the DUT.
LEMMA TestLeavesTarget ==
  ASSUME Issues \/ Waits
  PROVE  turn = "tb" /\ UNCHANGED <<mode, stalls, reqReady, rsp, inside, accepted, taken>>
<1>1. turn = "tb" /\ UNCHANGED <<mode, stalls, target>>
  BY Zenon DEF Issues, CallBlocking, ForkBlocking, Send, CallTagged, ForkTagged, Recv,
     Issue, Waits, Jump, AwaitAccept, DropRequest, AfterAccept, JoinOrdered, AwaitResponse,
     Release, AfterResponse, JoinTagged, Poll, Round, PollEnd, Pause, Running
<1> QED
  BY Zenon, <1>1 DEF target

\* Errors are only ever counted.
LEMMA NoErrorBefore ==
  ASSUME TypeOK, Next, errors' = 0
  PROVE  errors = 0 /\ errors' = errors
<1>1. errors' = errors \/ errors' = errors + 1
  BY Zenon DEF Next, CallBlocking, ForkBlocking, Send, CallTagged, ForkTagged, Recv,
     Issue, Jump, AwaitAccept, Spin, Expired, DropRequest, AfterAccept, JoinOrdered, AwaitResponse,
     Release, AfterResponse, JoinTagged, Poll, Round, PollEnd, Pause, Posedge, control
<1> QED
  BY <1>1 DEF TypeOK

\* The DUT after an edge, when it answers requests.
LEMMA EdgeMethod ==
  ASSUME IInv, Held, Posedge, mode # "channel"
  PROVE  \E held \in Seq(Calls) :
           /\ IsInjective(held) /\ rsp \notin Range(held)
           /\ Range(held) \subseteq Range(accepted')
           /\ \/ held = inside /\ accepted' = accepted
              \/ /\ held = Append(inside, req) /\ req \in Calls
                 /\ accepted' = Append(accepted, req)
                 /\ Range(held) = Range(inside) \cup {req}
                 /\ Range(accepted') = Range(accepted) \cup {req}
           /\ \/ rsp' = rsp /\ ~Takes /\ inside' = held
              \/ (rsp = 0 \/ Takes) /\ rsp' = 0 /\ inside' = held
              \/ /\ rsp = 0 \/ Takes
                 /\ \E i \in 1 .. Len(held) :
                      /\ mode = "blocking" => i = 1
                      /\ rsp' = held[i] /\ inside' = Without(held, i)
<1>0. TypeOK /\ Presenting
  BY Zenon DEF IInv
<1>1. PICK held \in Seq(Calls) :
        /\ \/ held = inside /\ accepted' = accepted
           \/ held = Append(inside, req) /\ req \in Calls /\ accepted' = Append(accepted, req)
        /\ \/ rsp' = rsp /\ ~Takes /\ inside' = held
           \/ (rsp = 0 \/ Takes) /\ rsp' = 0 /\ inside' = held
           \/ /\ rsp = 0 \/ Takes
              /\ \E i \in 1 .. Len(held) :
                   /\ mode = "blocking" => i = 1
                   /\ rsp' = held[i] /\ inside' = Without(held, i)
  BY Zenon, <1>0, EdgeHeld
<1>2. CASE held = inside /\ accepted' = accepted
  <2>1. IsInjective(held) /\ rsp \notin Range(held) /\ Range(held) \subseteq Range(accepted')
    BY Zenon, <1>2 DEF Held
  <2> QED
    BY Zenon, <1>1, <1>2, <2>1
<1>3. CASE held = Append(inside, req) /\ req \in Calls /\ accepted' = Append(accepted, req)
  <2>1. req \notin Range(accepted)
    BY Zenon, <1>0, <1>3, EdgeEffect, Numbers DEF Presenting
  <2>2. req \notin Range(inside) /\ IsInjective(inside) /\ Range(inside) \subseteq Range(accepted)
    BY Zenon, <2>1 DEF Held
  <2>3. inside \in Seq(Calls) /\ accepted \in Seq(Calls) /\ req \in Calls
    BY Zenon, <1>0, <1>3 DEF TypeOK
  <2>4. /\ Range(Append(inside, req)) = Range(inside) \cup {req}
        /\ IsInjective(Append(inside, req))
        /\ Range(Append(accepted, req)) = Range(accepted) \cup {req}
    BY <2>2, <2>3, AppendFacts
  <2>5. rsp # req
    BY Zenon, <1>3, <2>1, Numbers DEF Held
  <2>6. rsp \notin Range(held)
    BY Zenon, <1>3, <2>4, <2>5 DEF Held
  <2>7. Range(held) \subseteq Range(accepted')
    BY Zenon, <1>3, <2>2, <2>4
  <2> QED
    BY Zenon, <1>1, <1>3, <2>4, <2>6, <2>7
<1> QED
  BY Zenon, <1>1, <1>2, <1>3

\* A method's target holds a request once, between acceptance and answer.
LEMMA HeldStep ==
  ASSUME IInv, Held, Next
  PROVE  Held'
<1>1. CASE Issues \/ Waits
  BY Zenon, <1>1, TestLeavesTarget DEF Held
<1>2. CASE Posedge
  <2> SUFFICES ASSUME mode # "channel"
               PROVE  /\ IsInjective(inside') /\ rsp' \notin Range(inside')
                      /\ Range(inside') \cup ({rsp'} \ {0}) \subseteq Range(accepted')
    <3>1. mode' = mode
      BY Zenon, <1>2 DEF Posedge
    <3> QED
      BY Zenon, <3>1 DEF Held
  <2>1. PICK held \in Seq(Calls) :
           /\ IsInjective(held) /\ rsp \notin Range(held)
           /\ Range(held) \subseteq Range(accepted')
           /\ Range(accepted) \subseteq Range(accepted')
           /\ \/ rsp' = rsp /\ inside' = held
              \/ rsp' = 0 /\ inside' = held
              \/ \E i \in 1 .. Len(held) : rsp' = held[i] /\ inside' = Without(held, i)
    BY Zenon, <1>2, EdgeMethod
  <2>2. CASE rsp' = rsp /\ inside' = held
    BY Zenon, <2>1, <2>2 DEF Held
  <2>3. CASE rsp' = 0 /\ inside' = held
    <3>1. 0 \notin Range(held)
      BY Zenon, <2>1, SeqFacts, Numbers
    <3> QED
      BY Zenon, <2>1, <2>3, <3>1
  <2>4. ASSUME NEW i \in 1 .. Len(held), rsp' = held[i], inside' = Without(held, i)
        PROVE  /\ IsInjective(inside') /\ rsp' \notin Range(inside')
               /\ Range(inside') \cup ({rsp'} \ {0}) \subseteq Range(accepted')
    <3>1. /\ IsInjective(Without(held, i)) /\ held[i] \notin Range(Without(held, i))
          /\ Range(Without(held, i)) \subseteq Range(held)
      BY Zenon, <2>1, RemoveFacts
    <3>2. held[i] \in Range(held)
      BY Zenon, <2>1, SeqFacts
    <3> QED
      BY Zenon, <2>1, <2>4, <3>1, <3>2
  <2> QED
    BY Zenon, <2>1, <2>2, <2>3, <2>4
<1> QED
  BY Zenon, <1>1, <1>2 DEF Next, Issues, Waits

\* A request whose wait succeeded is accepted at the edge that follows.
LEMMA CarriedStep ==
  ASSUME IInv, Carried, Next
  PROVE  Carried'
<1>0. TypeOK /\ Presenting
  BY Zenon DEF IInv
<1> SUFFICES ASSUME mode' = "blocking", errors' = 0, pc' = "accept"
             PROVE  IF turn' = "dut" THEN reqReady' ELSE req' \in Range(accepted')
  BY Zenon DEF Carried
<1>1. errors = 0 /\ errors' = errors
  BY Zenon, <1>0, NoErrorBefore
<1>2. CASE Issues
  <2>1. mode = "blocking"
    BY Zenon, <1>2, TestLeavesTarget
  <2>2. pc' # "accept"
    BY Zenon, <1>2, <2>1 DEF Issues, CallBlocking, ForkBlocking, Send, CallTagged, ForkTagged,
       Recv, Request
  <2> QED
    BY Zenon, <2>2
<1>3. CASE AwaitAccept
  <2>1. reqReady' = reqReady /\ mode = "blocking"
    BY Zenon, <1>3, TestLeavesTarget DEF Waits
  <2>2. reqReady /\ turn' = "dut"
    <3>1. errors' # errors + 1
      BY <1>0, <1>1 DEF TypeOK
    <3> QED
      BY Zenon, <1>3, <2>1, <3>1 DEF AwaitAccept, Running, Spin, Expired, Advance
  <2> QED
    BY <2>1, <2>2
<1>4. CASE Waits /\ ~AwaitAccept
  <2>1. pc' # "accept"
    BY Zenon, <1>4 DEF Waits, Jump, DropRequest, AfterAccept, JoinOrdered, AwaitResponse, Spin, Running,
       Release, AfterResponse, JoinTagged, Poll, Round, PollEnd, Pause, control
  <2> QED
    BY Zenon, <2>1
<1>5. CASE Posedge
  <2>1. turn = "dut" /\ turn' = "tb" /\ UNCHANGED <<mode, req, pc, errors>>
    BY Zenon, <1>0, <1>5, EdgeEffect
  <2>2. reqReady /\ req = n /\ n > 0
    BY Zenon, <1>0, <1>1, <2>1 DEF Carried, Presenting
  <2>3. req \in Calls /\ req # 0
    BY <1>0, <2>2, Numbers DEF TypeOK
  <2>4. accepted' = Append(accepted, req)
    <3>1. \A refuse : Accepts(refuse)
      BY Zenon, <2>1, <2>2, <2>3 DEF Accepts
    <3> QED
      BY Zenon, <1>5, <3>1 DEF Posedge
  <2>5. req \in Range(accepted')
    <3>1. accepted \in Seq(Calls)
      BY Zenon, <1>0 DEF TypeOK
    <3>2. Range(Append(accepted, req)) = Range(accepted) \cup {req}
      BY <2>3, <3>1, AppendFacts
    <3> QED
      BY Zenon, <2>4, <3>2
  <2> QED
    BY Zenon, <2>1, <2>5
<1> QED
  BY Zenon, <1>2, <1>3, <1>4, <1>5 DEF Next, Issues, Waits

\* A tagged request joins the pending forks as it is presented.
LEMMA ForkByTag ==
  ASSUME IInv, ByTag, mode = "out_of_order", errors = 0, strays = 0, Issues
  PROVE  ByTag'
<1>0. TypeOK
  BY Zenon DEF IInv
<1>1. CallTagged \/ ForkTagged
  BY Zenon DEF Issues, CallBlocking, ForkBlocking, Send, Recv
<1>2. PICK s : Issue(s)
  BY Zenon, <1>1 DEF CallTagged, ForkTagged
<1>3. /\ n' = n + 1 /\ n + 1 \in Calls /\ pc = "idle"
      /\ UNCHANGED <<stalls, dest, rsp, inside, accepted>>
  BY Zenon, <1>0, <1>2, IssueNumber DEF target
<1>4. req' = n + 1 /\ pc' = "accept" /\ turn' = "dut"
  BY Zenon, <1>1 DEF CallTagged, ForkTagged, RequestTagged, Advance
<1>5. Range(pending') = Range(pending) \cup {n + 1}
  <2>1. <<n + 1>> = Append(<<>>, n + 1)
    OBVIOUS
  <2>2. pending' = Append(pending, n + 1)
    BY Zenon, <1>1, <2>1 DEF CallTagged, ForkTagged
  <2> QED
    BY Zenon, <1>0, <1>3, <2>2, ListAppend
<1>6. \A c \in 1 .. n + 1 : c = n + 1 \/ c \in 1 .. n
  BY <1>0 DEF TypeOK
<1>7. /\ Range(inside) \subseteq Range(pending)
      /\ rsp # 0 => rsp \in Range(pending)
      /\ \A c \in 1 .. n : c \notin Range(pending) => dest[c] = c
  BY Zenon, <1>3 DEF ByTag
<1>8. \A c \in 1 .. n' : c \notin Range(pending') => dest'[c] = c
  BY Zenon, <1>3, <1>5, <1>6, <1>7
<1> QED
  BY Zenon, <1>3, <1>4, <1>5, <1>7, <1>8 DEF ByTag

\* A round of the tagged join serves the fork whose answer is offered.
LEMMA PollByTag ==
  ASSUME IInv, Receiving, Pending, Held, ByTag, mode = "out_of_order", errors = 0, strays = 0, Poll
  PROVE  ByTag'
<1>0. TypeOK
  BY Zenon DEF IInv
<1> DEFINE hit == {pending[i] : i \in Matching}
<1>1. /\ turn = "tb" /\ pc = "poll" /\ turn' = "dut"
      /\ UNCHANGED <<stalls, pc, n, pending, req, rsp, inside, accepted>>
      /\ rspReady' = (Matching # {}) /\ seen' = seen \cup Matching
      /\ dest' = [c \in 0 .. MaxCalls |->
                    IF \E i \in Matching : pending[i] = c THEN rsp ELSE dest[c]]
  BY Zenon DEF Poll, Round, Running, Advance, target
<1>2. /\ Range(inside) \subseteq Range(pending) \ Served
      /\ rsp # 0 => rsp \in Range(pending) /\ rsp \notin Served
      /\ req # 0 => req \in Range(pending)
      /\ \A c \in 1 .. n : c \notin Range(pending) => dest[c] = c
      /\ \A c \in Served : dest[c] = c
  BY Zenon, <1>1 DEF ByTag
<1>3. /\ Range(pending) \subseteq 0 .. MaxCalls /\ seen \subseteq DOMAIN pending
      /\ Served \subseteq Range(pending)
  <2>1. seen \subseteq DOMAIN pending
    BY Zenon, <1>1 DEF Receiving
  <2>2. Range(pending) \subseteq 0 .. MaxCalls
    BY Zenon, <1>0, SeqFacts DEF TypeOK
  <2> QED
    BY Zenon, <2>1, <2>2 DEF Served, Range
<1>4. \A c \in 1 .. n : c \in 0 .. MaxCalls
  BY <1>0, Numbers DEF TypeOK
<1>5. \A c \in hit : c = rsp /\ rsp # 0 /\ c \in Range(pending)
  <2> SUFFICES ASSUME NEW i \in Matching
               PROVE  pending[i] = rsp /\ rsp # 0 /\ pending[i] \in Range(pending)
    BY Zenon
  <2>1. rsp # 0 /\ i \in DOMAIN pending /\ tag[rsp] = i - 1
    BY Zenon DEF Matching
  <2>2. pending[i] \in Range(pending) /\ tag[pending[i]] = i - 1
    BY Zenon, <2>1 DEF Pending, Range
  <2> QED
    BY Zenon, <1>2, <2>1, <2>2, OneTag
<1>6. rsp # 0 => rsp \in hit
  <2> SUFFICES ASSUME rsp # 0 PROVE \E i \in Matching : rsp = pending[i]
    BY Zenon
  <2>1. PICK i \in DOMAIN pending : rsp = pending[i]
    BY Zenon, <1>2 DEF Range
  <2>2. i \notin seen /\ tag[rsp] = i - 1
    BY Zenon, <1>2, <2>1 DEF Served, Pending
  <2> QED
    BY Zenon, <2>1, <2>2 DEF Matching
<1>7. rsp # 0 => rspReady'
  BY Zenon, <1>1, <1>6
<1>s. Served' = Served \cup hit
  BY Zenon, <1>1 DEF Served
<1>d. \A c \in 0 .. MaxCalls : dest'[c] = IF c \in hit THEN rsp ELSE dest[c]
  BY Zenon, <1>1
<1> HIDE DEF hit
<1>8. \A c \in 1 .. n : c \notin Range(pending) => dest'[c] = c
  BY Zenon, <1>d, <1>2, <1>4, <1>5
<1>9. \A c \in Served' : dest'[c] = c
  BY Zenon, <1>s, <1>d, <1>2, <1>3, <1>5
<1>10. Range(inside) \subseteq Range(pending) \ Served'
  <2>1. mode # "channel"
    BY Zenon
  <2>2. rsp \notin Range(inside)
    BY Zenon, <2>1 DEF Held
  <2> QED
    BY Zenon, <1>s, <1>2, <1>5, <2>2
<1> QED
  BY Zenon, <1>1, <1>2, <1>7, <1>8, <1>9, <1>10 DEF ByTag

\* The join that served every fork leaves the target empty.
LEMMA PollEndByTag ==
  ASSUME IInv, Receiving, ByTag, mode = "out_of_order", errors = 0, errors' = errors, strays = 0,
         PollEnd
  PROVE  ByTag'
<1>0. TypeOK /\ Presenting
  BY Zenon DEF IInv
<1>1. /\ turn = "tb" /\ pc = "poll" /\ pc' = "idle" /\ pending' = <<>>
      /\ UNCHANGED <<n, dest, req, rsp, inside>>
  BY Zenon DEF PollEnd, Running, target, stored
<1>2. Range(pending) = Served
  <2>1. errors' # errors + 1
    BY <1>0 DEF TypeOK
  <2>2. DOMAIN pending = seen
    BY Zenon, <2>1 DEF PollEnd
  <2> QED
    BY Zenon, <2>2 DEF Range, Served
<1>3. req = 0 /\ rsp = 0 /\ Range(inside) = {}
  BY Zenon, <1>0, <1>1, <1>2 DEF ByTag, Presenting
<1>4. \A c \in 1 .. n : dest[c] = c
  BY Zenon, <1>1, <1>2 DEF ByTag
<1> QED
  BY Zenon, <1>1, <1>3, <1>4, EmptyFacts DEF ByTag

\* An edge accepts a pending fork's request, and answers a pending fork.
LEMMA EdgeByTag ==
  ASSUME IInv, Receiving, Pending, Held, ByTag, mode = "out_of_order", errors = 0, strays = 0,
         Posedge
  PROVE  ByTag'
<1>0. TypeOK /\ Presenting
  BY Zenon DEF IInv
<1>1. /\ turn = "dut" /\ turn' = "tb"
      /\ UNCHANGED <<mode, stalls, req, pc, n, pending, seen, tag, dest, errors>>
  BY Zenon, <1>0, EdgeEffect
<1>r. UNCHANGED rspReady
  BY Zenon, <1>0, EdgeEffect
<1> DEFINE open == Range(pending) \ (IF pc = "poll" THEN Served ELSE {})
<1>2. PICK held \in Seq(Calls) :
           /\ \/ held = inside
              \/ req \in Calls /\ Range(held) = Range(inside) \cup {req}
           /\ \/ rsp' = rsp /\ ~Takes /\ inside' = held
              \/ rsp' = 0 /\ inside' = held
              \/ \E i \in 1 .. Len(held) : rsp' = held[i] /\ inside' = Without(held, i)
  <2>1. mode # "channel"
    BY Zenon
  <2> QED
    BY Zenon, <2>1, EdgeMethod
<1>3. Range(inside) \subseteq open /\ (req # 0 => req \in open)
  <2>1. req # 0 => req \in Range(pending) /\ pc # "poll"
    BY Zenon, <1>0 DEF ByTag, Presenting
  <2> QED
    BY Zenon, <2>1 DEF ByTag
<1>4. Range(held) \subseteq open
  BY Zenon, <1>2, <1>3, Numbers
<1>5. rsp # 0 /\ ~Takes => rsp \in open
  <2>1. rsp # 0 => rsp \in Range(pending) /\ (pc = "poll" /\ rsp \in Served => rspReady)
    BY Zenon DEF ByTag
  <2> QED
    BY Zenon, <2>1 DEF Takes
<1> HIDE DEF open
<1>6. Range(inside') \subseteq open /\ (rsp' # 0 => rsp' \in open)
  <2>1. CASE rsp' = rsp /\ ~Takes /\ inside' = held
    BY Zenon, <1>4, <1>5, <2>1
  <2>2. CASE rsp' = 0 /\ inside' = held
    BY Zenon, <1>4, <2>2
  <2>3. ASSUME NEW i \in 1 .. Len(held), rsp' = held[i], inside' = Without(held, i)
        PROVE  Range(inside') \subseteq open /\ rsp' \in open
    <3>1. Range(Without(held, i)) \subseteq Range(held) /\ held[i] \in Range(held)
      BY Zenon, RemoveFacts, SeqFacts
    <3> QED
      BY Zenon, <1>4, <2>3, <3>1
  <2> QED
    BY Zenon, <1>2, <2>1, <2>2, <2>3
<1>7. ASSUME ~stalls, pc = "accept" PROVE req \in Range(accepted')
  <2>1. req = n /\ n > 0
    BY Zenon, <1>0, <1>7 DEF Presenting
  <2>2. req # 0 /\ req \in Calls
    BY <1>0, <2>1, Numbers DEF TypeOK
  <2>3. req \notin Range(accepted) /\ req \in Range(pending)
    BY Zenon, <1>0, <1>1, <2>2 DEF Presenting, ByTag
  <2>4. \A c \in Range(inside) \cup ({rsp} \ {0}) : c \in Range(pending) /\ c # req
    <3>1. Range(inside) \cup ({rsp} \ {0}) \subseteq Range(accepted)
      <4>1. mode # "channel"
        BY Zenon
      <4> QED
        BY Zenon, <4>1 DEF Held
    <3>2. Range(inside) \cup ({rsp} \ {0}) \subseteq Range(pending)
      BY Zenon DEF ByTag
    <3> QED
      BY Zenon, <2>3, <3>1, <3>2
  <2>5. SlotIdle(tag[req])
    BY Zenon, <2>3, <2>4, OneTag DEF SlotIdle
  <2>6. \A refuse \in {FALSE, stalls} : Accepts(refuse)
    <3>1. \A refuse \in {FALSE, stalls} : ~refuse
      BY Zenon, <1>7
    <3> QED
      BY Zenon, <2>2, <2>5, <3>1 DEF Accepts
  <2>7. accepted' = Append(accepted, req)
    BY Zenon, <2>6 DEF Posedge
  <2>8. accepted \in Seq(Calls)
    BY Zenon, <1>0 DEF TypeOK
  <2>9. Range(Append(accepted, req)) = Range(accepted) \cup {req}
    BY <2>2, <2>8, AppendFacts
  <2> QED
    BY Zenon, <2>7, <2>9
<1>8. Range(inside') \subseteq Range(pending) \ (IF pc = "poll" THEN Served ELSE {})
  BY Zenon, <1>6 DEF open
<1>9. rsp' # 0 => rsp' \in Range(pending) /\ ~ (pc = "poll" /\ rsp' \in Served)
  BY Zenon, <1>6 DEF open
<1>10. /\ req # 0 => req \in Range(pending)
       /\ \A c \in 1 .. n : c \notin Range(pending) => dest[c] = c
       /\ pc = "poll" => \A c \in Served : dest[c] = c
  BY Zenon DEF ByTag
<1>s. Served' = Served
  BY Zenon, <1>1 DEF Served
<1>11. ~stalls' /\ pc' = "accept" => req' \in Range(accepted')
  <2>1. ~stalls' => ~stalls
    BY <1>1
  <2> QED
    BY Zenon, <1>1, <1>7, <2>1
<1> QED
  BY Zenon, <1>1, <1>s, <1>8, <1>9, <1>10, <1>11 DEF ByTag

\* Without an error, a tag tells the answers apart.
LEMMA ByTagStep ==
  ASSUME IInv, Receiving, Pending, Held, ByTag, Next
  PROVE  ByTag'
<1>0. TypeOK /\ Presenting
  BY Zenon DEF IInv
<1>m. mode' = mode
  BY Zenon, TestLeavesTarget, <1>0, EdgeEffect DEF Next, Issues, Waits
<1>1. CASE mode # "out_of_order" \/ errors' # 0 \/ strays' # 0
  BY Zenon, <1>1, <1>m DEF ByTag
<1>2. CASE mode = "out_of_order" /\ errors' = 0 /\ strays' = 0
  <2>1. errors = 0 /\ errors' = errors /\ strays = 0 /\ ~Jump
    BY Zenon, <1>0, <1>2, NoErrorBefore, TextBefore
  <2>2. CASE Issues
    BY Zenon, <1>2, <2>1, <2>2, ForkByTag
  <2>3. CASE Poll
    BY Zenon, <1>2, <2>1, <2>3, PollByTag
  <2>4. CASE PollEnd
    BY Zenon, <1>2, <2>1, <2>4, PollEndByTag
  <2>5. CASE Posedge
    BY Zenon, <1>2, <2>1, <2>5, EdgeByTag
  <2>6. CASE AwaitAccept \/ JoinOrdered \/ AwaitResponse \/ Release
    BY Zenon, <1>0, <1>2, <2>6
    DEF AwaitAccept, JoinOrdered, AwaitResponse, Release, AfterResponse, Running, Presenting,
        Receiving
  <2>7. CASE DropRequest
    <3>1. /\ pc = "accept" /\ pc' \in {"poll", "idle"} /\ (pc' = "poll" => seen' = {})
          /\ req' = 0 /\ UNCHANGED <<n, pending, dest, rsp, inside>>
      BY Zenon, <1>2, <2>7 DEF DropRequest, AfterAccept, Running, target, stored
    <3>2. pc' = "poll" => Served' = {}
      BY Zenon, <3>1 DEF Served
    <3> QED
      BY Zenon, <1>2, <2>1, <3>1, <3>2 DEF ByTag
  <2>8. CASE JoinTagged
    <3>1. /\ pc = "idle" /\ pc' = "poll" /\ seen' = {}
          /\ UNCHANGED <<n, pending, dest, req, rsp, inside>>
      BY Zenon, <2>8 DEF JoinTagged, Running, wires, target, stored
    <3>2. Served' = {}
      BY Zenon, <3>1 DEF Served
    <3> QED
      BY Zenon, <1>2, <2>1, <3>1, <3>2 DEF ByTag
  <2>9. CASE Pause
    <3>1. /\ pc = "idle" /\ pc' = "idle"
          /\ UNCHANGED <<n, pending, dest, req, rsp, inside>>
      BY Zenon, <2>9 DEF Pause, Running, wires, target, control, stored
    <3> QED
      BY Zenon, <1>2, <2>1, <3>1 DEF ByTag
  <2> QED
    BY Zenon, <2>2, <2>3, <2>4, <2>5, <2>6, <2>7, <2>8, <2>9, <2>1 DEF Next, Issues
<1> QED
  BY Zenon, <1>1, <1>2

\* The invariants of the answers are inductive.
LEMMA AnswerInvariance == Spec => []AInv
<1>1. Init => AInv
  <2> SUFFICES ASSUME Init PROVE AInv
    BY Zenon
  <2>1. 1 .. n = {}
    BY DEF Init
  <2>2. Range(inside) = {} /\ IsInjective(inside) /\ rsp = 0 /\ pc = "idle" /\ req = 0
    BY Zenon, EmptyFacts DEF Init
  <2> QED
    BY Zenon, <2>1, <2>2 DEF AInv, Held, ByTag, Carried
<1>2. IInv /\ CInv /\ AInv /\ [Next]_vars => AInv'
  <2> SUFFICES ASSUME IInv, CInv, AInv, [Next]_vars PROVE AInv'
    BY Zenon
  <2>0. Receiving /\ Pending /\ Held /\ ByTag /\ Carried
    BY Zenon DEF CInv, AInv
  <2>1. CASE Next
    BY Zenon, <2>0, <2>1, HeldStep, ByTagStep, CarriedStep DEF AInv
  <2>2. CASE UNCHANGED vars
    <3>1. Held' /\ Carried'
      BY <2>0, <2>2 DEF Held, Carried, vars, wires, target, control
    <3>2. ByTag'
      BY <2>0, <2>2 DEF ByTag, Served, vars, wires, target, control, stored, static
    <3> QED
      BY Zenon, <3>1, <3>2 DEF AInv
  <2> QED
    BY Zenon, <2>1, <2>2
<1> QED
  BY <1>1, <1>2, RequestInvariance, ResponseInvariance, PTL DEF Spec

(* While no error has been counted and the code is in the order of its text, *)
(* no request of a method is withdrawn before it is accepted: an untagged    *)
(* one because its wait saw req_ready, a tagged one because the slot of its  *)
(* tag is idle in the one cycle it gets.                                     *)
THEOREM NeverWithdrawn == Spec => RequestKept
<1>1. IInv /\ AInv /\ [Next]_vars
        => [/\ mode # "channel" /\ ~stalls /\ errors' = 0 /\ strays = 0
            /\ req # 0 /\ req' # req
            => req \in Range(accepted)]_vars
  <2> SUFFICES ASSUME IInv, AInv, Next, mode # "channel", ~stalls, errors' = 0, strays = 0,
                      req # 0, req' # req
               PROVE  req \in Range(accepted)
    BY Zenon
  <2>0. TypeOK /\ Presenting /\ ByTag /\ Carried
    BY Zenon DEF IInv, AInv
  <2>1. errors = 0
    BY Zenon, <2>0, NoErrorBefore
  <2>2. pc \in {"request", "accept"}
    BY Zenon, <2>0 DEF Presenting
  <2>3. DropRequest
    BY Zenon, <2>2 DEF Next, CallBlocking, ForkBlocking, Send, CallTagged, ForkTagged, Recv,
       Issue, Jump, AwaitAccept, JoinOrdered, AwaitResponse, Release, AfterResponse, JoinTagged,
       Poll, Round, PollEnd, Pause, Posedge, Running, wires
  <2>4. pc = "accept" /\ turn = "tb"
    BY Zenon, <2>3 DEF DropRequest, AfterAccept, Running
  <2>5. mode \in {"blocking", "out_of_order"}
    BY Zenon, <2>0, BudgetAssumption DEF TypeOK
  <2> QED
    BY Zenon, <2>0, <2>1, <2>4, <2>5 DEF ByTag, Carried
<1> QED
  BY <1>1, RequestInvariance, AnswerInvariance, PTL DEF Spec, RequestKept

-----------------------------------------------------------------------------
\* The order of a `blocking` method.

\* The tallies are numbers.
LEMMA Tallies ==
  ASSUME TypeOK
  PROVE  /\ Len(taken) \in Nat /\ Len(inside) \in Nat /\ Len(pending) \in Nat /\ n \in Nat
         /\ Answered \in Nat /\ Captured \in Nat /\ Joined \in Int
         /\ DOMAIN inside = 1 .. Len(inside) /\ DOMAIN pending = 1 .. Len(pending)
<1>1. /\ Len(taken) \in Nat /\ Len(inside) \in Nat /\ Len(pending) \in Nat /\ n \in Nat
      /\ DOMAIN inside = 1 .. Len(inside) /\ DOMAIN pending = 1 .. Len(pending)
  <2>1. n \in Nat
    BY Numbers DEF TypeOK
  <2> QED
    BY Zenon, <2>1, SeqFacts DEF TypeOK
<1>2. Len(taken) + 1 \in Nat /\ Len(taken) + 0 \in Nat
  BY <1>1
<1>3. Answered \in Nat /\ Captured \in Nat
  BY Zenon, <1>2 DEF Answered, Captured
<1>4. Captured - 1 \in Int /\ Captured - 0 \in Int
  BY <1>3
<1>5. Joined \in Int
  BY Zenon, <1>4 DEF Joined
<1> QED
  BY Zenon, <1>1, <1>3, <1>5

\* While the test runs nothing is being handed over.
LEMMA TestTallies ==
  ASSUME TypeOK, turn = "tb"
  PROVE  /\ Captured = Len(taken)
         /\ ~ (pc = "release" /\ stmt = "join") => Joined = Len(taken)
         /\ pc = "release" /\ stmt = "join" => Joined = Len(taken) - 1
<1>1. Len(taken) + 0 = Len(taken) /\ Len(taken) - 0 = Len(taken)
  BY Tallies
<1>2. Captured = Len(taken)
  BY Zenon, <1>1 DEF Captured
<1> QED
  BY Zenon, <1>1, <1>2 DEF Joined

\* The target stays in order when it is untouched and nothing new is presented.
LEMMA TargetKept ==
  ASSUME OrderedTarget, UNCHANGED <<n, rsp, inside, taken>>, Presented' <=> Presented
  PROVE  OrderedTarget'
<1>1. Answered' = Answered
  BY Zenon DEF Answered
<1>2. (n' - IF Presented' THEN 1 ELSE 0) = n - IF Presented THEN 1 ELSE 0
  BY Zenon
<1> QED
  BY Zenon, <1>1, <1>2 DEF OrderedTarget

\* The test stays in order in a step that captures nothing and serves nothing.
LEMMA TestKept ==
  ASSUME OrderedTest, UNCHANGED <<n, stmt, now, pending, dest>>,
         Captured' = Captured, Joined' = Joined,
         pc' = "idle" => pc = "idle", pc' = "release" <=> pc = "release"
  PROVE  OrderedTest'
<1>1. stmt = "call" => Captured' = n - IF pc' = "release" THEN 0 ELSE 1
  BY Zenon DEF OrderedTest
<1> QED
  BY Zenon, <1>1 DEF OrderedTest

\* A statement begins.
LEMMA IssueOrder ==
  ASSUME IInv, OrderedTarget, OrderedTest, mode = "blocking", ~Mixed, Issues
  PROVE  OrderedTarget' /\ OrderedTest'
<1>0. TypeOK
  BY Zenon DEF IInv
<1>1. CallBlocking \/ ForkBlocking
  BY Zenon DEF Issues, Send, CallTagged, ForkTagged, Recv
<1>2. /\ turn = "tb" /\ pc = "idle" /\ n' = n + 1 /\ now' = n + 1 /\ n + 1 \in Calls
      /\ UNCHANGED <<dest, rsp, inside, taken>>
  <2>1. PICK s : Issue(s)
    BY Zenon, <1>1 DEF CallBlocking, ForkBlocking
  <2> QED
    BY Zenon, <1>0, <2>1, IssueNumber DEF target
<1>3. turn' = "tb" /\ pc' = "request"
  BY Zenon, <1>1, <1>2 DEF CallBlocking, ForkBlocking, Request
<1>4. Captured = Len(taken) /\ Joined = Len(taken)
  BY Zenon, <1>0, <1>2, TestTallies
<1>5. Captured' = Len(taken) /\ Joined' = Len(taken)
  <2>1. Len(taken) + 0 = Len(taken) /\ Len(taken) - 0 = Len(taken)
    BY <1>0, Tallies
  <2>2. Captured' = Len(taken)
    BY Zenon, <1>2, <1>3, <2>1 DEF Captured
  <2> QED
    BY Zenon, <1>3, <2>1, <2>2 DEF Joined
<1>6. OrderedTarget'
  <2>1. Answered' = Answered
    BY Zenon, <1>2 DEF Answered
  <2>2. Answered + Len(inside) = n - 0
    BY Zenon, <1>2 DEF OrderedTarget, Presented
  <2>3. Answered + Len(inside) = (n + 1) - 1
    BY <1>0, <2>2, Tallies
  <2>4. Presented'
    BY Zenon, <1>3 DEF Presented
  <2> QED
    BY Zenon, <1>2, <2>1, <2>3, <2>4 DEF OrderedTarget
<1>7. Len(taken) + Len(pending) = n
  BY Zenon, <1>0, <1>2, <1>4 DEF OrderedTest, TypeOK
<1>8. \A c \in 1 .. Captured' : dest'[c] = c
  BY Zenon, <1>2, <1>4, <1>5 DEF OrderedTest
<1>9. CASE CallBlocking
  <2>1. stmt' = "call" /\ pending = <<>> /\ pending' = <<>>
    BY Zenon, <1>9 DEF CallBlocking, Issue
  <2>2. Captured' = (n + 1) - 1
    BY <1>0, <1>5, <1>7, <2>1, Tallies, EmptyFacts
  <2> QED
    <3>1. Captured' = n' - IF pc' = "release" THEN 0 ELSE 1
      BY Zenon, <1>2, <1>3, <2>2
    <3>2. now' = n' /\ pc' # "idle" /\ \A i \in DOMAIN pending' : pending'[i] = Joined' + i
      BY Zenon, <1>2, <1>3, <2>1, EmptyFacts
    <3> QED
      BY Zenon, <1>6, <1>8, <2>1, <3>1, <3>2 DEF OrderedTest
<1>10. CASE ForkBlocking
  <2>1. stmt' = "fork" /\ pending' = Append(pending, n + 1)
    BY Zenon, <1>10 DEF ForkBlocking, Issue
  <2>3. /\ Len(pending') = Len(pending) + 1 /\ pending' \in Seq(0 .. MaxCalls)
        /\ \A i \in 1 .. Len(pending) : pending'[i] = pending[i]
        /\ pending'[Len(pending) + 1] = n + 1
    BY Zenon, <1>0, <1>2, <2>1, ListAppend
  <2>4. ASSUME NEW i \in DOMAIN pending' PROVE pending'[i] = Joined' + i
    <3>1. i \in 1 .. Len(pending) \/ i = Len(pending) + 1
      BY <1>0, <2>3, Tallies
    <3>2. CASE i \in 1 .. Len(pending)
      BY Zenon, <1>0, <1>4, <1>5, <2>3, <3>2, Tallies DEF OrderedTest
    <3>3. CASE i = Len(pending) + 1
      <4>1. n + 1 = Len(taken) + (Len(pending) + 1)
        BY <1>0, <1>7, Tallies
      <4> QED
        BY Zenon, <1>5, <2>3, <3>3, <4>1
    <3> QED
      BY Zenon, <3>1, <3>2, <3>3
  <2>5. Joined' + Len(pending') = n'
    BY <1>0, <1>2, <1>5, <1>7, <2>3, Tallies
  <2> QED
    BY Zenon, <1>6, <1>8, <2>1, <2>4, <2>5 DEF OrderedTest
<1> QED
  BY Zenon, <1>1, <1>9, <1>10

\* The request side of a statement, and the beginning of a join.
LEMMA PassOrder ==
  ASSUME IInv, Receiving, OrderedTarget, OrderedTest, mode = "blocking",
         errors = 0, errors' = 0,
         AwaitAccept \/ DropRequest \/ JoinOrdered \/ Pause
  PROVE  OrderedTarget' /\ OrderedTest'
<1>0. TypeOK
  BY Zenon DEF IInv
<1>1. turn = "tb" /\ UNCHANGED <<n, pending, dest, rsp, inside, taken>>
  BY Zenon DEF AwaitAccept, Spin, DropRequest, AfterAccept, JoinOrdered, Pause, Running, target,
     control, stored
<1>2. pc \in {"idle", "request", "accept"} /\ pc' \in {"idle", "request", "accept", "response"}
  BY Zenon DEF AwaitAccept, Spin, DropRequest, AfterAccept, JoinOrdered, Pause, Running, control
<1>3. Captured = Len(taken) /\ Joined = Len(taken)
  BY Zenon, <1>0, <1>1, <1>2, TestTallies
<1>4. turn' = "tb" \/ ~Takes'
  <2>1. CASE AwaitAccept \/ Pause
    <3>1. ~rspReady /\ rspReady' = rspReady
      BY Zenon, <2>1 DEF Receiving, AwaitAccept, Pause, Running, wires
    <3>2. ~rspReady'
      BY <3>1
    <3> QED
      BY Zenon, <3>2 DEF Takes
  <2>2. CASE DropRequest \/ JoinOrdered
    BY Zenon, <1>1, <2>2 DEF DropRequest, AfterAccept, JoinOrdered
  <2> QED
    BY Zenon, <2>1, <2>2
<1>5. Captured' = Captured /\ Joined' = Joined
  <2>1. Len(taken) + 0 = Len(taken) /\ Len(taken) - 0 = Len(taken)
    BY <1>0, Tallies
  <2>2. Captured' = Len(taken)
    BY Zenon, <1>1, <1>4, <2>1 DEF Captured
  <2> QED
    BY Zenon, <1>2, <1>3, <2>1, <2>2 DEF Joined
<1>6. OrderedTarget'
  <2>1. Presented' <=> Presented
    <3>1. CASE AwaitAccept
      BY Zenon, <3>1 DEF AwaitAccept, Spin, Presented, Running, Advance
    <3>2. CASE DropRequest \/ JoinOrdered \/ Pause
      BY Zenon, <3>2 DEF DropRequest, AfterAccept, JoinOrdered, Pause, Presented, Running, control
    <3> QED
      BY Zenon, <3>1, <3>2
  <2> QED
    BY Zenon, <1>1, <2>1, TargetKept
<1>7. CASE UNCHANGED <<stmt, now>> /\ (pc' = "idle" => pc = "idle")
  BY Zenon, <1>1, <1>2, <1>5, <1>6, <1>7, TestKept
<1>8. CASE stmt' \in {"none", "join"} /\ stmt # "call"
  <2>1. Joined + Len(pending) = n
    BY Zenon, <1>0, <1>8 DEF OrderedTest, TypeOK
  <2> QED
    BY Zenon, <1>1, <1>5, <1>6, <1>8, <2>1 DEF OrderedTest
<1>9. CASE AwaitAccept \/ Pause
  <2>1. UNCHANGED <<stmt, now>> /\ (pc' = "idle" => pc = "idle")
    BY Zenon, <1>9 DEF AwaitAccept, Spin, Pause, Running, control
  <2> QED
    BY Zenon, <1>7, <2>1
<1>10. CASE DropRequest
  <2>1. \/ UNCHANGED <<stmt, now>> /\ pc' = "response"
        \/ stmt' = "none" /\ stmt # "call"
    BY Zenon, <1>10 DEF DropRequest, AfterAccept
  <2> QED
    BY Zenon, <1>7, <1>8, <2>1
<1>11. CASE JoinOrdered
  <2>1. pc = "idle" /\ stmt' = "join"
    BY Zenon, <1>11 DEF JoinOrdered, Running
  <2>2. stmt # "call"
    BY Zenon, <2>1 DEF OrderedTest
  <2> QED
    BY Zenon, <1>8, <2>1, <2>2
<1> QED
  BY Zenon, <1>9, <1>10, <1>11

\* A response wait captures the answer to the transaction it waits for.
LEMMA CaptureOrder ==
  ASSUME IInv, CInv, OrderedTarget, OrderedTest, mode = "blocking",
         errors = 0, errors' = 0, AwaitResponse
  PROVE  OrderedTarget' /\ OrderedTest'
<1>0. TypeOK /\ Joining /\ Receiving
  BY Zenon DEF IInv, CInv
<1>1. /\ turn = "tb" /\ pc = "response" /\ turn' = "dut"
      /\ UNCHANGED <<n, stmt, now, pending, rsp, inside, taken>>
  BY Zenon DEF AwaitResponse, Spin, Advance, Running, target
<1>2. rspReady /\ rspReady'
  <2>1. rspReady /\ rspReady' = rspReady
    BY Zenon, <1>0, <1>1 DEF Receiving, AwaitResponse, wires
  <2> QED
    BY <2>1
<1>3. Captured = Len(taken) /\ Joined = Len(taken)
  BY Zenon, <1>0, <1>1, TestTallies
<1>4. OrderedTarget'
  <2>1. Presented' <=> Presented
    BY Zenon, <1>1 DEF Presented, AwaitResponse, Spin
  <2> QED
    BY Zenon, <1>1, <2>1, TargetKept
<1>5. CASE rsp = 0
  <2>1. pc' = "response" /\ dest' = dest
    <3>1. errors' # errors + 1
      BY <1>0 DEF TypeOK
    <3> QED
      BY Zenon, <1>1, <1>5, <3>1 DEF AwaitResponse, Spin, Expired, stored
  <2>2. Captured' = Captured /\ Joined' = Joined
    <3>1. Len(taken) + 0 = Len(taken) /\ Len(taken) - 0 = Len(taken)
      BY <1>0, Tallies
    <3>2. Captured' = Len(taken)
      BY Zenon, <1>1, <1>5, <3>1 DEF Captured, Takes
    <3> QED
      BY Zenon, <1>3, <2>1, <3>1, <3>2 DEF Joined
  <2> QED
    BY Zenon, <1>1, <1>4, <2>1, <2>2, TestKept
<1>6. CASE rsp # 0
  <2>1. pc' = "release" /\ dest' = [dest EXCEPT ![now] = rsp]
    BY Zenon, <1>6 DEF AwaitResponse
  <2>2. rsp = Len(taken) + 1
    BY Zenon, <1>6 DEF OrderedTarget
  <2>3. Captured' = Len(taken) + 1
    BY Zenon, <1>1, <1>2, <1>6 DEF Captured, Takes
  <2>4. stmt \in {"call", "join"}
    BY Zenon, <1>0, <1>1 DEF Receiving, OrderedTest
  <2>5. now = Len(taken) + 1
    <3>1. CASE stmt = "call"
      <4>1. now = n /\ Len(taken) = n - 1
        BY Zenon, <1>1, <1>3, <3>1 DEF OrderedTest
      <4> QED
        BY <1>0, <4>1, Tallies
    <3>2. CASE stmt = "join"
      <4>1. pending # <<>> /\ now = Head(pending)
        BY Zenon, <1>0, <1>1, <3>2 DEF Joining
      <4>2. 1 \in DOMAIN pending /\ Head(pending) = pending[1]
        <5>1. pending \in Seq(0 .. MaxCalls)
          BY Zenon, <1>0 DEF TypeOK
        <5> QED
          BY <4>1, <5>1
      <4> QED
        BY Zenon, <1>3, <4>1, <4>2 DEF OrderedTest
    <3> QED
      BY Zenon, <2>4, <3>1, <3>2
  <2>6. \A c \in 1 .. Captured' : dest'[c] = c
    <3> SUFFICES ASSUME NEW c \in 1 .. Len(taken) + 1 PROVE dest'[c] = c
      BY Zenon, <2>3
    <3>1. now \in 0 .. MaxCalls
      BY Zenon, <1>0 DEF TypeOK
    <3>2. now = rsp /\ DOMAIN dest = 0 .. MaxCalls
      BY Zenon, <1>0, <2>2, <2>5 DEF TypeOK
    <3>3. CASE c = now
      BY Zenon, <2>1, <3>1, <3>2, <3>3
    <3>4. CASE c # now
      <4>1. c \in 1 .. Len(taken) /\ c \in 0 .. MaxCalls
        BY <1>0, <2>5, <3>1, <3>4, Tallies, Numbers
      <4>2. dest[c] = c
        BY Zenon, <1>3, <4>1 DEF OrderedTest
      <4> QED
        BY Zenon, <2>1, <3>2, <3>4, <4>1, <4>2
    <3> QED
      BY Zenon, <3>3, <3>4
  <2>7. CASE stmt = "call"
    <3>1. pending' = <<>> /\ now' = n'
      BY Zenon, <1>1, <2>7 DEF OrderedTest
    <3>2. Captured' = n - 0
      <4>1. Len(taken) = n - 1
        BY Zenon, <1>1, <1>3, <2>7 DEF OrderedTest
      <4> QED
        BY <1>0, <2>3, <4>1, Tallies
    <3>3. Captured' = n' - IF pc' = "release" THEN 0 ELSE 1
      BY Zenon, <1>1, <2>1, <3>2
    <3>4. pc' # "idle" /\ \A i \in DOMAIN pending' : pending'[i] = Joined' + i
      BY Zenon, <2>1, <3>1, EmptyFacts
    <3> QED
      BY Zenon, <1>1, <1>4, <2>6, <2>7, <3>1, <3>3, <3>4 DEF OrderedTest
  <2>8. CASE stmt = "join"
    <3>1. Joined' = Joined
      <4>1. (Len(taken) + 1) - 1 = Len(taken)
        BY <1>0, Tallies
      <4> QED
        BY Zenon, <1>1, <1>3, <2>1, <2>3, <2>8, <4>1 DEF Joined
    <3>2. Joined + Len(pending) = n
      BY Zenon, <2>8 DEF OrderedTest
    <3> QED
      BY Zenon, <1>1, <1>4, <2>6, <2>8, <3>1, <3>2 DEF OrderedTest
  <2> QED
    BY Zenon, <2>4, <2>7, <2>8
<1> QED
  BY Zenon, <1>5, <1>6

\* After a capture the join turns to the next fork, and a call is over.
LEMMA ReleaseOrder ==
  ASSUME IInv, CInv, OrderedTarget, OrderedTest, mode = "blocking", Release
  PROVE  OrderedTarget' /\ OrderedTest'
<1>0. TypeOK /\ Joining /\ Receiving
  BY Zenon DEF IInv, CInv
<1>1. /\ turn = "tb" /\ turn' = "tb" /\ pc = "release" /\ pc' \in {"response", "idle"}
      /\ UNCHANGED <<n, dest, rsp, inside, taken>>
  BY Zenon DEF Release, AfterResponse, Running, target, stored
<1>2. OrderedTarget'
  <2>1. Presented' <=> Presented
    BY Zenon, <1>1 DEF Presented
  <2> QED
    BY Zenon, <1>1, <2>1, TargetKept
<1>3. Captured = Len(taken) /\ Captured' = Len(taken) /\ Joined' = Len(taken)
  <2>1. Len(taken) + 0 = Len(taken) /\ Len(taken) - 0 = Len(taken)
    BY <1>0, Tallies
  <2>2. Captured = Len(taken) /\ Captured' = Len(taken)
    BY Zenon, <1>1, <2>1 DEF Captured
  <2> QED
    BY Zenon, <1>1, <2>1, <2>2 DEF Joined
<1>4. \A c \in 1 .. Captured' : dest'[c] = c
  BY Zenon, <1>1, <1>3 DEF OrderedTest
<1>5. stmt \in {"call", "join"}
  BY Zenon, <1>0, <1>1 DEF Receiving, OrderedTest
<1>6. CASE stmt = "call"
  <2>1. stmt' = "none" /\ pending' = <<>>
    BY Zenon, <1>6 DEF Release, AfterResponse, OrderedTest
  <2>2. Len(taken) = n - 0
    BY Zenon, <1>1, <1>3, <1>6 DEF OrderedTest
  <2>3. Joined' + 0 = n
    BY <1>0, <1>3, <2>2, Tallies
  <2>4. Joined' + Len(pending') = n'
    BY Zenon, <1>1, <2>1, <2>3, EmptyFacts
  <2> QED
    BY Zenon, <1>2, <1>4, <2>1, <2>4, EmptyFacts DEF OrderedTest
<1>7. CASE stmt = "join"
  <2>1. pending # <<>> /\ pending' = Tail(pending) /\ stmt' \in {"join", "none"}
    BY Zenon, <1>0, <1>1, <1>7 DEF Joining, Release, AfterResponse
  <2>2. pending \in Seq(0 .. MaxCalls)
    BY Zenon, <1>0 DEF TypeOK
  <2>3. /\ pending' \in Seq(0 .. MaxCalls) /\ Len(pending') = Len(pending) - 1
        /\ \A i \in 1 .. Len(pending') : pending'[i] = pending[i + 1]
    <3>1. /\ Tail(pending) \in Seq(0 .. MaxCalls) /\ Len(Tail(pending)) = Len(pending) - 1
          /\ \A i \in 1 .. Len(Tail(pending)) : Tail(pending)[i] = pending[i + 1]
      BY Zenon, <2>1, <2>2, TailFacts
    <3> QED
      BY Zenon, <2>1, <3>1
  <2>4. Joined = Len(taken) - 1 /\ Joined + Len(pending) = n
    BY Zenon, <1>0, <1>1, <1>7, TestTallies DEF OrderedTest
  <2>5. ASSUME NEW i \in DOMAIN pending' PROVE pending'[i] = Joined' + i
    <3>1. i \in 1 .. Len(pending')
      BY Zenon, <2>3, SeqFacts
    <3>2. i + 1 \in DOMAIN pending /\ (Len(taken) - 1) + (i + 1) = Len(taken) + i
      <4>1. /\ Len(taken) \in Nat /\ Len(pending) \in Nat /\ DOMAIN pending = 1 .. Len(pending)
            /\ i \in 1 .. Len(pending) - 1
        BY Zenon, <1>0, <2>3, <3>1, Tallies
      <4> QED
        BY <4>1
    <3>3. pending'[i] = Joined + (i + 1)
      BY Zenon, <2>3, <3>1, <3>2 DEF OrderedTest
    <3> QED
      BY Zenon, <1>3, <2>4, <3>2, <3>3
  <2>6. Joined' + Len(pending') = n
    BY <1>0, <1>3, <2>3, <2>4, Tallies
  <2> QED
    BY Zenon, <1>1, <1>2, <1>4, <2>1, <2>5, <2>6 DEF OrderedTest
<1> QED
  BY Zenon, <1>5, <1>6, <1>7

\* An edge accepts, answers and hands over in order.
LEMMA EdgeOrder ==
  ASSUME IInv, Held, Carried, OrderedTarget, OrderedTest, mode = "blocking", errors = 0, Posedge
  PROVE  OrderedTarget' /\ OrderedTest'
<1>0. TypeOK /\ Presenting
  BY Zenon DEF IInv
<1>1. /\ turn = "dut" /\ turn' = "tb"
      /\ UNCHANGED <<req, pc, stmt, n, pending, now, dest>>
      /\ taken' = IF Takes THEN Append(taken, rsp) ELSE taken
  BY Zenon, <1>0, EdgeEffect
<1>2. PICK held \in Seq(Calls) :
        /\ \/ held = inside /\ accepted' = accepted
           \/ held = Append(inside, req) /\ req \in Calls /\ accepted' = Append(accepted, req)
        /\ \/ rsp' = rsp /\ ~Takes /\ inside' = held
           \/ (rsp = 0 \/ Takes) /\ rsp' = 0 /\ inside' = held
           \/ /\ rsp = 0 \/ Takes
              /\ 1 \in 1 .. Len(held) /\ rsp' = held[1] /\ inside' = Without(held, 1)
  <2>1. mode # "channel"
    BY Zenon
  <2> QED
    BY Zenon, <2>1, EdgeMethod
<1>3. Len(taken') = Captured /\ taken' \in Seq(1 .. Item)
  <2>1. TypeOK'
    BY Zenon, <1>0, EdgeType
  <2>2. Takes => rsp \in 1 .. Item
    BY <1>0, Numbers DEF TypeOK, Takes
  <2>3. taken \in Seq(1 .. Item)
    BY Zenon, <1>0 DEF TypeOK
  <2>4. Takes => Len(Append(taken, rsp)) = Len(taken) + 1
    BY Zenon, <2>2, <2>3, AppendFacts
  <2>5. Len(taken) = Len(taken) + 0
    BY <1>0, Tallies
  <2> QED
    BY Zenon, <1>1, <2>1, <2>4, <2>5 DEF Captured, TypeOK
<1>4. Captured' = Captured /\ Joined' = Joined
  <2>1. Captured + 0 = Captured
    BY <1>0, Tallies
  <2>2. Captured' = Captured
    BY Zenon, <1>1, <1>3, <2>1 DEF Captured
  <2> QED
    BY Zenon, <1>1, <2>2 DEF Joined
<1>5. OrderedTest'
  BY Zenon, <1>1, <1>4, TestKept
<1>6. /\ \A i \in 1 .. Len(held) : held[i] = Answered + i
      /\ Answered + Len(held) = n - IF Presented' THEN 1 ELSE 0
      /\ Len(held) \in Nat
  <2>1. CASE held = inside /\ accepted' = accepted
    <3>1. Presented' <=> Presented
      <4>1. ~ (pc = "accept")
        <5>1. ASSUME pc = "accept" PROVE accepted' # accepted
          <6>1. reqReady /\ req = n /\ n > 0
            BY Zenon, <1>0, <1>1, <5>1 DEF Carried, Presenting
          <6>2. req # 0 /\ req \in Calls
            BY <1>0, <6>1, Numbers DEF TypeOK
          <6>3. accepted' = Append(accepted, req)
            <7>1. \A refuse : Accepts(refuse)
              BY Zenon, <6>1, <6>2 DEF Accepts
            <7> QED
              BY Zenon, <7>1 DEF Posedge
          <6>4. accepted \in Seq(Calls) /\ req \notin Range(accepted)
            BY Zenon, <1>0, <1>1, <6>2 DEF TypeOK, Presenting
          <6>5. req \in Range(Append(accepted, req))
            BY <6>2, <6>4, AppendFacts
          <6> QED
            BY Zenon, <6>3, <6>4, <6>5
        <5> QED
          BY Zenon, <2>1, <5>1
      <4> QED
        BY Zenon, <1>1, <4>1 DEF Presented
    <3>2. (n - IF Presented' THEN 1 ELSE 0) = n - IF Presented THEN 1 ELSE 0
      BY Zenon, <3>1
    <3> QED
      BY Zenon, <1>0, <2>1, <3>2, Tallies DEF OrderedTarget
  <2>2. CASE held = Append(inside, req) /\ req \in Calls /\ accepted' = Append(accepted, req)
    <3>1. req # 0 /\ pc = "accept" /\ req = n
      <4>1. req # 0
        BY Zenon, <2>2, Numbers
      <4>2. pc \in {"request", "accept"} /\ req = n
        BY Zenon, <1>0, <4>1 DEF Presenting
      <4>3. pc # "request"
        <5>1. ASSUME pc = "request" PROVE accepted' = accepted
          <6>1. ~reqReady
            BY Zenon, <1>0, <1>1, <5>1 DEF Presenting
          <6>2. \A refuse : ~Accepts(refuse)
            BY Zenon, <6>1 DEF Accepts
          <6> QED
            BY Zenon, <6>2 DEF Posedge
        <5>2. accepted \in Seq(Calls)
          BY Zenon, <1>0 DEF TypeOK
        <5>3. req \in Range(Append(accepted, req))
          BY <2>2, <5>2, AppendFacts
        <5>4. req \notin Range(accepted)
          BY Zenon, <1>0, <1>1, <4>1 DEF Presenting
        <5> QED
          BY Zenon, <2>2, <5>1, <5>3, <5>4
      <4> QED
        BY Zenon, <4>1, <4>2, <4>3
    <3>2. Presented /\ ~Presented'
      BY Zenon, <1>1, <3>1 DEF Presented
    <3>3. inside \in Seq(Calls)
      BY Zenon, <1>0 DEF TypeOK
    <3>4. /\ Len(held) = Len(inside) + 1
          /\ \A i \in 1 .. Len(inside) : held[i] = inside[i]
          /\ held[Len(inside) + 1] = req
      BY <2>2, <3>3, AppendFacts
    <3>5. Answered + Len(inside) = n - 1
      BY Zenon, <3>2 DEF OrderedTarget
    <3>t. Answered \in Nat /\ Len(inside) \in Nat /\ n \in Nat
      BY Zenon, <1>0, Tallies
    <3>6. Answered + Len(held) = n - 0 /\ Len(held) \in Nat
      BY <3>t, <3>4, <3>5
    <3>7. ASSUME NEW i \in 1 .. Len(held) PROVE held[i] = Answered + i
      <4>1. i \in 1 .. Len(inside) \/ i = Len(inside) + 1
        BY <3>t, <3>4
      <4>2. CASE i \in 1 .. Len(inside)
        BY Zenon, <1>0, <3>4, <4>2, Tallies DEF OrderedTarget
      <4>3. CASE i = Len(inside) + 1
        <5>1. n = Answered + (Len(inside) + 1)
          BY <3>t, <3>5
        <5> QED
          BY Zenon, <3>1, <3>4, <4>3, <5>1
      <4> QED
        BY Zenon, <4>1, <4>2, <4>3
    <3> QED
      BY Zenon, <3>2, <3>6, <3>7
  <2> QED
    BY Zenon, <1>2, <2>1, <2>2
<1>7. DOMAIN held = 1 .. Len(held) /\ Answered \in Nat /\ Len(taken) \in Nat
  BY Zenon, <1>0, SeqFacts, Tallies
<1>8. CASE rsp' = rsp /\ ~Takes /\ inside' = held
  <2>1. Answered' = Answered /\ Len(taken') = Len(taken)
    BY Zenon, <1>1, <1>8 DEF Answered
  <2> QED
    BY Zenon, <1>1, <1>5, <1>6, <1>7, <1>8, <2>1 DEF OrderedTarget
<1>9. CASE rsp = 0 \/ Takes
  <2>1. Len(taken') = Answered
    BY Zenon, <1>1, <1>3, <1>9 DEF Answered, Captured, Takes
  <2>2. CASE rsp' = 0 /\ inside' = held
    <3>1. Answered' = Answered
      <4>1. Answered + 0 = Answered
        BY <1>7
      <4> QED
        BY Zenon, <2>1, <2>2, <4>1 DEF Answered
    <3> QED
      BY Zenon, <1>1, <1>5, <1>6, <1>7, <2>2, <3>1 DEF OrderedTarget
  <2>3. CASE 1 \in 1 .. Len(held) /\ rsp' = held[1] /\ inside' = Without(held, 1)
    <3>1. rsp' = Answered + 1 /\ rsp' # 0
      <4>1. rsp' = Answered + 1
        BY Zenon, <1>6, <2>3
      <4> QED
        BY <1>7, <4>1
    <3>2. Answered' = Answered + 1
      BY Zenon, <2>1, <3>1 DEF Answered
    <3>3. /\ Without(held, 1) \in Seq(Calls) /\ Len(Without(held, 1)) = Len(held) - 1
          /\ \A i \in 1 .. Len(Without(held, 1)) :
               Without(held, 1)[i] = held[IF i < 1 THEN i ELSE i + 1]
      BY <2>3, RemoveFacts
    <3>4. DOMAIN inside' = 1 .. Len(inside') /\ Len(inside') = Len(held) - 1
      BY Zenon, <2>3, <3>3, SeqFacts
    <3>5. ASSUME NEW i \in DOMAIN inside' PROVE inside'[i] = Answered' + i
      <4>1. ~ (i < 1) /\ i + 1 \in 1 .. Len(held) /\ Answered + (i + 1) = (Answered + 1) + i
        <5>1. i \in 1 .. Len(held) - 1 /\ Len(held) \in Nat /\ Answered \in Nat
          BY Zenon, <1>6, <1>7, <3>4
        <5> QED
          BY <5>1
      <4>2. inside'[i] = held[i + 1]
        BY Zenon, <2>3, <3>3, <3>4, <4>1
      <4> QED
        BY Zenon, <1>6, <3>2, <4>1, <4>2
    <3>6. Answered' + Len(inside') = n - IF Presented' THEN 1 ELSE 0
      <4>1. Answered' + Len(inside') = Answered + Len(held)
        BY <1>6, <1>7, <3>2, <3>4
      <4> QED
        BY Zenon, <1>6, <4>1
    <3> QED
      BY Zenon, <1>1, <1>5, <2>1, <3>1, <3>5, <3>6 DEF OrderedTarget
  <2> QED
    BY Zenon, <1>2, <1>8, <1>9, <2>2, <2>3
<1> QED
  BY Zenon, <1>2, <1>8, <1>9

\* Without an error, a `blocking` method is served in order.
LEMMA OrderStep ==
  ASSUME ~Mixed, IInv, CInv, AInv, InOrder, Next
  PROVE  InOrder'
<1>0. TypeOK /\ Receiving /\ Held /\ Carried
  BY Zenon DEF IInv, CInv, AInv
<1>m. mode' = mode
  BY Zenon, TestLeavesTarget, <1>0, EdgeEffect DEF Next, Issues, Waits
<1> SUFFICES ASSUME mode = "blocking", errors' = 0, strays' = 0
             PROVE  OrderedTarget' /\ OrderedTest'
  BY Zenon, <1>m DEF InOrder
<1>1. errors = 0 /\ strays = 0 /\ ~Jump
  BY Zenon, <1>0, NoErrorBefore, TextBefore
<1>2. OrderedTarget /\ OrderedTest
  BY Zenon, <1>1 DEF InOrder
<1>3. CASE Issues
  BY Zenon, <1>2, <1>3, IssueOrder
<1>4. CASE AwaitAccept \/ DropRequest \/ JoinOrdered \/ Pause
  BY Zenon, <1>0, <1>1, <1>2, <1>4, PassOrder
<1>5. CASE AwaitResponse
  BY Zenon, <1>1, <1>2, <1>5, CaptureOrder
<1>6. CASE Release
  BY Zenon, <1>2, <1>6, ReleaseOrder
<1>7. CASE Posedge
  BY Zenon, <1>0, <1>1, <1>2, <1>7, EdgeOrder
<1>8. CASE JoinTagged \/ Poll \/ PollEnd
  BY Zenon, <1>0, <1>8 DEF JoinTagged, Poll, Round, PollEnd, Running, Receiving
<1> QED
  BY Zenon, <1>1, <1>3, <1>4, <1>5, <1>6, <1>7, <1>8 DEF Next, Issues

\* The order of a `blocking` method is an invariant, unless calls and forks mix.
LEMMA OrderInvariance == ASSUME ~Mixed PROVE Spec => []InOrder
<1>1. Init => InOrder
  <2> SUFFICES ASSUME Init PROVE OrderedTarget /\ OrderedTest
    BY Zenon DEF InOrder
  <2>1. /\ taken = <<>> /\ inside = <<>> /\ pending = <<>> /\ rsp = 0 /\ turn = "tb"
        /\ pc = "idle" /\ stmt = "none" /\ n = 0
    BY Zenon DEF Init
  <2>2. 0 + 0 = 0 /\ 0 - 0 = 0 /\ 1 .. 0 = {}
    OBVIOUS
  <2>3. Answered = 0 /\ Captured = 0 /\ Joined = 0 /\ ~Presented
    BY Zenon, <2>1, <2>2, EmptyFacts DEF Answered, Captured, Joined, Presented
  <2>4. 0 = 0 - IF Presented THEN 1 ELSE 0
    BY Zenon, <2>2, <2>3
  <2> QED
    BY Zenon, <2>1, <2>2, <2>3, <2>4, EmptyFacts DEF OrderedTarget, OrderedTest
<1>2. IInv /\ CInv /\ AInv /\ InOrder /\ [Next]_vars => InOrder'
  <2>1. ASSUME InOrder, UNCHANGED vars PROVE InOrder'
    BY Zenon, <2>1 DEF InOrder, OrderedTarget, OrderedTest, Answered, Captured, Joined, Presented,
       Takes, vars, wires, target, control, stored, static
  <2> QED
    BY Zenon, <2>1, OrderStep
<1> QED
  BY <1>1, <1>2, RequestInvariance, ResponseInvariance, AnswerInvariance, PTL DEF Spec

(* A test that counted no error and is in the order of its text holds the    *)
(* right answers: every finished call and every joined fork, tagged or not,  *)
(* has the response to its own request, for any number of transactions, tags *)
(* and pending forks and whatever the latency, as long as no direct call of  *)
(* a `blocking` method is made while its forks are pending.                  *)
THEOREM RightAnswers == ASSUME ~Mixed PROVE Spec => []NoSilentMismatch
<1>1. IInv /\ CInv /\ AInv /\ InOrder => NoSilentMismatch
  <2> SUFFICES ASSUME IInv, CInv, AInv, InOrder, mode # "channel", errors = 0, strays = 0,
                      NEW c \in Done
               PROVE  dest[c] = c
    BY Zenon DEF NoSilentMismatch
  <2>0. TypeOK /\ ByTag
    BY Zenon DEF IInv, AInv
  <2>1. c \in 1 .. n /\ c \notin Range(pending) /\ (pc # "idle" => c # now)
    BY Zenon DEF Done
  <2>2. CASE mode = "out_of_order"
    BY Zenon, <2>0, <2>1, <2>2 DEF ByTag
  <2>3. CASE mode = "blocking"
    <3>1. OrderedTest
      BY Zenon, <2>3 DEF InOrder
    <3>2. c \in 1 .. Captured
      <4>t. /\ n \in Nat /\ Captured \in Nat /\ Joined \in Int /\ Len(pending) \in Nat
            /\ DOMAIN pending = 1 .. Len(pending)
        BY Zenon, <2>0, Tallies
      <4>1. CASE stmt = "call"
        <5>1. now = n /\ pc # "idle"
          BY Zenon, <3>1, <4>1 DEF OrderedTest
        <5>2. Captured = n - 0 \/ Captured = n - 1
          BY Zenon, <3>1, <4>1 DEF OrderedTest
        <5>3. c # n
          BY Zenon, <2>1, <5>1
        <5> QED
          BY <2>1, <4>t, <5>2, <5>3
      <4>2. CASE stmt # "call"
        <5>1. Joined + Len(pending) = n
          BY Zenon, <2>0, <3>1, <4>2 DEF OrderedTest, TypeOK
        <5>2. Joined = Captured - 0 \/ Joined = Captured - 1
          BY Zenon DEF Joined
        <5>3. ASSUME c > Joined PROVE FALSE
          <6>1. c - Joined \in DOMAIN pending /\ Joined + (c - Joined) = c
            BY <2>1, <4>t, <5>1, <5>3
          <6>2. pending[c - Joined] = c
            BY Zenon, <3>1, <6>1 DEF OrderedTest
          <6>3. c \in Range(pending)
            BY Zenon, <6>1, <6>2 DEF Range
          <6> QED
            BY Zenon, <2>1, <6>3
        <5>4. ~ (c > Joined)
          BY Zenon, <5>3
        <5> QED
          BY <2>1, <4>t, <5>2, <5>4
      <4> QED
        BY Zenon, <4>1, <4>2
    <3> QED
      BY Zenon, <3>1, <3>2 DEF OrderedTest
  <2>4. mode \in {"blocking", "out_of_order"}
    BY Zenon, <2>0, BudgetAssumption DEF TypeOK
  <2> QED
    BY Zenon, <2>2, <2>3, <2>4
<1> QED
  BY <1>1, RequestInvariance, ResponseInvariance, AnswerInvariance, OrderInvariance, PTL
=============================================================================
