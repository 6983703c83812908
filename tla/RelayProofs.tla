----------------------------- MODULE RelayProofs -----------------------------
(***************************************************************************)
(* Relay for any calls, requests and connections.  Messages travel in      *)
(* rising order, and whatever the companion may still receive, or the      *)
(* gateway from its present connection, is newer than what either has      *)
(* taken (DownOrdered, UpOrdered); while correlations are remembered an    *)
(* identifier stands for one request (Correlated), which is why a call is  *)
(* answered with its own.                                                  *)
(***************************************************************************)
EXTENDS Relay, SequenceTheorems, FiniteSetTheorems, TLAPS

Message == Relayed \cup {Ready}
Members(s) == {s[k] : k \in DOMAIN s}
Dated(s) == {m \in Members(s) : m.type # "ready"}
Rising(s) == \A k, l \in DOMAIN s :
    k < l /\ s[k].type # "ready" /\ s[l].type # "ready" => s[k].seq < s[l].seq

Typed ==
    /\ session \in [relay: Nat, companion: Nat, control: Nat,
                    known: SUBSET Correlation, revoked: BOOLEAN]
    /\ pending \in [Ids -> Nat]
    /\ socket \in [Connection ->
                    {"unused", "challenged", "authenticated", "closing", "closed"}]
    /\ call \in [Calls -> [step: {"idle", "claiming", "waiting", "answered", "failed"},
                           request: Request \cup {None},
                           socket: Connection \cup {0},
                           answer: Request \cup {None}]]
    /\ device \in [companion: Nat, control: Nat, gateway: Nat]
    /\ companion \in [step: {"offline", "proving", "ready", "working"},
                      conn: Connection \cup {0},
                      guard: Nat,
                      job: Relayed \cup {None}]
    /\ down \in [Connection -> Seq(Message)]
    /\ up \in [Connection -> Seq(Upward)]
    /\ control \subseteq [kind: {"status", "revoke"}, seq: Nat]
    /\ expiries \in 0 .. MaxExpiries
    /\ \A c \in Calls : /\ call[c].socket # 0 <=> call[c].step = "claiming"
                        /\ call[c].step \in {"claiming", "waiting", "answered"} =>
                             call[c].request \in Request
    /\ companion.conn = 0 <=> companion.step = "offline"
    /\ companion.job # None <=> companion.step = "working"

\* What a connection's state says of its queues and of the companion.
Sockets ==
    /\ \A n \in Connection : socket[n] \in {"unused", "challenged"} => down[n] = << >>
    /\ \A n \in Connection : socket[n] = "challenged" => Len(up[n]) <= 1
    /\ \A n \in Connection : socket[n] = "authenticated" =>
         \A m \in Members(up[n]) : m.type = "answer"
    /\ companion.conn # 0 /\ socket[companion.conn] \in {"unused", "challenged"} =>
         companion.step = "proving"
    /\ \A n, k \in Authenticated : n = k
    /\ session.revoked => Authenticated = {}

DownOrdered ==
    /\ \A n \in Connection : Rising(down[n]) /\ \A m \in Dated(down[n]) : m.seq <= session.relay
    /\ device.gateway <= session.relay /\ companion.guard <= device.gateway
    /\ companion.conn # 0 => \A m \in Dated(down[companion.conn]) : m.seq > device.gateway

UpOrdered ==
    /\ \A n \in Connection : Rising(up[n]) /\ \A m \in Dated(up[n]) : m.seq <= device.companion
    /\ session.companion <= device.companion
    /\ companion.conn # 0 => \A m \in Dated(up[companion.conn]) :
         /\ m.seq > session.companion
         /\ \A n \in Connection \ {companion.conn} : \A k \in Dated(up[n]) : k.seq < m.seq

\* An awaited identifier has calls with one request, and no newer relay.
Awaited ==
    /\ \A id \in Ids : /\ (pending[id] = 0) <=> (Waiting(id) = {})
                       /\ \A c, d \in Waiting(id) : call[c].request = call[d].request
                       /\ pending[id] <= session.relay
                       /\ pending[id] # 0 => \A n \in Connection : \A m \in Dated(down[n]) :
                            m.request.id = id => m.seq <= pending[id]
    /\ session.revoked => \A id \in Ids : pending[id] = 0

\* Before the first expiry every request under way is the only one remembered
\* under its identifier.
Correlations == {k.request : k \in session.known}
Correlated == expiries = 0 =>
    /\ \A k \in session.known : k.age # "expired"
    /\ \A q, r \in Correlations : q.id = r.id => q = r
    /\ \A n \in Connection : \A m \in Dated(down[n]) : m.request \in Correlations
    /\ \A n \in Connection : \A m \in Dated(up[n]) : m.type = "answer" => m.request \in Correlations
    /\ companion.job # None => companion.job.request \in Correlations
    /\ \A c \in Calls : /\ call[c].step = "waiting" => call[c].request \in Correlations
                        /\ call[c].step = "answered" => call[c].answer = call[c].request

Inv == Typed /\ Sockets /\ DownOrdered /\ UpOrdered /\ Awaited /\ Correlated
-----------------------------------------------------------------------------
(* Queues: what is left of one, and what joins it. *)

Same(m, k) == m.type = k.type /\ m.seq = k.seq /\ m.request = k.request
Rest(s, t) ==
    /\ Rising(s) => Rising(t)
    /\ \A k \in Dated(t) : \E m \in Dated(s) : Same(m, k)
    /\ Len(t) <= Len(s)
    /\ \A k \in Members(t) : \E m \in Members(s) : m.type = k.type

LEMMA RestOfSame == ASSUME NEW M, NEW s \in Seq(M) PROVE Rest(s, s)
BY LenProperties DEF Rest, Same

LEMMA RestOfNone ==
    ASSUME NEW M, NEW s \in Seq(M) PROVE << >> \in Seq(M) /\ Rest(s, << >>) /\ Dated(<< >>) = {}
<1>1. << >> \in Seq(M) /\ Len(<< >>) = 0 /\ DOMAIN << >> = {} /\ Len(s) \in Nat
  <2>1. << >> \in Seq(M) /\ Len(<< >>) = 0
    BY EmptySeq
  <2>2. DOMAIN << >> = 1 .. 0
    BY <2>1, LenProperties
  <2> QED BY <2>1, <2>2, LenProperties
<1> QED BY <1>1 DEF Rest, Rising, Dated, Members

LEMMA RestOfTail ==
    ASSUME NEW M, NEW s \in Seq(M), s # << >>
    PROVE  /\ Tail(s) \in Seq(M) /\ Rest(s, Tail(s)) /\ Head(s) \in Members(s)
           /\ Len(Tail(s)) = Len(s) - 1
           /\ Rising(s) /\ Head(s).type # "ready" =>
                \A m \in Dated(Tail(s)) : Head(s).seq < m.seq
<1>1. /\ Tail(s) \in Seq(M) /\ Len(Tail(s)) = Len(s) - 1 /\ Len(s) \in Nat /\ Len(s) > 0
      /\ DOMAIN s = 1 .. Len(s) /\ DOMAIN Tail(s) = 1 .. Len(s) - 1
      /\ \A i \in 1 .. Len(s) - 1 : Tail(s)[i] = s[i + 1]
      /\ Head(s) = s[1]
  <2>1. Tail(s) \in Seq(M) /\ Len(Tail(s)) = Len(s) - 1
        /\ \A i \in 1 .. Len(Tail(s)) : Tail(s)[i] = s[i + 1]
    BY HeadTailProperties
  <2>2. Len(s) \in Nat /\ DOMAIN s = 1 .. Len(s) /\ Len(s) # 0
    BY LenProperties, EmptySeq
  <2>3. DOMAIN Tail(s) = 1 .. Len(Tail(s))
    BY <2>1, LenProperties
  <2> QED BY <2>1, <2>2, <2>3
<1>2. \A i \in DOMAIN Tail(s) : i + 1 \in DOMAIN s /\ Tail(s)[i] = s[i + 1] /\ i \in Nat /\ i >= 1
  BY <1>1
<1>3. 1 \in DOMAIN s
  BY <1>1
<1>4. Rising(s) => Rising(Tail(s))
  BY <1>1, <1>2 DEF Rising
<1>5. \A k \in Members(Tail(s)) : k \in Members(s)
  BY <1>2 DEF Members
<1>6. Rising(s) /\ Head(s).type # "ready" => \A m \in Dated(Tail(s)) : Head(s).seq < m.seq
  BY <1>1, <1>2, <1>3 DEF Rising, Dated, Members
<1> QED BY <1>1, <1>3, <1>4, <1>5, <1>6 DEF Rest, Same, Dated, Members

LEMMA AppendedIs ==
    ASSUME NEW M, NEW s \in Seq(M), NEW e \in M
    PROVE  /\ Append(s, e) \in Seq(M)
           /\ Members(Append(s, e)) = Members(s) \cup {e}
           /\ Dated(Append(s, e)) \subseteq Dated(s) \cup {e}
           /\ e.type = "ready" => Dated(Append(s, e)) = Dated(s)
           /\ Rising(s) /\ (e.type # "ready" => \A m \in Dated(s) : m.seq < e.seq) =>
                Rising(Append(s, e))
<1> DEFINE t == Append(s, e)
<1>1. /\ t \in Seq(M) /\ Len(t) = Len(s) + 1 /\ Len(s) \in Nat
      /\ \A i \in 1 .. Len(s) : t[i] = s[i]
      /\ t[Len(s) + 1] = e
  BY AppendProperties, LenProperties
<1>2. DOMAIN s = 1 .. Len(s) /\ DOMAIN t = 1 .. Len(s) + 1
  BY <1>1, LenProperties
<1> HIDE DEF t
<1>3. DOMAIN t = DOMAIN s \cup {Len(s) + 1} /\ \A i \in DOMAIN s : t[i] = s[i] /\ i < Len(s) + 1
  BY <1>1, <1>2
<1>4. Members(t) = Members(s) \cup {e}
  BY <1>1, <1>3 DEF Members
<1>5. Dated(t) \subseteq Dated(s) \cup {e} /\ (e.type = "ready" => Dated(t) = Dated(s))
  BY <1>4 DEF Dated
<1>6. ASSUME Rising(s), e.type # "ready" => \A m \in Dated(s) : m.seq < e.seq
      PROVE  Rising(t)
  <2> SUFFICES ASSUME NEW k \in DOMAIN t, NEW l \in DOMAIN t, k < l,
                      t[k].type # "ready", t[l].type # "ready"
               PROVE  t[k].seq < t[l].seq
    BY DEF Rising
  <2>1. k \in DOMAIN s
    BY <1>1, <1>2
  <2>2. CASE l \in DOMAIN s
    BY <1>3, <1>6, <2>1, <2>2 DEF Rising
  <2>3. CASE l = Len(s) + 1
    BY <1>1, <1>3, <1>6, <2>1, <2>3 DEF Dated, Members
  <2> QED BY <1>3, <2>2, <2>3
<1> QED BY <1>1, <1>4, <1>5, <1>6 DEF t

\* A deadline that passes marks relays, and changes nothing else about them.
LEMMA MarkedIs ==
    ASSUME NEW s \in Seq(Message), NEW q,
           NEW t, t = [i \in DOMAIN s |-> IF s[i] # Ready /\ s[i].seq = q
                                          THEN [s[i] EXCEPT !.late = TRUE] ELSE s[i]]
    PROVE  t \in Seq(Message) /\ Rest(s, t)
<1>1. Len(s) \in Nat /\ DOMAIN s = 1 .. Len(s) /\ \A i \in DOMAIN s : s[i] \in Message
  BY LenProperties
<1>2. ASSUME NEW i \in DOMAIN s
      PROVE  /\ t[i] \in Message /\ t[i].type = s[i].type
             /\ t[i].type # "ready" => Same(s[i], t[i])
  <2>1. CASE s[i] = Ready
    BY <1>1, <2>1 DEF Same
  <2>2. CASE s[i] # Ready
    <3>1. s[i] \in Relayed
      BY <1>1, <2>2 DEF Message
    <3>2. [s[i] EXCEPT !.late = TRUE] \in Relayed /\ Same(s[i], [s[i] EXCEPT !.late = TRUE])
          /\ Same(s[i], s[i])
      BY <3>1 DEF Relayed, Same
    <3> QED BY <3>1, <3>2 DEF Message, Same
  <2> QED BY <2>1, <2>2
<1>3. t \in [1 .. Len(s) -> Message] /\ DOMAIN t = DOMAIN s
  BY <1>1, <1>2
<1>4. t \in Seq(Message)
  BY <1>1, <1>3, SeqDef
<1>5. Len(t) = Len(s)
  BY <1>1, <1>3, <1>4, LenProperties
<1>6. ASSUME Rising(s) PROVE Rising(t)
  <2> SUFFICES ASSUME NEW k \in DOMAIN s, NEW l \in DOMAIN s, k < l,
                      t[k].type # "ready", t[l].type # "ready"
               PROVE  t[k].seq < t[l].seq
    BY <1>3 DEF Rising
  <2>1. Same(s[k], t[k]) /\ Same(s[l], t[l])
    BY <1>2
  <2> QED BY <1>6, <2>1 DEF Rising, Same
<1>7. ASSUME NEW k \in Dated(t) PROVE \E m \in Dated(s) : Same(m, k)
  <2>1. PICK i \in DOMAIN s : k = t[i]
    BY <1>3 DEF Dated, Members
  <2>2. s[i].type # "ready" /\ Same(s[i], k)
    BY <1>2, <2>1 DEF Dated
  <2> QED BY <2>2 DEF Dated, Members
<1>8. ASSUME NEW k \in Members(t) PROVE \E m \in Members(s) : m.type = k.type
  <2>1. PICK i \in DOMAIN s : k = t[i]
    BY <1>3 DEF Members
  <2>2. s[i].type = k.type /\ s[i] \in Members(s)
    BY <1>2, <2>1 DEF Members
  <2> QED BY <2>2
<1> QED BY <1>1, <1>4, <1>5, <1>6, <1>7, <1>8 DEF Rest
-----------------------------------------------------------------------------
(* Types *)

LEMMA MessageFields ==
    /\ \A m \in Message : m.type # "ready" <=> m \in Relayed
    /\ \A m \in Relayed : /\ m.type = "relay" /\ m.seq \in Nat /\ m.request \in Request
                          /\ m # None /\ m.late \in BOOLEAN
    /\ Ready \in Message /\ Ready.type = "ready"
BY RelayBounds DEF Message, Relayed, Ready

LEMMA UpwardFields ==
    \A m \in Upward : /\ m.type \in {"challenge", "answer"} /\ m.seq \in Nat
                      /\ m.type = "answer" => m.request \in Request
BY DEF Upward

LEMMA RequestFields == \A r \in Request : r.id \in Ids /\ r # None
BY RelayBounds DEF Request

LEMMA QueuesTyped ==
    ASSUME Typed
    PROVE  /\ \A n \in Connection : /\ down[n] \in Seq(Message) /\ up[n] \in Seq(Upward)
                                    /\ \A m \in Members(down[n]) : m \in Message
                                    /\ \A m \in Members(up[n]) : m \in Upward
                                    /\ Dated(up[n]) = Members(up[n])
           /\ \A n \in Connection : RelaysUnder(n) = Dated(down[n])
<1>1. \A n \in Connection : down[n] \in Seq(Message) /\ up[n] \in Seq(Upward)
  BY DEF Typed
<1>2. ASSUME NEW n \in Connection
      PROVE  /\ \A m \in Members(down[n]) : m \in Message
             /\ \A m \in Members(up[n]) : m \in Upward
  BY <1>1, LenProperties DEF Members
<1>3. \A n \in Connection : Dated(up[n]) = Members(up[n])
  BY <1>2, UpwardFields DEF Dated
<1>4. \A n \in Connection : RelaysUnder(n) = Dated(down[n])
  BY <1>2, MessageFields DEF Dated, RelaysUnder, Members
<1> QED BY <1>1, <1>2, <1>3, <1>4

CallsTyped ==
    /\ pending \in [Ids -> Nat]
    /\ call \in [Calls -> [step: {"idle", "claiming", "waiting", "answered", "failed"},
                           request: Request \cup {None},
                           socket: Connection \cup {0},
                           answer: Request \cup {None}]]
    /\ \A c \in Calls : /\ call[c].socket # 0 <=> call[c].step = "claiming"
                        /\ call[c].step \in {"claiming", "waiting", "answered"} =>
                             call[c].request \in Request

LEMMA FailureTyped ==
    /\ Failure \in [step: {"idle", "claiming", "waiting", "answered", "failed"},
                    request: Request \cup {None}, socket: Connection \cup {0},
                    answer: Request \cup {None}]
    /\ Failure.step = "failed" /\ Failure.socket = 0
BY DEF Failure

LEMMA RejectTyped == ASSUME Typed, RejectPending PROVE CallsTyped'
BY FailureTyped DEF Typed, RejectPending, CallsTyped

LEMMA SettleTyped ==
    ASSUME Typed, NEW id \in Ids, NEW answer \in Request \cup {None}, Settle(id, answer)
    PROVE  CallsTyped'
<1>1. pending' \in [Ids -> Nat]
  BY DEF Settle, Typed
<1>2. ASSUME NEW c \in Calls
      PROVE  /\ call'[c] \in [step: {"idle", "claiming", "waiting", "answered", "failed"},
                               request: Request \cup {None}, socket: Connection \cup {0},
                               answer: Request \cup {None}]
             /\ call'[c].socket # 0 <=> call'[c].step = "claiming"
             /\ call'[c].step \in {"claiming", "waiting", "answered"} => call'[c].request \in Request
  <2>1. call'[c] = IF c \notin Waiting(id) THEN call[c]
                   ELSE IF answer = None THEN Failure
                   ELSE [call[c] EXCEPT !.step = "answered", !.answer = answer]
    BY DEF Settle
  <2>2. CASE c \notin Waiting(id)
    BY <2>1, <2>2 DEF Typed
  <2>3. CASE c \in Waiting(id) /\ answer = None
    BY <2>1, <2>3, FailureTyped
  <2>4. CASE c \in Waiting(id) /\ answer # None
    BY <2>1, <2>4 DEF Typed, Waiting
  <2> QED BY <2>2, <2>3, <2>4
<1>3. DOMAIN call' = Calls /\ call' = [c \in Calls |-> call'[c]]
  BY DEF Settle
<1>4. call' \in [Calls -> [step: {"idle", "claiming", "waiting", "answered", "failed"},
                           request: Request \cup {None}, socket: Connection \cup {0},
                           answer: Request \cup {None}]]
  BY <1>2, <1>3
<1> QED BY <1>1, <1>2, <1>4 DEF CallsTyped

LEMMA ClaimedIs ==
    ASSUME Typed, NEW r \in Request
    PROVE  LET s == Claimed(r) IN
           /\ s \in [relay: Nat, companion: Nat, control: Nat, known: SUBSET Correlation,
                     revoked: BOOLEAN]
           /\ s.relay = session.relay + 1 /\ s.companion = session.companion
           /\ s.control = session.control /\ s.revoked = session.revoked
           /\ s.known = Remembered \cup (IF \E k \in Remembered : k.request = r
                                        THEN {} ELSE {[request |-> r, age |-> "new"]})
<1> DEFINE next == session.relay + 1
<1> DEFINE known == Remembered \cup (IF \E k \in Remembered : k.request = r
                                    THEN {} ELSE {[request |-> r, age |-> "new"]})
<1>1. next \in Nat /\ known \in SUBSET Correlation
  BY DEF Typed, Remembered, Correlation
<1>2. Claimed(r) = [session EXCEPT !.relay = next, !.known = known]
  BY DEF Claimed
<1>3. session \in [relay: Nat, companion: Nat, control: Nat, known: SUBSET Correlation,
                   revoked: BOOLEAN]
  BY DEF Typed
<1> HIDE DEF next, known
<1>4. LET s == Claimed(r) IN
      /\ s \in [relay: Nat, companion: Nat, control: Nat, known: SUBSET Correlation,
                revoked: BOOLEAN]
      /\ s.relay = next /\ s.companion = session.companion
      /\ s.control = session.control /\ s.revoked = session.revoked /\ s.known = known
  BY <1>1, <1>2, <1>3
<1> QED BY <1>4 DEF next, known

\* A call that joins or is sent waits, with the request it had.
Waiter(c) == [call[c] EXCEPT !.step = "waiting", !.socket = 0]

Joined(c) ==
    LET r == call[c].request
    IN  /\ Waiting(r.id) # {} /\ UNCHANGED <<pending, down>>
        /\ call' = [call EXCEPT ![c] = IF \A d \in Waiting(r.id) : call[d].request = r
                                      THEN Waiter(c) ELSE Failure]
Sent(c) ==
    LET r == call[c].request
        n == call[c].socket
    IN  /\ Waiting(r.id) = {} /\ socket[n] = "authenticated"
        /\ call' = [call EXCEPT ![c] = Waiter(c)]
        /\ pending' = [pending EXCEPT ![r.id] = session'.relay]
        /\ down' = [down EXCEPT ![n] = Append(@, RelayOf(r))]
Dropped(c) == call' = [call EXCEPT ![c] = Failure] /\ UNCHANGED <<pending, down>>

LEMMA ForwardCases ==
    ASSUME Typed, NEW c \in Calls, Forward(c)
    PROVE  /\ call[c].step = "claiming" /\ call[c].request \in Request
           /\ call[c].socket \in Connection
           /\ UNCHANGED <<socket, device, companion, up, control, expiries>>
           /\ \/ session' = session /\ Dropped(c)
              \/ /\ ~session.revoked /\ ~Conflicting(call[c].request)
                 /\ session' = Claimed(call[c].request)
                 /\ Joined(c) \/ Sent(c) \/ Dropped(c)
<1>1. call[c].step = "claiming" /\ call[c].request \in Request /\ call[c].socket \in Connection
  BY DEF Forward, Typed
<1>2. UNCHANGED <<socket, device, companion, up, control, expiries>>
  BY DEF Forward, local
<1>3. CASE Refused(c)
  BY <1>1, <1>2, <1>3 DEF Refused, Dropped
<1>4. ASSUME Join(c) PROVE Joined(c)
  BY <1>4 DEF Join, Joined, Waiter
<1>5. ASSUME SendRelay(c) PROVE Sent(c) \/ Dropped(c)
  <2> DEFINE n == call[c].socket
  <2>1. CASE socket[n] = "authenticated"
    <3>1. call' = [call EXCEPT ![c].step = "waiting", ![c].socket = 0]
      BY <1>5, <2>1 DEF SendRelay
    <3>2. call' = [call EXCEPT ![c] = Waiter(c)]
      BY <3>1 DEF Waiter, Typed
    <3> QED BY <1>5, <2>1, <3>2 DEF SendRelay, Sent
  <2>2. CASE socket[n] # "authenticated"
    BY <1>5, <2>2 DEF SendRelay, Dropped
  <2> QED BY <2>1, <2>2
<1> QED BY <1>1, <1>2, <1>3, <1>4, <1>5 DEF Forward

LEMMA WaiterTyped ==
    ASSUME Typed, NEW c \in Calls, call[c].request \in Request
    PROVE  /\ Waiter(c) \in [step: {"idle", "claiming", "waiting", "answered", "failed"},
                             request: Request \cup {None}, socket: Connection \cup {0},
                             answer: Request \cup {None}]
           /\ Waiter(c).step = "waiting" /\ Waiter(c).socket = 0
           /\ Waiter(c).request = call[c].request /\ Waiter(c).answer = call[c].answer
BY DEF Typed, Waiter

LEMMA RelayOfTyped ==
    ASSUME session' \in [relay: Nat, companion: Nat, control: Nat, known: SUBSET Correlation,
                         revoked: BOOLEAN], NEW r \in Request
    PROVE  /\ RelayOf(r) \in Relayed /\ RelayOf(r) \in Message /\ RelayOf(r).type = "relay"
           /\ RelayOf(r).seq = session'.relay /\ RelayOf(r).request = r
BY DEF RelayOf, Relayed, Message

LEMMA ForwardTyped ==
    ASSUME Typed, NEW c \in Calls, Forward(c) PROVE Typed'
<1>1. /\ call[c].request \in Request /\ call[c].request.id \in Ids /\ call[c].socket \in Connection
      /\ UNCHANGED <<socket, device, companion, up, control, expiries>>
  BY ForwardCases, RequestFields
<1>2. session' \in [relay: Nat, companion: Nat, control: Nat, known: SUBSET Correlation,
                    revoked: BOOLEAN]
  <2>1. CASE session' = session
    BY <2>1 DEF Typed
  <2>2. CASE session' = Claimed(call[c].request)
    BY <1>1, <2>2, ClaimedIs
  <2> QED BY <2>1, <2>2, ForwardCases
<1>3. session'.relay \in Nat
  BY <1>2
<1>4. CallsTyped' /\ down' \in [Connection -> Seq(Message)]
  <2>1. CASE Dropped(c)
    BY <2>1, FailureTyped DEF Dropped, Typed, CallsTyped
  <2>2. CASE Joined(c)
    BY <1>1, <2>2, FailureTyped, WaiterTyped DEF Joined, Typed, CallsTyped
  <2>3. CASE Sent(c)
    <3>1. Append(down[call[c].socket], RelayOf(call[c].request)) \in Seq(Message)
      BY <1>1, <1>2, RelayOfTyped, AppendProperties DEF Typed
    <3> QED BY <1>1, <1>3, <2>3, <3>1, WaiterTyped DEF Sent, Typed, CallsTyped
  <2> QED BY <2>1, <2>2, <2>3, ForwardCases
<1> QED BY <1>1, <1>2, <1>4 DEF Typed, CallsTyped

\* A queue loses its head, or everything.
LEMMA DownShrinks ==
    ASSUME Typed, NEW n \in Connection
    PROVE  /\ down[n] # << >> => [down EXCEPT ![n] = Tail(@)] \in [Connection -> Seq(Message)]
           /\ [down EXCEPT ![n] = << >>] \in [Connection -> Seq(Message)]
BY QueuesTyped, RestOfTail, RestOfNone DEF Typed

LEMMA UpShrinks ==
    ASSUME Typed, NEW n \in Connection
    PROVE  /\ up[n] # << >> => /\ [up EXCEPT ![n] = Tail(@)] \in [Connection -> Seq(Upward)]
                               /\ Head(up[n]) \in Upward /\ Head(up[n]).seq \in Nat
           /\ [up EXCEPT ![n] = << >>] \in [Connection -> Seq(Upward)]
           /\ [k \in Connection |-> << >>] \in [Connection -> Seq(Upward)]
<1>1. up[n] \in Seq(Upward) /\ << >> \in Seq(Upward)
  BY QueuesTyped, RestOfNone
<1>2. up[n] # << >> => Tail(up[n]) \in Seq(Upward) /\ Head(up[n]) \in Upward
  BY <1>1, QueuesTyped, RestOfTail
<1> QED BY <1>1, <1>2, UpwardFields DEF Typed

LEMMA MarkTyped ==
    ASSUME Typed, NEW q, MarkLate(q)
    PROVE  down' \in [Connection -> Seq(Message)] /\ \A n \in Connection : Rest(down[n], down'[n])
<1>1. ASSUME NEW n \in Connection PROVE down'[n] \in Seq(Message) /\ Rest(down[n], down'[n])
  BY QueuesTyped, MarkedIs DEF MarkLate
<1> QED BY <1>1 DEF MarkLate

SessionRecord == [relay: Nat, companion: Nat, control: Nat, known: SUBSET Correlation,
                  revoked: BOOLEAN]

LEMMA SessionFields ==
    ASSUME session \in SessionRecord, NEW q \in Nat
    PROVE  /\ [session EXCEPT !.companion = q] \in SessionRecord
           /\ [session EXCEPT !.control = q] \in SessionRecord
           /\ [[session EXCEPT !.control = q] EXCEPT !.revoked = TRUE] \in SessionRecord
BY DEF SessionRecord

\* The gateway's steps keep the types.
LEMMA GatewayTyped ==
    ASSUME Typed, Sockets,
           \/ \E c \in Calls, r \in Request : Arrive(c, r)
           \/ \E id \in Ids : Timeout(id)
           \/ \E m \in UNION { RelaysUnder(n) : n \in Connection } : Overdue(m)
           \/ \E n \in Connection :
                Authenticate(n) \/ TakeAnswer(n) \/ RefuseMessage(n) \/ SocketClosed(n)
           \/ GatewayRestart
    PROVE  Typed'
<1>0. session \in SessionRecord
  BY DEF Typed, SessionRecord
<1>1. ASSUME NEW c \in Calls, NEW r \in Request, Arrive(c, r) PROVE Typed'
  <2>1. CallsTyped'
    <3>1. CASE Authenticated = {}
      <4>1. call' = [call EXCEPT ![c] = Failure] /\ pending' = pending
        BY <1>1, <3>1 DEF Arrive
      <4> QED BY <4>1, FailureTyped DEF Typed, CallsTyped
    <3>2. CASE Authenticated # {}
      <4>1. PICK n \in Authenticated :
              call' = [call EXCEPT ![c].step = "claiming", ![c].request = r, ![c].socket = n]
        BY <1>1, <3>2 DEF Arrive
      <4>2. n \in Connection /\ n # 0
        BY DEF Authenticated, Connection
      <4>3. pending' = pending
        BY <1>1 DEF Arrive
      <4> DEFINE row == [call[c] EXCEPT !.step = "claiming", !.request = r, !.socket = n]
      <4>4. /\ row \in [step: {"idle", "claiming", "waiting", "answered", "failed"},
                        request: Request \cup {None}, socket: Connection \cup {0},
                        answer: Request \cup {None}]
            /\ row.step = "claiming" /\ row.socket = n /\ row.request = r
        BY <4>2 DEF Typed
      <4>5. call' = [call EXCEPT ![c] = row]
        BY <4>1 DEF Typed
      <4> HIDE DEF row
      <4> QED BY <4>2, <4>3, <4>4, <4>5 DEF Typed, CallsTyped
    <3> QED BY <3>1, <3>2
  <2> QED BY <1>1, <2>1 DEF Arrive, Typed, CallsTyped, local
<1>2. ASSUME NEW id \in Ids, Timeout(id) PROVE Typed'
  <2>1. CallsTyped'
    BY <1>2, SettleTyped DEF Timeout
  <2>2. down' \in [Connection -> Seq(Message)]
    BY <1>2, MarkTyped DEF Timeout
  <2>3. UNCHANGED <<session, socket, device, companion, up, control, expiries>>
    BY <1>2 DEF Timeout, local
  <2> QED BY <2>1, <2>2, <2>3 DEF Typed, CallsTyped
<1>3. ASSUME NEW m, Overdue(m) PROVE Typed'
  BY <1>3, MarkTyped DEF Overdue, Typed, gateway, local
<1>4. ASSUME NEW n \in Connection, Authenticate(n) PROVE Typed'
  <2>1. CallsTyped'
    BY <1>4, RejectTyped DEF Authenticate
  <2>2. session' \in SessionRecord /\ up' \in [Connection -> Seq(Upward)]
    BY <1>0, <1>4, UpShrinks, SessionFields DEF Authenticate
  <2>3. Append(down[n], Ready) \in Seq(Message)
    BY QueuesTyped, MessageFields, AppendProperties
  <2>4. down' \in [Connection -> Seq(Message)]
    BY <1>4, <2>3 DEF Authenticate, Typed
  <2>5. socket' \in [Connection -> {"unused", "challenged", "authenticated", "closing", "closed"}]
    BY <1>4 DEF Authenticate, Typed
  <2> QED BY <1>4, <2>1, <2>2, <2>4, <2>5 DEF Authenticate, Typed, CallsTyped, SessionRecord, local
<1>5. ASSUME NEW n \in Connection, TakeAnswer(n) PROVE Typed'
  <2>1. session' \in SessionRecord /\ up' \in [Connection -> Seq(Upward)]
    BY <1>0, <1>5, UpShrinks, SessionFields DEF TakeAnswer
  <2>2. CallsTyped'
    <3>1. CASE UNCHANGED <<pending, call>>
      BY <3>1 DEF Typed, CallsTyped
    <3>2. CASE ~UNCHANGED <<pending, call>>
      <4>1. Settle(Head(up[n]).request.id, Head(up[n]).request)
        BY <1>5, <3>2 DEF TakeAnswer
      <4>2. Head(up[n]) \in Members(up[n])
        BY <1>5, QueuesTyped, RestOfTail DEF TakeAnswer
      <4>3. Head(up[n]).request \in Request
        BY <1>5, <4>2, QueuesTyped, UpwardFields DEF TakeAnswer, Sockets
      <4> QED BY <4>1, <4>3, RequestFields, SettleTyped
    <3> QED BY <3>1, <3>2
  <2> QED BY <1>5, <2>1, <2>2 DEF TakeAnswer, Typed, CallsTyped, SessionRecord, local
<1>6. ASSUME NEW n \in Connection, RefuseMessage(n) PROVE Typed'
  <2>1. session' \in SessionRecord /\ up' \in [Connection -> Seq(Upward)]
    <3>1. Head(up[n]).seq \in Nat /\ session.companion \in Nat
      BY <1>0, <1>6, UpShrinks DEF RefuseMessage, SessionRecord
    <3> DEFINE q == IF Fresh(Head(up[n])) THEN Head(up[n]).seq ELSE session.companion
    <3>2. q \in Nat /\ session' = [session EXCEPT !.companion = q]
      BY <1>6, <3>1 DEF RefuseMessage
    <3> HIDE DEF q
    <3> QED BY <1>0, <1>6, <3>2, UpShrinks, SessionFields DEF RefuseMessage
  <2>2. socket' \in [Connection -> {"unused", "challenged", "authenticated", "closing", "closed"}]
    BY <1>6 DEF RefuseMessage, Typed
  <2> QED BY <1>6, <2>1, <2>2 DEF RefuseMessage, Typed, SessionRecord, local
<1>7. ASSUME NEW n \in Connection, SocketClosed(n) PROVE Typed'
  <2>1. CallsTyped'
    BY <1>7, RejectTyped DEF SocketClosed, Typed, CallsTyped
  <2>2. up' \in [Connection -> Seq(Upward)]
    BY <1>7, UpShrinks DEF SocketClosed
  <2>3. socket' \in [Connection -> {"unused", "challenged", "authenticated", "closing", "closed"}]
    BY <1>7 DEF SocketClosed, Typed
  <2> QED BY <1>7, <2>1, <2>2, <2>3 DEF SocketClosed, Typed, CallsTyped, local
<1>8. ASSUME GatewayRestart PROVE Typed'
  <2>1. CallsTyped'
    BY <1>8, FailureTyped DEF GatewayRestart, Typed, CallsTyped
  <2>2. up' \in [Connection -> Seq(Upward)]
    <3>1. << >> \in Seq(Upward)
      BY EmptySeq
    <3> QED BY <1>8, <3>1 DEF GatewayRestart
  <2>3. socket' \in [Connection -> {"unused", "challenged", "authenticated", "closing", "closed"}]
    BY <1>8 DEF GatewayRestart, Typed
  <2> QED BY <1>8, <2>1, <2>2, <2>3 DEF GatewayRestart, Typed, CallsTyped, local
<1> QED BY <1>1, <1>2, <1>3, <1>4, <1>5, <1>6, <1>7, <1>8

DeviceRecord == [companion: Nat, control: Nat, gateway: Nat]

LEMMA DeviceFields ==
    ASSUME device \in DeviceRecord
    PROVE  /\ device.companion + 1 \in Nat /\ device.control + 1 \in Nat
           /\ \A q \in Nat : /\ [device EXCEPT !.companion = q] \in DeviceRecord
                             /\ [device EXCEPT !.control = q] \in DeviceRecord
                             /\ [device EXCEPT !.gateway = q] \in DeviceRecord
                             /\ [device EXCEPT !.companion = q].companion = q
                             /\ [device EXCEPT !.control = q].control = q
BY DEF DeviceRecord

CompanionOK ==
    /\ companion \in [step: {"offline", "proving", "ready", "working"},
                      conn: Connection \cup {0}, guard: Nat, job: Relayed \cup {None}]
    /\ companion.conn = 0 <=> companion.step = "offline"
    /\ companion.job # None <=> companion.step = "working"

LEMMA OfflineTyped == companion' = Offline => CompanionOK'
BY DEF Offline, CompanionOK

\* The companion's next sequence number, and the message that carries it.
Numbered == device' = [device EXCEPT !.companion = @ + 1]

LEMMA NumberedIs ==
    ASSUME Typed, Numbered
    PROVE  /\ device' \in DeviceRecord /\ device'.companion = device.companion + 1
           /\ device'.gateway = device.gateway /\ device'.companion \in Nat
           /\ device.companion \in Nat
<1> DEFINE next == device.companion + 1
<1>1. next \in Nat /\ device \in DeviceRecord /\ device.companion \in Nat
  BY DEF Typed, DeviceRecord
<1>2. device' = [device EXCEPT !.companion = next]
  BY DEF Numbered
<1> HIDE DEF next
<1>3. device' \in DeviceRecord /\ device'.companion = next /\ device'.gateway = device.gateway
  BY <1>1, <1>2 DEF DeviceRecord
<1> QED BY <1>1, <1>3 DEF next

LEMMA ConnectCases ==
    ASSUME Typed, Connect
    PROVE  /\ companion.step = "offline" /\ ~session.revoked /\ Numbered
           /\ UNCHANGED <<session, pending, call, down, control, expiries>>
           /\ \E n \in Connection :
                /\ socket[n] = "unused"
                /\ socket' = [i \in Connection |->
                        IF i = n THEN "challenged"
                        ELSE IF socket[i] = "challenged" THEN "closing" ELSE socket[i]]
                /\ up' = [up EXCEPT ![n] = <<[type |-> "challenge", seq |-> device'.companion]>>]
                /\ companion' = [companion EXCEPT !.step = "proving", !.conn = n]
<1>1. PICK n \in Connection :
        /\ socket[n] = "unused"
        /\ socket' = [i \in Connection |->
                IF i = n THEN "challenged"
                ELSE IF socket[i] = "challenged" THEN "closing" ELSE socket[i]]
        /\ device' = [device EXCEPT !.companion = @ + 1]
        /\ up' = [up EXCEPT ![n] = <<[type |-> "challenge", seq |-> device'.companion]>>]
        /\ companion' = [companion EXCEPT !.step = "proving", !.conn = n]
  BY DEF Connect
<1>2. companion.step = "offline" /\ ~session.revoked
      /\ UNCHANGED <<session, pending, call, down, control, expiries>>
  BY DEF Connect
<1> QED BY <1>1, <1>2 DEF Numbered

LEMMA AnswerCases ==
    ASSUME Typed, Answer
    PROVE  LET n == companion.conn
               m == [type |-> "answer", seq |-> device'.companion, request |-> companion.job.request]
           IN  /\ companion.step = "working" /\ Numbered /\ n \in Connection
               /\ companion.job \in Relayed
               /\ companion' = [companion EXCEPT !.step = "ready", !.job = None]
               /\ UNCHANGED <<session, pending, socket, call, down, control, expiries>>
               /\ m \in Upward
               /\ up' = [up EXCEPT ![n] = IF n \in Live THEN Append(@, m) ELSE @]
<1>1. companion.step = "working" /\ Numbered
      /\ companion' = [companion EXCEPT !.step = "ready", !.job = None]
      /\ UNCHANGED <<session, pending, socket, call, down, control, expiries>>
  BY DEF Answer, Numbered, gateway
<1>2. companion.conn \in Connection /\ companion.job \in Relayed
  BY <1>1 DEF Typed
<1>3. companion.job.request \in Request /\ device'.companion \in Nat
  BY <1>1, <1>2, MessageFields, NumberedIs
<1> QED BY <1>1, <1>2, <1>3 DEF Answer, Upward

\* So do the companion's, the controls' and the passing of time.
LEMMA CompanionTyped ==
    ASSUME Typed,
           \/ Connect \/ BecomeReady \/ Answer \/ Lose
           \/ \E m \in UNION { RelaysUnder(n) : n \in Connection } : TakeRelay(m) \/ RefuseRelay(m)
    PROVE  Typed'
<1>0. /\ companion.step # "offline" => companion.conn \in Connection
      /\ device \in DeviceRecord
  BY DEF Typed, DeviceRecord
<1>1. CASE Connect
  <2>1. PICK n \in Connection :
          /\ socket' = [i \in Connection |->
                  IF i = n THEN "challenged"
                  ELSE IF socket[i] = "challenged" THEN "closing" ELSE socket[i]]
          /\ up' = [up EXCEPT ![n] = <<[type |-> "challenge", seq |-> device'.companion]>>]
          /\ companion' = [companion EXCEPT !.step = "proving", !.conn = n]
    BY <1>1, ConnectCases
  <2>2. n # 0 /\ companion.step = "offline" /\ companion.job = None
    <3>1. companion.step = "offline"
      BY <1>1, ConnectCases
    <3>2. companion.job = None
      BY <3>1 DEF Typed
    <3> QED BY <3>1, <3>2, RelayBounds DEF Connection
  <2>3. CompanionOK'
    BY <2>1, <2>2 DEF Typed, CompanionOK
  <2>4. device' \in DeviceRecord /\ [type |-> "challenge", seq |-> device'.companion] \in Upward
    <3>1. device' \in DeviceRecord /\ device'.companion \in Nat
      BY <1>1, ConnectCases, NumberedIs
    <3> QED BY <3>1 DEF Upward
  <2>5. up' \in [Connection -> Seq(Upward)]
    <3> DEFINE m == [type |-> "challenge", seq |-> device'.companion]
    <3>1. m \in Upward
      BY <2>4
    <3> HIDE DEF m
    <3>2. <<m>> \in Seq(Upward)
      BY <3>1
    <3>3. up' = [up EXCEPT ![n] = <<m>>]
      BY <2>1 DEF m
    <3> QED BY <3>2, <3>3 DEF Typed
  <2>6. socket' \in [Connection -> {"unused", "challenged", "authenticated", "closing", "closed"}]
    BY <2>1 DEF Typed
  <2>7. UNCHANGED <<session, pending, call, down, control, expiries>>
    BY <1>1, ConnectCases
  <2> QED BY <2>3, <2>4, <2>5, <2>6, <2>7 DEF Typed, CompanionOK, DeviceRecord
<1>2. CASE BecomeReady
  <2>1. CompanionOK'
    BY <1>2 DEF BecomeReady, Typed, CompanionOK
  <2>2. down' \in [Connection -> Seq(Message)]
    BY <1>0, <1>2, DownShrinks DEF BecomeReady, Received
  <2> QED BY <1>2, <2>1, <2>2 DEF BecomeReady, Typed, CompanionOK, gateway
<1>3. CASE Answer
  <2> DEFINE n == companion.conn
  <2> DEFINE m == [type |-> "answer", seq |-> device'.companion, request |-> companion.job.request]
  <2>1. /\ companion.step = "working" /\ Numbered /\ n \in Connection /\ m \in Upward
        /\ companion' = [companion EXCEPT !.step = "ready", !.job = None]
        /\ UNCHANGED <<session, pending, socket, call, down, control, expiries>>
        /\ up' = [up EXCEPT ![n] = IF n \in Live THEN Append(@, m) ELSE @]
    BY <1>3, AnswerCases
  <2> HIDE DEF m
  <2>2. CompanionOK'
    BY <2>1 DEF Typed, CompanionOK
  <2>3. Append(up[n], m) \in Seq(Upward)
    BY <2>1, QueuesTyped, AppendProperties
  <2>4. up' \in [Connection -> Seq(Upward)]
    BY <2>1, <2>3 DEF Typed
  <2> QED BY <2>1, <2>2, <2>4, NumberedIs DEF Typed, CompanionOK, DeviceRecord
<1>4. CASE Lose
  <2>1. down' \in [Connection -> Seq(Message)]
    BY <1>0, <1>4, DownShrinks DEF Lose
  <2> QED BY <1>4, <2>1, OfflineTyped DEF Lose, Typed, CompanionOK, gateway
<1>5. ASSUME NEW n \in Connection, NEW m \in RelaysUnder(n), TakeRelay(m)
      PROVE  Typed'
  <2>1. m \in Relayed /\ m # None /\ m.seq \in Nat
    BY QueuesTyped, MessageFields DEF RelaysUnder, Dated, Members
  <2>2. companion.step = "ready" /\ companion.conn \in Connection
    BY <1>0, <1>5 DEF TakeRelay
  <2>3. CompanionOK'
    <3> DEFINE now == [companion EXCEPT !.step = "working", !.guard = m.seq, !.job = m]
    <3>1. /\ now \in [step: {"offline", "proving", "ready", "working"},
                     conn: Connection \cup {0}, guard: Nat, job: Relayed \cup {None}]
          /\ now.conn = companion.conn /\ now.step = "working" /\ now.job = m
      BY <2>1 DEF Typed
    <3>2. companion' = now /\ companion.conn # 0
      BY <1>5, <2>2 DEF TakeRelay, Typed
    <3> HIDE DEF now
    <3> QED BY <2>1, <3>1, <3>2 DEF CompanionOK
  <2>4. down' \in [Connection -> Seq(Message)]
    BY <1>5, <2>2, DownShrinks DEF TakeRelay, Received
  <2>5. device' \in DeviceRecord
    BY <1>0, <1>5, <2>1, DeviceFields DEF TakeRelay
  <2> QED BY <1>5, <2>3, <2>4, <2>5 DEF TakeRelay, Typed, CompanionOK, gateway, DeviceRecord
<1>6. ASSUME NEW m, RefuseRelay(m) PROVE Typed'
  <2>1. down' \in [Connection -> Seq(Message)]
    BY <1>0, <1>6, DownShrinks DEF RefuseRelay
  <2> QED BY <1>6, <2>1, OfflineTyped DEF RefuseRelay, Typed, CompanionOK, gateway
<1> QED BY <1>1, <1>2, <1>3, <1>4, <1>5, <1>6

LEMMA OtherTyped ==
    ASSUME Typed,
           \/ \E kind \in {"status", "revoke"} : SendControl(kind)
           \/ \E m \in control : TakeStatus(m) \/ TakeRevoke(m) \/ RefuseRevoke(m)
           \/ Wait \/ \E k \in session.known : Expire(k)
    PROVE  Typed'
<1>0. session \in SessionRecord /\ device \in DeviceRecord /\ session.known \subseteq Correlation
  BY DEF Typed, SessionRecord, DeviceRecord
<1>1. ASSUME NEW kind \in {"status", "revoke"}, SendControl(kind) PROVE Typed'
  <2>1. device' \in DeviceRecord /\ device'.control \in Nat
    BY <1>0, <1>1, DeviceFields DEF SendControl
  <2>2. control' \subseteq [kind: {"status", "revoke"}, seq: Nat]
    BY <1>1, <2>1 DEF SendControl, Typed
  <2> QED BY <1>1, <2>1, <2>2 DEF SendControl, Typed, gateway, DeviceRecord
<1>2. ASSUME NEW m \in control, TakeStatus(m) \/ TakeRevoke(m) \/ RefuseRevoke(m) PROVE Typed'
  <2>1. m.seq \in Nat
    BY DEF Typed
  <2>2. CASE TakeStatus(m)
    <3>1. session' \in SessionRecord
      BY <1>0, <2>1, <2>2, SessionFields DEF TakeStatus, Advanced
    <3> QED BY <2>2, <3>1 DEF TakeStatus, Typed, SessionRecord, local
  <2>3. CASE TakeRevoke(m)
    <3>1. session' \in SessionRecord
      BY <1>0, <2>1, <2>3, SessionFields DEF TakeRevoke, Advanced
    <3>2. CallsTyped'
      BY <2>3, RejectTyped DEF TakeRevoke
    <3>3. socket' \in [Connection -> {"unused", "challenged", "authenticated", "closing", "closed"}]
      BY <2>3 DEF TakeRevoke, Typed
    <3> QED BY <2>3, <3>1, <3>2, <3>3 DEF TakeRevoke, Typed, CallsTyped, SessionRecord, local
  <2>4. CASE RefuseRevoke(m)
    BY <2>4 DEF RefuseRevoke, Typed, gateway, local
  <2> QED BY <1>2, <2>2, <2>3, <2>4
<1>3. CASE Wait
  <2>1. { [k EXCEPT !.age = IF @ = "new" THEN "old" ELSE @] : k \in session.known } \subseteq Correlation
    BY <1>0 DEF Correlation
  <2>2. session' \in SessionRecord
    BY <1>0, <1>3, <2>1 DEF Wait, SessionRecord
  <2> QED BY <1>3, <2>2 DEF Wait, Typed, SessionRecord, local
<1>4. ASSUME NEW k \in session.known, Expire(k) PROVE Typed'
  <2>1. (session.known \ {k}) \cup {[k EXCEPT !.age = "expired"]} \subseteq Correlation
    BY <1>0 DEF Correlation
  <2>2. session' \in SessionRecord
    BY <1>0, <1>4, <2>1 DEF Expire, SessionRecord
  <2>3. expiries' \in 0 .. MaxExpiries
    BY <1>4, RelayBounds DEF Expire, Typed
  <2> QED BY <1>4, <2>2, <2>3 DEF Expire, Typed, SessionRecord, local
<1> QED BY <1>1, <1>2, <1>3, <1>4

LEMMA TypedStep == Typed /\ Sockets /\ [Next]_vars => Typed'
<1> SUFFICES ASSUME Typed, Sockets, [Next]_vars PROVE Typed'
  OBVIOUS
<1>1. CASE UNCHANGED vars
  BY <1>1 DEF vars, Typed
<1> QED BY <1>1, ForwardTyped, GatewayTyped, CompanionTyped, OtherTyped DEF Next
-----------------------------------------------------------------------------
(* What each invariant survives. *)

\* The order and the dated messages of s are those of t, which may lack some.
Carried(s, t) ==
    /\ Rising(s) => Rising(t)
    /\ \A k \in Dated(t) : \E m \in Dated(s) : Same(m, k)

LEMMA RestCarries == \A s, t : Rest(s, t) => Carried(s, t)
BY DEF Rest, Carried

LEMMA SocketsSurvive ==
    ASSUME Typed, Typed', Sockets,
           \A n \in Connection : socket'[n] \in {"unused", "challenged", "authenticated"} =>
             socket'[n] = socket[n],
           \A n \in Connection : socket[n] \in {"unused", "challenged"} => down'[n] = << >>,
           \A n \in Connection : \/ Rest(up[n], up'[n])
                                 \/ /\ socket[n] # "challenged"
                                    /\ \A m \in Members(up'[n]) : m \in Members(up[n]) \/ m.type = "answer",
           \/ companion'.conn = 0
           \/ /\ companion'.conn = companion.conn
              /\ companion.step = "proving" =>
                   companion'.step = "proving" \/ down[companion.conn] # << >>,
           session'.revoked => session.revoked \/ \A n \in Connection : socket'[n] # "authenticated"
    PROVE  Sockets'
<1>1. \A n \in Connection : socket'[n] \in {"unused", "challenged"} => down'[n] = << >>
  OBVIOUS
<1>2. \A n \in Connection : socket'[n] = "challenged" => Len(up'[n]) <= 1
  <2> TAKE n \in Connection
  <2> HAVE socket'[n] = "challenged"
  <2>1. Len(up'[n]) <= Len(up[n]) /\ Len(up[n]) <= 1
    BY DEF Sockets, Rest
  <2>2. Len(up'[n]) \in Nat /\ Len(up[n]) \in Nat
    BY LenProperties DEF Typed
  <2> QED BY <2>1, <2>2
<1>3. \A n \in Connection : socket'[n] = "authenticated" => \A m \in Members(up'[n]) : m.type = "answer"
  BY DEF Sockets, Rest
<1>4. companion'.conn # 0 /\ socket'[companion'.conn] \in {"unused", "challenged"} =>
        companion'.step = "proving"
  <2> SUFFICES ASSUME companion'.conn # 0, socket'[companion'.conn] \in {"unused", "challenged"}
               PROVE  companion'.step = "proving"
    OBVIOUS
  <2>1. companion'.conn = companion.conn /\ companion.conn \in Connection
    BY DEF Typed
  <2>2. socket[companion.conn] \in {"unused", "challenged"} /\ companion.conn # 0
    BY <2>1
  <2>3. companion.step = "proving" /\ down[companion.conn] = << >>
    BY <2>1, <2>2 DEF Sockets
  <2> QED BY <2>2, <2>3
<1>5. \A n, k \in Authenticated' : n = k
  BY DEF Sockets, Authenticated
<1>6. session'.revoked => Authenticated' = {}
  BY DEF Sockets, Authenticated
<1> QED BY <1>1, <1>2, <1>3, <1>4, <1>5, <1>6 DEF Sockets

LEMMA DownSurvives ==
    ASSUME Typed, Typed', DownOrdered,
           \A n \in Connection : Carried(down[n], down'[n]),
           session'.relay >= session.relay, device'.gateway = device.gateway,
           companion'.conn \in {0, companion.conn}, companion'.guard \in {0, companion.guard}
    PROVE  DownOrdered'
<1>1. /\ session.relay \in Nat /\ session'.relay \in Nat /\ device.gateway \in Nat
      /\ companion.guard \in Nat
  BY DEF Typed
<1>2. \A n \in Connection : \A m \in Dated(down[n]) : m.seq \in Nat
  BY QueuesTyped, MessageFields DEF Dated
<1>3. \A n \in Connection : Rising(down'[n]) /\ \A m \in Dated(down'[n]) : m.seq <= session'.relay
  BY <1>1, <1>2 DEF DownOrdered, Carried, Same
<1>4. ASSUME companion'.conn # 0, NEW m \in Dated(down'[companion'.conn])
      PROVE  m.seq > device'.gateway
  <2>1. companion.conn # 0 /\ companion'.conn = companion.conn /\ companion.conn \in Connection
    BY <1>4 DEF Typed
  <2>2. PICK o \in Dated(down[companion.conn]) : o.seq = m.seq
    BY <1>4, <2>1 DEF Carried, Same
  <2> QED BY <1>1, <2>1, <2>2 DEF DownOrdered
<1>5. device'.gateway <= session'.relay /\ companion'.guard <= device'.gateway
  BY <1>1 DEF DownOrdered
<1> QED BY <1>3, <1>4, <1>5 DEF DownOrdered

LEMMA UpSurvives ==
    ASSUME Typed, Typed', UpOrdered,
           \A n \in Connection : Carried(up[n], up'[n]),
           device'.companion >= device.companion, session'.companion = session.companion,
           companion'.conn \in {0, companion.conn}
    PROVE  UpOrdered'
<1>1. session.companion \in Nat /\ device.companion \in Nat /\ device'.companion \in Nat
  BY DEF Typed
<1>2. \A n \in Connection : \A m \in Dated(up[n]) : m.seq \in Nat
  BY QueuesTyped, UpwardFields
<1>3. \A n \in Connection : Rising(up'[n]) /\ \A m \in Dated(up'[n]) : m.seq <= device'.companion
  BY <1>1, <1>2 DEF UpOrdered, Carried, Same
<1>4. session'.companion <= device'.companion
  BY <1>1 DEF UpOrdered
<1>5. ASSUME companion'.conn # 0, NEW m \in Dated(up'[companion'.conn])
      PROVE  /\ m.seq > session'.companion
             /\ \A n \in Connection \ {companion'.conn} : \A k \in Dated(up'[n]) : k.seq < m.seq
  <2>1. companion.conn # 0 /\ companion'.conn = companion.conn /\ companion.conn \in Connection
    BY <1>5 DEF Typed
  <2>2. PICK o \in Dated(up[companion.conn]) : o.seq = m.seq
    BY <1>5, <2>1 DEF Carried, Same
  <2> QED BY <1>1, <1>2, <2>1, <2>2 DEF UpOrdered, Carried, Same
<1> QED BY <1>3, <1>4, <1>5 DEF UpOrdered

\* The gateway takes the head of a queue, with the rest or without.
LEMMA UpTaken ==
    ASSUME Typed, Typed', UpOrdered, NEW n \in Connection, up[n] # << >>,
           up' = [up EXCEPT ![n] = Tail(@)] \/ up' = [up EXCEPT ![n] = << >>],
           session'.companion \in {session.companion, Head(up[n]).seq},
           device'.companion = device.companion, companion' = companion
    PROVE  UpOrdered'
<1> DEFINE h == Head(up[n])
<1>1. session.companion \in Nat /\ device.companion \in Nat
  BY DEF Typed
<1>2. \A k \in Connection : \A m \in Dated(up[k]) : m.seq \in Nat
  BY QueuesTyped, UpwardFields
<1>3. /\ up[n] \in Seq(Upward) /\ Rising(up[n]) /\ h \in Dated(up[n])
      /\ \A m \in Dated(Tail(up[n])) : h.seq < m.seq
      /\ Rest(up[n], Tail(up[n]))
  BY QueuesTyped, UpwardFields, RestOfTail DEF UpOrdered, Dated
<1>4. \A k \in Connection : Carried(up[k], up'[k])
  <2> TAKE k \in Connection
  <2>1. Rest(up[k], up[k]) /\ Rest(up[k], << >>)
    BY QueuesTyped, RestOfSame, RestOfNone
  <2>2. up'[k] = up[k] \/ k = n
    BY DEF Typed
  <2>3. k = n => up'[k] = Tail(up[n]) \/ up'[k] = << >>
    BY DEF Typed
  <2> QED BY <1>3, <2>1, <2>2, <2>3, RestCarries
<1>5. CASE session'.companion = session.companion
  BY <1>1, <1>4, <1>5, UpSurvives
<1>6. CASE session'.companion = h.seq
  <2>1. session'.companion <= device'.companion
    BY <1>3, <1>6 DEF UpOrdered
  <2>2. \A k \in Connection : Rising(up'[k]) /\ \A m \in Dated(up'[k]) : m.seq <= device'.companion
    BY <1>4 DEF UpOrdered, Carried, Same
  <2>3. ASSUME companion.conn # 0, NEW m \in Dated(up'[companion.conn])
        PROVE  /\ m.seq > h.seq
               /\ \A k \in Connection \ {companion.conn} : \A o \in Dated(up'[k]) : o.seq < m.seq
    <3>1. companion.conn \in Connection
      BY <2>3 DEF Typed
    <3>2. PICK o \in Dated(up[companion.conn]) : o.seq = m.seq
      BY <1>4, <2>3, <3>1 DEF Carried, Same
    <3>3. \A k \in Connection \ {companion.conn} : \A x \in Dated(up'[k]) : x.seq < m.seq
      BY <1>4, <2>3, <3>1, <3>2 DEF UpOrdered, Carried, Same
    <3>4. CASE n # companion.conn
      <4>1. \A k \in Connection \ {companion.conn} : \A x \in Dated(up[k]) : x.seq < o.seq
        BY <2>3, <3>2 DEF UpOrdered
      <4>2. h.seq < o.seq
        BY <1>3, <3>4, <4>1
      <4>3. h.seq \in Nat /\ o.seq \in Nat
        BY <1>2, <1>3, <3>1
      <4> QED BY <3>2, <3>3, <4>2, <4>3
    <3>5. CASE n = companion.conn
      <4>1. up'[n] = Tail(up[n]) \/ up'[n] = << >>
        BY DEF Typed
      <4>2. up'[n] # << >>
        BY <1>3, <2>3, <3>5, RestOfNone
      <4>3. m \in Dated(Tail(up[n]))
        BY <2>3, <3>5, <4>1, <4>2
      <4>4. h.seq < m.seq /\ h.seq \in Nat /\ m.seq \in Nat
        BY <1>2, <1>3, <3>1, <3>2, <4>3
      <4> QED BY <3>3, <4>4
    <3> QED BY <3>3, <3>4, <3>5
  <2> QED BY <1>6, <2>1, <2>2, <2>3 DEF UpOrdered
<1> QED BY <1>5, <1>6

LEMMA AwaitedSurvives ==
    ASSUME Typed, Typed', Awaited,
           \A n \in Connection : Carried(down[n], down'[n]),
           session'.relay >= session.relay, session'.revoked => session.revoked,
           pending' = pending,
           \A c \in Calls : /\ call'[c].step = "waiting" <=> call[c].step = "waiting"
                            /\ call[c].step = "waiting" => call'[c].request = call[c].request
    PROVE  Awaited'
<1>1. session.relay \in Nat /\ session'.relay \in Nat /\ \A id \in Ids : pending[id] \in Nat
  BY DEF Typed
<1>2. ASSUME NEW id \in Ids
      PROVE  /\ (pending'[id] = 0) <=> (Waiting(id)' = {})
             /\ \A c, d \in Waiting(id)' : call'[c].request = call'[d].request
             /\ pending'[id] <= session'.relay
             /\ pending'[id] # 0 => \A n \in Connection : \A m \in Dated(down'[n]) :
                  m.request.id = id => m.seq <= pending'[id]
  <2>1. Waiting(id)' = Waiting(id)
    <3>1. ASSUME NEW c \in Calls
          PROVE  (call'[c].step = "waiting" /\ call'[c].request.id = id)
                   <=> (call[c].step = "waiting" /\ call[c].request.id = id)
      <4>1. call'[c].step = "waiting" <=> call[c].step = "waiting"
        OBVIOUS
      <4>2. call[c].step = "waiting" => call'[c].request = call[c].request
        OBVIOUS
      <4> QED BY <4>1, <4>2
    <3> QED BY <3>1 DEF Waiting
  <2>2. \A c, d \in Waiting(id)' : call'[c].request = call'[d].request
    BY <2>1 DEF Awaited, Waiting
  <2>3. pending'[id] # 0 => \A n \in Connection : \A m \in Dated(down'[n]) :
                  m.request.id = id => m.seq <= pending'[id]
    <3> SUFFICES ASSUME pending[id] # 0, NEW n \in Connection, NEW m \in Dated(down'[n]),
                        m.request.id = id
                 PROVE  m.seq <= pending[id]
      OBVIOUS
    <3>1. PICK o \in Dated(down[n]) : Same(o, m)
      BY DEF Carried
    <3> QED BY <3>1 DEF Awaited, Same
  <2>4. pending'[id] <= session'.relay
    BY <1>1 DEF Awaited
  <2> QED BY <2>1, <2>2, <2>3, <2>4 DEF Awaited
<1>3. session'.revoked => \A id \in Ids : pending'[id] = 0
  BY DEF Awaited
<1> QED BY <1>2, <1>3 DEF Awaited

LEMMA NoneAwaited ==
    ASSUME Typed', pending' = [id \in Ids |-> 0], \A c \in Calls : call'[c].step # "waiting"
    PROVE  Awaited'
<1>1. session'.relay \in Nat
  BY DEF Typed
<1>2. ASSUME NEW id \in Ids PROVE Waiting(id)' = {} /\ pending'[id] = 0
  BY DEF Waiting
<1> QED BY <1>1, <1>2 DEF Awaited

\* The calls that waited for an identifier return, the others wait on.
LEMMA SettledIs ==
    ASSUME NEW id \in Ids, NEW answer \in Request \cup {None}, Settle(id, answer), Typed
    PROVE  \A c \in Calls :
             /\ call'[c].step = "waiting" <=> (call[c].step = "waiting" /\ call[c].request.id # id)
             /\ c \notin Waiting(id) => call'[c] = call[c]
             /\ c \in Waiting(id) => /\ call'[c].step \in {"answered", "failed"}
                                     /\ call'[c].step = "answered" =>
                                          call'[c].answer = answer /\ call'[c].request = call[c].request
<1> TAKE c \in Calls
<1> DEFINE row == [call[c] EXCEPT !.step = "answered", !.answer = answer]
<1>1. call'[c] = IF c \notin Waiting(id) THEN call[c] ELSE IF answer = None THEN Failure ELSE row
  BY Zenon DEF Settle
<1>2. row.step = "answered" /\ row.answer = answer /\ row.request = call[c].request
  BY DEF Typed
<1>3. c \in Waiting(id) <=> call[c].step = "waiting" /\ call[c].request.id = id
  BY DEF Waiting
<1>4. Failure.step = "failed"
  BY DEF Failure
<1> HIDE DEF row
<1>5. c \notin Waiting(id) => call'[c] = call[c]
  BY <1>1
<1>6. c \in Waiting(id) => call'[c] = Failure \/ call'[c] = row
  BY <1>1
<1> QED BY <1>2, <1>3, <1>4, <1>5, <1>6

LEMMA AwaitedSettles ==
    ASSUME Typed, Typed', Awaited, NEW id \in Ids, NEW answer \in Request \cup {None},
           Settle(id, answer),
           \A n \in Connection : Carried(down[n], down'[n]),
           session'.relay >= session.relay, session'.revoked => session.revoked
    PROVE  Awaited'
<1>1. session.relay \in Nat /\ session'.relay \in Nat /\ \A i \in Ids : pending[i] \in Nat
  BY DEF Typed
<1>2. \A i \in Ids : pending'[i] = IF i = id THEN 0 ELSE pending[i]
  <2>1. pending' = [pending EXCEPT ![id] = 0]
    BY DEF Settle
  <2> QED BY <2>1 DEF Typed
<1>3. ASSUME NEW i \in Ids
      PROVE  /\ (pending'[i] = 0) <=> (Waiting(i)' = {})
             /\ \A c, d \in Waiting(i)' : call'[c].request = call'[d].request
             /\ pending'[i] <= session'.relay
             /\ pending'[i] # 0 => \A n \in Connection : \A m \in Dated(down'[n]) :
                  m.request.id = i => m.seq <= pending'[i]
  <2>1. CASE i = id
    <3>1. Waiting(i)' = {}
      <4>1. \A c \in Calls : ~(call'[c].step = "waiting" /\ call'[c].request.id = id)
        BY SettledIs DEF Waiting
      <4> QED BY <2>1, <4>1 DEF Waiting
    <3> QED BY <1>1, <1>2, <2>1, <3>1
  <2>2. CASE i # id
    <3>1. Waiting(i)' = Waiting(i) /\ \A c \in Waiting(i) : call'[c] = call[c]
      BY <2>2, SettledIs DEF Waiting
    <3>2. pending'[i] = pending[i]
      BY <1>2, <2>2
    <3>3. pending'[i] # 0 => \A n \in Connection : \A m \in Dated(down'[n]) :
                  m.request.id = i => m.seq <= pending'[i]
      BY <3>2 DEF Awaited, Carried, Same
    <3>4. pending'[i] <= session'.relay
      BY <1>1, <3>2 DEF Awaited
    <3> QED BY <3>1, <3>2, <3>3, <3>4 DEF Awaited
  <2> QED BY <2>1, <2>2
<1>4. session'.revoked => \A i \in Ids : pending'[i] = 0
  BY <1>2 DEF Awaited
<1> QED BY <1>3, <1>4 DEF Awaited
-----------------------------------------------------------------------------
(* What each step leaves alone: every part of the state, or the steps that *)
(* change it.                                                              *)

Forwards == \E c \in Calls : Forward(c)
Authenticates == \E n \in Connection : Authenticate(n)
Takes == \E n \in Connection : \E m \in RelaysUnder(n) : TakeRelay(m)

Idling ==
    /\ pending' = pending
    /\ \A c \in Calls : \/ call'[c] = call[c]
                        \/ call[c].step # "waiting" /\ call'[c].step \in {"claiming", "failed"}
Failing ==
    /\ pending' = [i \in Ids |-> 0]
    /\ \A c \in Calls : /\ call'[c].step # "waiting"
                        /\ call'[c] = call[c] \/ call'[c].step = "failed"
Returning ==
    \E id \in Ids, answer \in Request \cup {None} :
        /\ Settle(id, answer)
        /\ answer # None => /\ answer.id = id
                            /\ \E n \in Connection : \E m \in Dated(up[n]) :
                                 m.type = "answer" /\ m.request = answer

Frame ==
    /\ session'.relay = session.relay \/ Forwards
    /\ \/ session'.companion = session.companion
       \/ \E n \in Connection : Authenticate(n) \/ TakeAnswer(n) \/ RefuseMessage(n)
    /\ session'.revoked = session.revoked \/ \A n \in Connection : socket'[n] # "authenticated"
    /\ session'.revoked => session.revoked \/ Failing
    /\ session'.known = session.known \/ Forwards \/ Wait \/ \E k \in session.known : Expire(k)
    /\ expiries' = expiries \/ expiries' = expiries + 1
    /\ device'.gateway = device.gateway \/ Takes
    /\ device'.companion = device.companion \/ Connect \/ Answer
    /\ \/ companion' = companion \/ companion' = Offline
       \/ Connect \/ BecomeReady \/ Answer \/ Takes
    /\ (\A n \in Connection : Rest(down[n], down'[n])) \/ Authenticates \/ Forwards
    /\ (\A n \in Connection : Rest(up[n], up'[n])) \/ Connect \/ Answer
    /\ \/ \A n \in Connection : socket'[n] \in {"unused", "challenged", "authenticated"} =>
            socket'[n] = socket[n]
       \/ Authenticates \/ Connect
    /\ Idling \/ Failing \/ Returning \/ Forwards

LEMMA QueuesStay ==
    ASSUME Typed
    PROVE  /\ down' = down => \A n \in Connection : Rest(down[n], down'[n])
           /\ up' = up => \A n \in Connection : Rest(up[n], up'[n])
           /\ \A n \in Connection : /\ down[n] # << >> /\ down' = [down EXCEPT ![n] = Tail(@)] =>
                                        \A k \in Connection : Rest(down[k], down'[k])
                                    /\ down' = [down EXCEPT ![n] = << >>] =>
                                        \A k \in Connection : Rest(down[k], down'[k])
                                    /\ up[n] # << >> /\ up' = [up EXCEPT ![n] = Tail(@)] =>
                                        \A k \in Connection : Rest(up[k], up'[k])
                                    /\ up' = [up EXCEPT ![n] = << >>] =>
                                        \A k \in Connection : Rest(up[k], up'[k])
           /\ up' = [n \in Connection |-> << >>] => \A n \in Connection : Rest(up[n], up'[n])
<1>1. \A n \in Connection : /\ Rest(down[n], down[n]) /\ Rest(up[n], up[n])
                            /\ Rest(down[n], << >>) /\ Rest(up[n], << >>)
  BY QueuesTyped, RestOfSame, RestOfNone
<1>2. \A n \in Connection : /\ down[n] # << >> => Rest(down[n], Tail(down[n]))
                            /\ up[n] # << >> => Rest(up[n], Tail(up[n]))
  BY QueuesTyped, RestOfTail
<1>3. /\ down' = down => \A n \in Connection : Rest(down[n], down'[n])
      /\ up' = up => \A n \in Connection : Rest(up[n], up'[n])
      /\ up' = [n \in Connection |-> << >>] => \A n \in Connection : Rest(up[n], up'[n])
  BY <1>1
<1>4. ASSUME NEW n \in Connection, NEW k \in Connection
      PROVE  /\ down[n] # << >> /\ down' = [down EXCEPT ![n] = Tail(@)] => Rest(down[k], down'[k])
             /\ down' = [down EXCEPT ![n] = << >>] => Rest(down[k], down'[k])
             /\ up[n] # << >> /\ up' = [up EXCEPT ![n] = Tail(@)] => Rest(up[k], up'[k])
             /\ up' = [up EXCEPT ![n] = << >>] => Rest(up[k], up'[k])
  <2>1. DOMAIN down = Connection /\ DOMAIN up = Connection
    BY DEF Typed
  <2>2. CASE k = n
    BY <1>1, <1>2, <2>1, <2>2
  <2>3. CASE k # n
    BY <1>1, <2>1, <2>3
  <2> QED BY <2>2, <2>3
<1> QED BY <1>3, <1>4

LEMMA RejectFails == ASSUME Typed, RejectPending PROVE Failing
BY DEF RejectPending, Failing, Failure, Typed

LEMMA GatewayFrames ==
    ASSUME Typed, Sockets,
           \/ \E c \in Calls, r \in Request : Arrive(c, r)
           \/ \E id \in Ids : Timeout(id)
           \/ \E m \in UNION { RelaysUnder(n) : n \in Connection } : Overdue(m)
           \/ \E n \in Connection :
                Authenticate(n) \/ TakeAnswer(n) \/ RefuseMessage(n) \/ SocketClosed(n)
           \/ GatewayRestart
    PROVE  Frame
<1>1. ASSUME NEW c \in Calls, NEW r \in Request, Arrive(c, r) PROVE Frame
  <2>1. Idling
    <3>1. call[c].step = "idle" /\ pending' = pending
      BY <1>1 DEF Arrive
    <3>2. \A d \in Calls \ {c} : call'[d] = call[d]
      BY <1>1 DEF Arrive, Typed
    <3>3. call'[c].step \in {"claiming", "failed"}
      <4>1. CASE Authenticated = {}
        <5>1. call' = [call EXCEPT ![c] = Failure]
          BY <1>1, <4>1 DEF Arrive
        <5> QED BY <5>1 DEF Typed, Failure
      <4>2. CASE Authenticated # {}
        <5>1. PICK n \in Authenticated :
                call' = [call EXCEPT ![c].step = "claiming", ![c].request = r, ![c].socket = n]
          BY <1>1, <4>2 DEF Arrive
        <5> QED BY <5>1 DEF Typed
      <4> QED BY <4>1, <4>2
    <3> QED BY <3>1, <3>2, <3>3 DEF Idling
  <2> QED BY <1>1, <2>1, QueuesStay DEF Arrive, Frame, local
<1>2. ASSUME NEW id \in Ids, Timeout(id) PROVE Frame
  <2>1. Returning
    BY <1>2 DEF Timeout, Returning
  <2>2. \A n \in Connection : Rest(down[n], down'[n])
    BY <1>2, MarkTyped DEF Timeout
  <2>3. UNCHANGED <<session, socket, device, companion, up, control, expiries>>
    BY <1>2 DEF Timeout, local
  <2> QED BY <2>1, <2>2, <2>3, QueuesStay DEF Frame
<1>3. ASSUME NEW m, Overdue(m) PROVE Frame
  <2>1. \A n \in Connection : Rest(down[n], down'[n])
    BY <1>3, MarkTyped DEF Overdue
  <2>2. UNCHANGED <<session, socket, pending, call, device, companion, up, control, expiries>>
    BY <1>3 DEF Overdue, gateway, local
  <2>3. Idling
    BY <2>2 DEF Idling
  <2> QED BY <2>1, <2>2, <2>3, QueuesStay DEF Frame
<1>4. ASSUME NEW n \in Connection, Authenticate(n) PROVE Frame
  <2>1. up[n] # << >> /\ up' = [up EXCEPT ![n] = Tail(@)]
    BY <1>4 DEF Authenticate
  <2>2. \A k \in Connection : Rest(up[k], up'[k])
    BY <2>1, QueuesStay
  <2>3. Failing
    BY <1>4, RejectFails DEF Authenticate
  <2>4. /\ UNCHANGED <<device, companion, control, expiries>>
        /\ session'.relay = session.relay /\ session'.known = session.known
        /\ session'.revoked = session.revoked
    BY <1>4 DEF Authenticate, local, Typed
  <2> QED BY <1>4, <2>2, <2>3, <2>4 DEF Frame, Authenticates
<1>5. ASSUME NEW n \in Connection, TakeAnswer(n) PROVE Frame
  <2> DEFINE m == Head(up[n])
  <2>1. up[n] # << >> /\ up' = [up EXCEPT ![n] = Tail(@)]
    BY <1>5 DEF TakeAnswer
  <2>2. \A k \in Connection : Rest(up[k], up'[k])
    BY <2>1, QueuesStay
  <2>3. m \in Dated(up[n]) /\ m.type = "answer" /\ m.request \in Request
    <3>1. m \in Members(up[n]) /\ socket[n] = "authenticated"
      BY <1>5, QueuesTyped, RestOfTail DEF TakeAnswer
    <3>2. m \in Dated(up[n]) /\ m.type = "answer" /\ m \in Upward
      BY <3>1, QueuesTyped DEF Sockets
    <3> QED BY <3>2, UpwardFields
  <2>4. Idling \/ Returning
    <3>1. CASE UNCHANGED <<pending, call>>
      BY <3>1 DEF Idling
    <3>2. CASE Settle(m.request.id, m.request)
      BY <2>3, <3>2, RequestFields DEF Returning
    <3> QED BY <1>5, <3>1, <3>2 DEF TakeAnswer
  <2>5. /\ UNCHANGED <<device, companion, control, expiries, socket, down>>
        /\ session'.relay = session.relay /\ session'.known = session.known
        /\ session'.revoked = session.revoked
    BY <1>5 DEF TakeAnswer, local, Typed
  <2> QED BY <1>5, <2>2, <2>4, <2>5, QueuesStay DEF Frame
<1>6. ASSUME NEW n \in Connection, RefuseMessage(n) PROVE Frame
  <2>1. up' = [up EXCEPT ![n] = << >>]
    BY <1>6 DEF RefuseMessage
  <2>2. \A k \in Connection : Rest(up[k], up'[k])
    BY <2>1, QueuesStay
  <2>3. /\ UNCHANGED <<pending, call, device, companion, control, expiries, down>>
        /\ session'.relay = session.relay /\ session'.known = session.known
        /\ session'.revoked = session.revoked
    BY <1>6 DEF RefuseMessage, local, Typed
  <2>4. \A k \in Connection : socket'[k] \in {"unused", "challenged", "authenticated"} =>
          socket'[k] = socket[k]
    BY <1>6 DEF RefuseMessage, Typed
  <2>5. Idling
    BY <2>3 DEF Idling
  <2> QED BY <1>6, <2>2, <2>3, <2>4, <2>5, QueuesStay DEF Frame
<1>7. ASSUME NEW n \in Connection, SocketClosed(n) PROVE Frame
  <2>1. \A k \in Connection : Rest(up[k], up'[k])
    <3>1. up' = [up EXCEPT ![n] = << >>]
      BY <1>7 DEF SocketClosed
    <3> QED BY <3>1, QueuesStay
  <2>2. UNCHANGED <<session, device, companion, down, control, expiries>>
    BY <1>7 DEF SocketClosed, local
  <2>3. \A k \in Connection : socket'[k] \in {"unused", "challenged", "authenticated"} =>
          socket'[k] = socket[k]
    BY <1>7 DEF SocketClosed, Typed
  <2>4. Idling \/ Failing
    <3>1. CASE RejectPending
      BY <3>1, RejectFails
    <3>2. CASE UNCHANGED <<pending, call>>
      BY <3>2 DEF Idling
    <3> QED BY <1>7, <3>1, <3>2 DEF SocketClosed
  <2> QED BY <2>1, <2>2, <2>3, <2>4, QueuesStay DEF Frame
<1>8. ASSUME GatewayRestart PROVE Frame
  <2>1. \A k \in Connection : Rest(up[k], up'[k])
    <3>1. up' = [k \in Connection |-> << >>]
      BY <1>8 DEF GatewayRestart
    <3> QED BY <3>1, QueuesStay
  <2>2. UNCHANGED <<session, device, companion, down, control, expiries>>
    BY <1>8 DEF GatewayRestart, local
  <2>3. \A k \in Connection : socket'[k] \in {"unused", "challenged", "authenticated"} =>
          socket'[k] = socket[k]
    BY <1>8 DEF GatewayRestart
  <2>4. Failing
    BY <1>8 DEF GatewayRestart, Failing, Failure
  <2> QED BY <2>1, <2>2, <2>3, <2>4, QueuesStay DEF Frame
<1> QED BY <1>1, <1>2, <1>3, <1>4, <1>5, <1>6, <1>7, <1>8

LEMMA OtherFrames ==
    ASSUME Typed,
           \/ Connect \/ BecomeReady \/ Answer \/ Lose
           \/ \E m \in UNION { RelaysUnder(n) : n \in Connection } : TakeRelay(m) \/ RefuseRelay(m)
           \/ \E kind \in {"status", "revoke"} : SendControl(kind)
           \/ \E m \in control : TakeStatus(m) \/ TakeRevoke(m) \/ RefuseRevoke(m)
           \/ Wait \/ \E k \in session.known : Expire(k)
    PROVE  Frame
<1>0. /\ companion.step # "offline" => companion.conn \in Connection
      /\ UNCHANGED <<pending, call>> => Idling
  BY DEF Typed, Idling
<1>1. CASE Connect
  <2>1. UNCHANGED <<session, pending, call, down, control, expiries>> /\ Numbered
    BY <1>1, ConnectCases
  <2> QED BY <1>0, <1>1, <2>1, NumberedIs, QueuesStay DEF Frame
<1>2. CASE BecomeReady
  <2>1. /\ down[companion.conn] # << >> /\ companion.conn \in Connection
        /\ down' = [down EXCEPT ![companion.conn] = Tail(@)]
    BY <1>0, <1>2 DEF BecomeReady, Received
  <2>2. UNCHANGED <<session, pending, call, socket, device, up, control, expiries>>
    BY <1>2 DEF BecomeReady, gateway
  <2> QED BY <1>0, <1>2, <2>1, <2>2, QueuesStay DEF Frame
<1>3. CASE Answer
  <2>1. UNCHANGED <<session, pending, socket, call, down, control, expiries>> /\ Numbered
    BY <1>3, AnswerCases
  <2> QED BY <1>0, <1>3, <2>1, NumberedIs, QueuesStay DEF Frame
<1>4. ASSUME Lose \/ \E m : RefuseRelay(m) PROVE Frame
  <2>1. /\ companion.conn \in Connection /\ companion' = Offline
        /\ down' = [down EXCEPT ![companion.conn] = << >>]
    BY <1>0, <1>4 DEF Lose, RefuseRelay
  <2>2. UNCHANGED <<session, pending, call, socket, device, up, control, expiries>>
    BY <1>4 DEF Lose, RefuseRelay, gateway
  <2> QED BY <1>0, <2>1, <2>2, QueuesStay DEF Frame
<1>5. ASSUME NEW n \in Connection, NEW m \in RelaysUnder(n), TakeRelay(m) PROVE Frame
  <2>1. /\ down[companion.conn] # << >> /\ companion.conn \in Connection
        /\ down' = [down EXCEPT ![companion.conn] = Tail(@)]
    BY <1>0, <1>5 DEF TakeRelay, Received
  <2>2. /\ UNCHANGED <<session, pending, call, socket, up, control, expiries>>
        /\ device'.companion = device.companion
    BY <1>5 DEF TakeRelay, gateway, Typed
  <2>3. Takes
    BY <1>5 DEF Takes
  <2> QED BY <1>0, <2>1, <2>2, <2>3, QueuesStay DEF Frame
<1>6. ASSUME NEW kind, SendControl(kind) PROVE Frame
  <2>1. /\ UNCHANGED <<session, pending, call, socket, companion, down, up, expiries>>
        /\ device'.companion = device.companion /\ device'.gateway = device.gateway
    BY <1>6 DEF SendControl, gateway, Typed
  <2> QED BY <1>0, <2>1, QueuesStay DEF Frame
<1>7. ASSUME NEW m, TakeStatus(m) \/ RefuseRevoke(m) PROVE Frame
  <2>1. /\ UNCHANGED <<pending, call, socket, device, companion, down, up, expiries>>
        /\ session'.relay = session.relay /\ session'.companion = session.companion
        /\ session'.known = session.known /\ session'.revoked = session.revoked
    BY <1>7 DEF TakeStatus, RefuseRevoke, Advanced, gateway, local, Typed
  <2> QED BY <1>0, <2>1, QueuesStay DEF Frame
<1>8. ASSUME NEW m, TakeRevoke(m) PROVE Frame
  <2>1. /\ UNCHANGED <<device, companion, down, up, expiries>>
        /\ session'.relay = session.relay /\ session'.companion = session.companion
        /\ session'.known = session.known
    BY <1>8 DEF TakeRevoke, Advanced, local, Typed
  <2>2. Failing
    BY <1>8, RejectFails DEF TakeRevoke
  <2>3. \A n \in Connection : /\ socket'[n] # "authenticated"
                              /\ socket'[n] \in {"unused", "challenged", "authenticated"} =>
                                   socket'[n] = socket[n]
    BY <1>8 DEF TakeRevoke, Live, Typed
  <2> QED BY <2>1, <2>2, <2>3, QueuesStay DEF Frame
<1>9. ASSUME Wait \/ \E k \in session.known : Expire(k) PROVE Frame
  <2>1. /\ UNCHANGED <<pending, call, socket, device, companion, down, up>>
        /\ session'.relay = session.relay /\ session'.companion = session.companion
        /\ session'.revoked = session.revoked
        /\ expiries' = expiries \/ expiries' = expiries + 1
    BY <1>9 DEF Wait, Expire, local, Typed
  <2> QED BY <1>0, <1>9, <2>1, QueuesStay DEF Frame
<1> QED BY <1>1, <1>2, <1>3, <1>4, <1>5, <1>6, <1>7, <1>8, <1>9

LEMMA Frames == ASSUME Typed, Sockets, [Next]_vars PROVE Frame
<1>1. CASE UNCHANGED vars
  <2>1. UNCHANGED <<session, pending, socket, call, device, companion, down, up, expiries>>
    BY <1>1 DEF vars
  <2> QED BY <2>1, QueuesStay DEF Frame, Idling
<1>2. CASE Forwards
  <2>1. PICK c \in Calls : Forward(c)
    BY <1>2 DEF Forwards
  <2>2. UNCHANGED <<socket, device, companion, up, control, expiries>>
    BY <2>1, ForwardCases
  <2>3. session'.companion = session.companion /\ session'.revoked = session.revoked
    BY <2>1, ForwardCases, ClaimedIs
  <2> QED BY <1>2, <2>2, <2>3, QueuesStay DEF Frame
<1> QED BY <1>1, <1>2, GatewayFrames, OtherFrames DEF Next, Forwards
-----------------------------------------------------------------------------
(* Every step keeps each part of the invariant. *)

\* Authentication puts the ready message in a queue, and takes what was proven.
LEMMA AuthenticateIs ==
    ASSUME Typed, NEW n \in Connection, Authenticate(n)
    PROVE  /\ socket[n] = "challenged" /\ up[n] # << >> /\ ~session.revoked
           /\ socket' = [i \in Connection |->
                           IF i = n THEN "authenticated"
                           ELSE IF i \in Live THEN "closing" ELSE socket[i]]
           /\ up' = [up EXCEPT ![n] = Tail(@)] /\ down' = [down EXCEPT ![n] = Append(@, Ready)]
           /\ UNCHANGED <<device, companion, control, expiries>>
           /\ session'.companion = Head(up[n]).seq /\ session'.relay = session.relay
           /\ session'.known = session.known /\ session'.revoked = session.revoked
           /\ \A k \in Connection : Carried(down[k], down'[k])
<1>1. session' = [session EXCEPT !.companion = Head(up[n]).seq]
  BY DEF Authenticate
<1>2. /\ session'.companion = Head(up[n]).seq /\ session'.relay = session.relay
      /\ session'.known = session.known /\ session'.revoked = session.revoked
  BY <1>1 DEF Typed
<1>3. down' = [down EXCEPT ![n] = Append(@, Ready)]
  BY DEF Authenticate
<1>4. ASSUME NEW k \in Connection PROVE Carried(down[k], down'[k])
  <2>1. Carried(down[k], down[k])
    BY QueuesTyped, RestOfSame, RestCarries
  <2>2. Carried(down[n], Append(down[n], Ready))
    <3>1. /\ Dated(Append(down[n], Ready)) = Dated(down[n])
          /\ Rising(down[n]) => Rising(Append(down[n], Ready))
      BY QueuesTyped, MessageFields, AppendedIs
    <3> QED BY <3>1 DEF Carried, Same
  <2> QED BY <1>3, <2>1, <2>2 DEF Typed
<1> QED BY <1>2, <1>4 DEF Authenticate, Fresh, local

LEMMA TakeIs ==
    ASSUME Typed, NEW n \in Connection, NEW m \in RelaysUnder(n), TakeRelay(m)
    PROVE  /\ companion.step = "ready" /\ companion.conn \in Connection
           /\ down[companion.conn] # << >> /\ Head(down[companion.conn]) = m
           /\ m \in Relayed /\ m \in Dated(down[companion.conn])
           /\ device'.gateway = m.seq
           /\ companion'.conn = companion.conn /\ companion'.step = "working"
           /\ companion'.guard = m.seq /\ companion'.job = m
           /\ down' = [down EXCEPT ![companion.conn] = Tail(@)]
<1>1. /\ companion.step = "ready" /\ companion.conn \in Connection
      /\ down[companion.conn] # << >> /\ Head(down[companion.conn]) = m
  BY DEF TakeRelay, Received, Typed
<1>2. m \in Relayed
  BY QueuesTyped, MessageFields DEF RelaysUnder, Dated, Members
<1>3. m \in Dated(down[companion.conn])
  <2>1. Head(down[companion.conn]) \in Members(down[companion.conn])
    BY <1>1, QueuesTyped, RestOfTail
  <2> QED BY <1>1, <1>2, <2>1, MessageFields DEF Dated
<1>4. /\ device' = [device EXCEPT !.gateway = m.seq]
      /\ companion' = [companion EXCEPT !.step = "working", !.guard = m.seq, !.job = m]
      /\ down' = [down EXCEPT ![companion.conn] = Tail(@)]
  BY DEF TakeRelay
<1>5. /\ device'.gateway = m.seq
      /\ companion'.conn = companion.conn /\ companion'.step = "working"
      /\ companion'.guard = m.seq /\ companion'.job = m
  BY <1>4 DEF Typed
<1> QED BY <1>1, <1>2, <1>3, <1>4, <1>5

\* Where the companion's connection and its guard may go.
LEMMA CompanionMoves ==
    ASSUME Typed, Frame, ~Connect, ~Takes
    PROVE  /\ companion'.conn \in {0, companion.conn} /\ companion'.guard \in {0, companion.guard}
           /\ \/ companion'.conn = 0
              \/ /\ companion'.conn = companion.conn
                 /\ companion.step = "proving" =>
                      companion'.step = "proving" \/ down[companion.conn] # << >>
           /\ companion'.job \in {companion.job, None}
<1>1. CASE companion' = companion
  BY <1>1
<1>2. CASE companion' = Offline
  BY <1>2 DEF Offline
<1>3. CASE BecomeReady
  <2>1. companion' = [companion EXCEPT !.step = "ready", !.guard = 0]
        /\ down[companion.conn] # << >>
    BY <1>3 DEF BecomeReady, Received
  <2> QED BY <2>1 DEF Typed
<1>4. CASE Answer
  <2>1. companion' = [companion EXCEPT !.step = "ready", !.job = None]
        /\ companion.step = "working"
    BY <1>4, AnswerCases
  <2> QED BY <2>1 DEF Typed
<1> QED BY <1>1, <1>2, <1>3, <1>4 DEF Frame

LEMMA SocketsStep == ASSUME Typed, Typed', Sockets, [Next]_vars PROVE Sockets'
<1>0. Frame
  BY Frames
<1>1. CASE Connect
  <2>1. PICK n \in Connection :
          /\ socket[n] = "unused"
          /\ socket' = [i \in Connection |->
                  IF i = n THEN "challenged"
                  ELSE IF socket[i] = "challenged" THEN "closing" ELSE socket[i]]
          /\ up' = [up EXCEPT ![n] = <<[type |-> "challenge", seq |-> device'.companion]>>]
          /\ companion' = [companion EXCEPT !.step = "proving", !.conn = n]
    BY <1>1, ConnectCases
  <2>2. UNCHANGED <<session, down>>
    BY <1>1, ConnectCases
  <2>3. Len(up'[n]) <= 1
    <3> DEFINE m == [type |-> "challenge", seq |-> device'.companion]
    <3>1. up' = [up EXCEPT ![n] = <<m>>]
      BY <2>1
    <3> HIDE DEF m
    <3> QED BY <3>1 DEF Typed
  <2>4. companion'.conn = n /\ companion'.step = "proving"
    BY <2>1 DEF Typed
  <2>5. \A k \in Connection : /\ k # n => up'[k] = up[k]
                              /\ socket'[k] = "unused" => socket[k] = "unused"
                              /\ socket'[k] = "challenged" => k = n
                              /\ socket'[k] = "authenticated" <=> socket[k] = "authenticated"
                              /\ socket'[k] = "authenticated" => k # n
    BY <2>1 DEF Typed
  <2>6. Authenticated' = Authenticated
    BY <2>5 DEF Authenticated
  <2>7. \A k \in Connection : socket'[k] \in {"unused", "challenged"} => down'[k] = << >>
    BY <2>1, <2>2, <2>5 DEF Sockets
  <2>8. \A k \in Connection : socket'[k] = "authenticated" => \A m \in Members(up'[k]) : m.type = "answer"
    BY <2>5 DEF Sockets
  <2>9. \A k \in Connection : socket'[k] = "challenged" => Len(up'[k]) <= 1
    BY <2>3, <2>5
  <2>10. (\A a, b \in Authenticated' : a = b) /\ (session'.revoked => Authenticated' = {})
    BY <2>2, <2>6 DEF Sockets
  <2>11. companion'.conn # 0 /\ socket'[companion'.conn] \in {"unused", "challenged"} =>
           companion'.step = "proving"
    BY <2>4
  <2> QED BY <2>7, <2>8, <2>9, <2>10, <2>11 DEF Sockets
<1>2. CASE Authenticates
  <2>1. PICK n \in Connection : Authenticate(n)
    BY <1>2 DEF Authenticates
  <2>2. /\ socket[n] = "challenged" /\ up[n] # << >> /\ ~session.revoked
        /\ socket' = [i \in Connection |->
                        IF i = n THEN "authenticated"
                        ELSE IF i \in Live THEN "closing" ELSE socket[i]]
        /\ up' = [up EXCEPT ![n] = Tail(@)] /\ down' = [down EXCEPT ![n] = Append(@, Ready)]
        /\ UNCHANGED <<device, companion>> /\ session'.revoked = session.revoked
    BY <2>1, AuthenticateIs
  <2>3. \A k \in Connection : /\ socket'[k] = "unused" => socket[k] = "unused" /\ down'[k] = down[k]
                              /\ socket'[k] # "challenged"
                              /\ socket'[k] = "authenticated" <=> k = n
    BY <2>2 DEF Typed, Live
  <2>4. Authenticated' = {n}
    BY <2>3 DEF Authenticated
  <2>5. \A m \in Members(up'[n]) : m.type = "answer"
    <3>1. up'[n] = Tail(up[n]) /\ up[n] \in Seq(Upward) /\ Len(up[n]) <= 1
      BY <2>2 DEF Typed, Sockets
    <3>2. Len(Tail(up[n])) = Len(up[n]) - 1 /\ Tail(up[n]) \in Seq(Upward) /\ Len(up[n]) \in Nat
      BY <2>2, <3>1, RestOfTail, LenProperties
    <3>3. Len(up'[n]) <= 0 /\ DOMAIN up'[n] = 1 .. Len(up'[n]) /\ Len(up'[n]) \in Nat
      BY <3>1, <3>2, LenProperties
    <3> QED BY <3>3 DEF Members
  <2>6. companion'.conn # 0 /\ socket'[companion'.conn] \in {"unused", "challenged"} =>
          companion'.step = "proving"
    <3>1. companion.conn # 0 => companion.conn \in Connection
      BY DEF Typed
    <3> QED BY <2>2, <2>3, <3>1 DEF Sockets
  <2> QED BY <2>2, <2>3, <2>4, <2>5, <2>6 DEF Sockets
<1>3. CASE ~Connect /\ ~Authenticates
  <2>1. \A n \in Connection : socket'[n] \in {"unused", "challenged", "authenticated"} =>
          socket'[n] = socket[n]
    BY <1>0, <1>3 DEF Frame
  <2>2. \A n \in Connection : socket[n] \in {"unused", "challenged"} => down'[n] = << >>
    <3>1. CASE Forwards
      <4>1. PICK c \in Calls : Forward(c)
        BY <3>1 DEF Forwards
      <4>2. down' = down \/ \E n \in Connection :
              socket[n] = "authenticated" /\ \A k \in Connection : k # n => down'[k] = down[k]
        <5>1. CASE Sent(c)
          <6> DEFINE n == call[c].socket
          <6>1. /\ socket[n] = "authenticated"
                /\ down' = [down EXCEPT ![n] = Append(@, RelayOf(call[c].request))]
            BY <5>1 DEF Sent
          <6>2. n \in Connection /\ DOMAIN down = Connection
            BY <4>1, ForwardCases DEF Typed
          <6> QED BY <6>1, <6>2
        <5>2. CASE Dropped(c) \/ Joined(c)
          BY <5>2 DEF Dropped, Joined
        <5> QED BY <4>1, <5>1, <5>2, ForwardCases
      <4> QED BY <4>2 DEF Sockets
    <3>2. CASE ~Forwards
      <4> SUFFICES ASSUME NEW n \in Connection, socket[n] \in {"unused", "challenged"}
                   PROVE  down'[n] = << >>
        OBVIOUS
      <4>1. Len(down'[n]) <= Len(down[n]) /\ down[n] = << >>
        BY <1>0, <1>3, <3>2 DEF Frame, Sockets, Rest
      <4>2. down'[n] \in Seq(Message) /\ Len(down[n]) = 0
        BY <4>1, EmptySeq DEF Typed
      <4>3. Len(down'[n]) = 0
        BY <4>1, <4>2, LenProperties
      <4> QED BY <4>2, <4>3, EmptySeq
    <3> QED BY <3>1, <3>2
  <2>3. \A n \in Connection : \/ Rest(up[n], up'[n])
                              \/ /\ socket[n] # "challenged"
                                 /\ \A m \in Members(up'[n]) : m \in Members(up[n]) \/ m.type = "answer"
    <3>1. CASE Answer
      <4> DEFINE n == companion.conn
      <4> DEFINE m == [type |-> "answer", seq |-> device'.companion,
                       request |-> companion.job.request]
      <4>1. /\ companion.step = "working" /\ n \in Connection /\ m \in Upward
            /\ up' = [up EXCEPT ![n] = IF n \in Live THEN Append(@, m) ELSE @]
        BY <3>1, AnswerCases
      <4>2. m.type = "answer"
        OBVIOUS
      <4> HIDE DEF m
      <4>3. socket[n] # "challenged"
        BY <4>1 DEF Sockets, Typed
      <4>4. Members(Append(up[n], m)) = Members(up[n]) \cup {m}
        BY <4>1, QueuesTyped, AppendedIs
      <4>5. \A k \in Connection : k # n => up'[k] = up[k]
        BY <4>1 DEF Typed
      <4>6. up'[n] = up[n] \/ up'[n] = Append(up[n], m)
        BY <4>1 DEF Typed
      <4> QED BY <4>1, <4>2, <4>3, <4>4, <4>5, <4>6, QueuesTyped, RestOfSame
    <3>2. CASE ~Answer
      BY <1>0, <1>3, <3>2 DEF Frame
    <3> QED BY <3>1, <3>2
  <2>4. \/ companion'.conn = 0
        \/ /\ companion'.conn = companion.conn
           /\ companion.step = "proving" =>
                companion'.step = "proving" \/ down[companion.conn] # << >>
    <3>1. CASE Takes
      <4>1. PICK n \in Connection : \E m \in RelaysUnder(n) : TakeRelay(m)
        BY <3>1 DEF Takes
      <4> QED BY <4>1, TakeIs
    <3> QED BY <1>0, <1>3, <3>1, CompanionMoves
  <2>5. session'.revoked => session.revoked \/ \A n \in Connection : socket'[n] # "authenticated"
    BY <1>0 DEF Frame
  <2> QED BY <2>1, <2>2, <2>3, <2>4, <2>5, SocketsSurvive
<1> QED BY <1>1, <1>2, <1>3

LEMMA DownOrderedStep ==
    ASSUME Typed, Typed', Sockets, DownOrdered, [Next]_vars PROVE DownOrdered'
<1>0. Frame /\ session.relay \in Nat /\ device.gateway \in Nat /\ companion.guard \in Nat
  BY Frames DEF Typed
<1>00. /\ \A n \in Connection : Carried(down[n], down[n])
       /\ \A n \in Connection : \A m \in Dated(down[n]) : m.seq \in Nat
  BY QueuesTyped, RestOfSame, RestCarries, MessageFields DEF Dated
<1>1. CASE Forwards
  <2>1. PICK c \in Calls : Forward(c)
    BY <1>1 DEF Forwards
  <2>2. UNCHANGED <<device, companion>> /\ session'.relay >= session.relay
    BY <1>0, <2>1, ForwardCases, ClaimedIs
  <2>3. CASE down' = down
    BY <1>00, <2>2, <2>3, DownSurvives
  <2>4. CASE Sent(c) /\ session' = Claimed(call[c].request)
    <3> DEFINE n == call[c].socket
               m == RelayOf(call[c].request)
    <3>1. n \in Connection /\ call[c].request \in Request
      BY <2>1, ForwardCases
    <3>2. /\ m \in Message /\ m.type = "relay" /\ m.seq = session.relay + 1
          /\ session'.relay = session.relay + 1
      BY <2>4, <3>1, ClaimedIs, RelayOfTyped
    <3>3. down' = [down EXCEPT ![n] = Append(@, m)]
      BY <2>4 DEF Sent
    <3> HIDE DEF m
    <3>4. \A k \in Connection : Rising(down[k]) /\ \A o \in Dated(down[k]) : o.seq <= session.relay
      BY DEF DownOrdered
    <3>5. \A o \in Dated(down[n]) : o.seq < m.seq
      BY <1>0, <1>00, <3>1, <3>2, <3>4
    <3>6. /\ Dated(Append(down[n], m)) \subseteq Dated(down[n]) \cup {m}
          /\ Rising(Append(down[n], m))
      BY <3>1, <3>2, <3>4, <3>5, QueuesTyped, AppendedIs
    <3>7. \A k \in Connection : down'[k] = IF k = n THEN Append(down[n], m) ELSE down[k]
      BY <3>3 DEF Typed
    <3>8. \A k \in Connection : Rising(down'[k])
      BY <3>4, <3>6, <3>7
    <3>9. ASSUME NEW k \in Connection, NEW o \in Dated(down'[k])
          PROVE  o = m \/ o \in Dated(down[k])
      BY <3>6, <3>7, <3>9
    <3>10. \A k \in Connection : \A o \in Dated(down'[k]) : o.seq <= session'.relay
      BY <1>0, <1>00, <3>2, <3>4, <3>9
    <3>11. /\ device.gateway <= session.relay /\ companion.guard <= device.gateway
           /\ companion.conn # 0 => \A o \in Dated(down[companion.conn]) : o.seq > device.gateway
      BY DEF DownOrdered
    <3>12. m.seq > device.gateway
      BY <1>0, <3>2, <3>11
    <3>13. companion.conn # 0 => \A o \in Dated(down'[companion.conn]) : o.seq > device.gateway
      <4>1. companion.conn # 0 => companion.conn \in Connection
        BY DEF Typed
      <4> QED BY <3>9, <3>11, <3>12, <4>1
    <3>14. device.gateway <= session'.relay
      BY <1>0, <3>2, <3>11
    <3> QED BY <2>2, <3>8, <3>10, <3>11, <3>13, <3>14 DEF DownOrdered
  <2> QED BY <2>1, <2>3, <2>4, ForwardCases DEF Dropped, Joined
<1>2. CASE Authenticates
  <2>1. PICK n \in Connection : Authenticate(n)
    BY <1>2 DEF Authenticates
  <2>2. /\ UNCHANGED <<device, companion>> /\ session'.relay = session.relay
        /\ \A k \in Connection : Carried(down[k], down'[k])
    BY <2>1, AuthenticateIs
  <2> QED BY <1>0, <2>2, DownSurvives
<1>3. CASE Connect
  <2>1. PICK n \in Connection :
          socket[n] = "unused" /\ companion' = [companion EXCEPT !.step = "proving", !.conn = n]
    BY <1>3, ConnectCases
  <2>2. UNCHANGED <<session, down>> /\ device'.gateway = device.gateway
    BY <1>3, ConnectCases, NumberedIs
  <2>3. companion'.conn = n /\ companion'.guard = companion.guard
    BY <2>1 DEF Typed
  <2>4. Dated(down[n]) = {}
    <3>1. down[n] = << >> /\ down[n] \in Seq(Message)
      BY <2>1 DEF Sockets, Typed
    <3> QED BY <3>1, RestOfNone
  <2> QED BY <2>2, <2>3, <2>4 DEF DownOrdered
<1>4. CASE Takes /\ ~Forwards /\ ~Authenticates
  <2>1. PICK n \in Connection : \E m \in RelaysUnder(n) : TakeRelay(m)
    BY <1>4 DEF Takes
  <2>2. PICK m \in RelaysUnder(n) : TakeRelay(m)
    BY <2>1
  <2> DEFINE d == companion.conn
  <2>3. /\ d \in Connection /\ down[d] # << >> /\ Head(down[d]) = m /\ m \in Relayed
        /\ m \in Dated(down[d]) /\ device'.gateway = m.seq /\ companion'.conn = d
        /\ companion'.guard = m.seq /\ down' = [down EXCEPT ![d] = Tail(@)]
    BY <2>2, TakeIs
  <2>4. session'.relay = session.relay /\ \A k \in Connection : Carried(down[k], down'[k])
    BY <1>0, <1>4, RestCarries DEF Frame
  <2>5. m.seq \in Nat /\ m.type = "relay"
    BY <2>3, MessageFields
  <2>6. \A o \in Dated(Tail(down[d])) : m.seq < o.seq
    BY <2>3, <2>5, QueuesTyped, RestOfTail DEF DownOrdered
  <2>7. down'[d] = Tail(down[d])
    BY <2>3 DEF Typed
  <2>8. \A k \in Connection : Rising(down'[k]) /\ \A o \in Dated(down'[k]) : o.seq <= session'.relay
    BY <2>4 DEF DownOrdered, Carried, Same
  <2>9. m.seq <= session.relay
    BY <2>3 DEF DownOrdered
  <2>10. \A o \in Dated(down'[d]) : o.seq > m.seq
    <3>1. \A o \in Dated(Tail(down[d])) : o.seq \in Nat
      BY <1>00, <2>3, <2>4, <2>7 DEF Carried, Same
    <3> QED BY <2>5, <2>6, <2>7, <3>1
  <2> QED BY <2>3, <2>4, <2>5, <2>8, <2>9, <2>10 DEF DownOrdered
<1>5. CASE ~Forwards /\ ~Authenticates /\ ~Connect /\ ~Takes
  <2>1. /\ session'.relay = session.relay /\ device'.gateway = device.gateway
        /\ \A k \in Connection : Carried(down[k], down'[k])
    BY <1>0, <1>5, RestCarries DEF Frame
  <2>2. companion'.conn \in {0, companion.conn} /\ companion'.guard \in {0, companion.guard}
    BY <1>0, <1>5, CompanionMoves
  <2> QED BY <1>0, <2>1, <2>2, DownSurvives
<1> QED BY <1>1, <1>2, <1>3, <1>4, <1>5

\* A message with the companion's next number goes up its present connection.
LEMMA UpNumbered ==
    ASSUME Typed, Typed', UpOrdered, NEW n \in Connection, NEW m \in Upward,
           NEW s \in Seq(Upward), Rising(s), \A k \in Dated(s) : k \in Dated(up[n]) \/ k = m,
           up' = [up EXCEPT ![n] = s], m.seq = device.companion + 1,
           device'.companion = device.companion + 1, session'.companion = session.companion,
           companion'.conn = n,
           companion.conn = n \/ Dated(s) \subseteq {m}
    PROVE  UpOrdered'
<1>1. session.companion \in Nat /\ device.companion \in Nat
  BY DEF Typed
<1>2. \A k \in Connection : \A o \in Dated(up[k]) : o.seq \in Nat
  BY QueuesTyped, UpwardFields
<1>3. \A k \in Connection : up'[k] = IF k = n THEN s ELSE up[k]
  BY DEF Typed
<1>4. /\ \A k \in Connection : Rising(up[k]) /\ \A o \in Dated(up[k]) : o.seq <= device.companion
      /\ session.companion <= device.companion
      /\ companion.conn # 0 => \A o \in Dated(up[companion.conn]) :
           /\ o.seq > session.companion
           /\ \A k \in Connection \ {companion.conn} : \A x \in Dated(up[k]) : x.seq < o.seq
  BY DEF UpOrdered
<1>5. \A k \in Connection : Rising(up'[k])
  BY <1>3, <1>4
<1>6. ASSUME NEW k \in Connection, NEW o \in Dated(up'[k]) PROVE o.seq <= device'.companion
  <2>1. o \in Dated(up[k]) \/ o = m
    BY <1>3, <1>6
  <2> QED BY <1>1, <1>2, <1>4, <2>1
<1>7. session'.companion <= device'.companion
  BY <1>1, <1>4
<1>8. ASSUME NEW o \in Dated(up'[n])
      PROVE  /\ o.seq > session.companion
             /\ \A k \in Connection \ {n} : \A x \in Dated(up'[k]) : x.seq < o.seq
  <2>1. o \in Dated(s) /\ \A k \in Connection \ {n} : up'[k] = up[k]
    BY <1>3, <1>8
  <2>2. CASE o = m
    <3>1. \A k \in Connection \ {n} : \A x \in Dated(up'[k]) : x.seq <= device.companion
      BY <1>4, <2>1
    <3>2. \A k \in Connection \ {n} : \A x \in Dated(up'[k]) : x.seq \in Nat
      BY <1>2, <2>1
    <3>3. o.seq = device.companion + 1
      BY <2>2
    <3> QED BY <1>1, <1>4, <3>1, <3>2, <3>3
  <2>3. CASE o # m
    <3>1. o \in Dated(up[n]) /\ companion.conn = n /\ n # 0
      BY <2>1, <2>3 DEF Connection
    <3> QED BY <1>4, <2>1, <3>1
  <2> QED BY <2>2, <2>3
<1> QED BY <1>5, <1>6, <1>7, <1>8 DEF UpOrdered

LEMMA UpOrderedStep ==
    ASSUME Typed, Typed', Sockets, UpOrdered, [Next]_vars PROVE UpOrdered'
<1>0. Frame /\ session.companion \in Nat /\ device.companion \in Nat
  BY Frames DEF Typed
<1>1. CASE Connect
  <2> DEFINE m == [type |-> "challenge", seq |-> device'.companion]
  <2>1. PICK n \in Connection : /\ up' = [up EXCEPT ![n] = <<m>>]
                                /\ companion' = [companion EXCEPT !.step = "proving", !.conn = n]
    BY <1>1, ConnectCases
  <2>2. /\ Numbered /\ UNCHANGED session /\ companion'.conn = n
        /\ device'.companion = device.companion + 1 /\ device'.companion \in Nat
    <3>1. Numbered /\ UNCHANGED session
      BY <1>1, ConnectCases
    <3> QED BY <2>1, <3>1, NumberedIs DEF Typed
  <2>3. m \in Upward /\ m.seq = device.companion + 1
    BY <2>2 DEF Upward
  <2> HIDE DEF m
  <2>4. <<m>> \in Seq(Upward) /\ Rising(<<m>>) /\ Dated(<<m>>) \subseteq {m}
    <3>1. <<m>> \in Seq(Upward) /\ DOMAIN <<m>> = {1} /\ <<m>>[1] = m
      BY <2>3
    <3> QED BY <3>1 DEF Rising, Dated, Members
  <2> QED BY <2>1, <2>2, <2>3, <2>4, UpNumbered
<1>2. CASE Answer
  <2> DEFINE n == companion.conn
  <2> DEFINE m == [type |-> "answer", seq |-> device'.companion, request |-> companion.job.request]
  <2>1. /\ companion.step = "working" /\ Numbered /\ n \in Connection /\ m \in Upward
        /\ companion' = [companion EXCEPT !.step = "ready", !.job = None]
        /\ UNCHANGED session
        /\ up' = [up EXCEPT ![n] = IF n \in Live THEN Append(@, m) ELSE @]
    BY <1>2, AnswerCases
  <2>2. /\ device'.companion = device.companion + 1 /\ companion'.conn = n
        /\ m.seq = device.companion + 1 /\ m.type = "answer"
    BY <2>1, NumberedIs DEF Typed
  <2> HIDE DEF m
  <2>3. CASE n \in Live
    <3>1. Append(up[n], m) \in Seq(Upward) /\ Dated(Append(up[n], m)) \subseteq Dated(up[n]) \cup {m}
      BY <2>1, QueuesTyped, AppendedIs
    <3>2. Rising(up[n]) /\ \A o \in Dated(up[n]) : o.seq <= device.companion /\ o.seq \in Nat
      BY <2>1, QueuesTyped, UpwardFields DEF UpOrdered
    <3>3. \A o \in Dated(up[n]) : o.seq < m.seq
      BY <1>0, <2>2, <3>2
    <3>4. Rising(Append(up[n], m))
      BY <2>1, <3>2, <3>3, QueuesTyped, AppendedIs
    <3>5. up' = [up EXCEPT ![n] = Append(up[n], m)]
      BY <2>1, <2>3
    <3> QED BY <2>1, <2>2, <3>1, <3>4, <3>5, UpNumbered
  <2>4. CASE n \notin Live
    <3>1. up' = up
      BY <2>1, <2>4 DEF Typed
    <3>2. \A k \in Connection : Carried(up[k], up'[k])
      BY <3>1, QueuesTyped, RestOfSame, RestCarries
    <3> QED BY <1>0, <2>1, <2>2, <3>2, UpSurvives
  <2> QED BY <2>3, <2>4
<1>3. ASSUME NEW n \in Connection, Authenticate(n) \/ TakeAnswer(n) \/ RefuseMessage(n)
      PROVE  UpOrdered'
  <2>1. /\ up[n] # << >> /\ UNCHANGED <<device, companion>>
        /\ up' = [up EXCEPT ![n] = Tail(@)] \/ up' = [up EXCEPT ![n] = << >>]
    BY <1>3 DEF Authenticate, TakeAnswer, RefuseMessage, local
  <2>2. session'.companion \in {session.companion, Head(up[n]).seq}
    <3>1. \/ session' = [session EXCEPT !.companion = Head(up[n]).seq]
          \/ session' = [session EXCEPT !.companion = @]
      BY <1>3 DEF Authenticate, TakeAnswer, RefuseMessage
    <3> QED BY <3>1 DEF Typed
  <2> QED BY <2>1, <2>2, UpTaken
<1>4. CASE /\ ~Connect /\ ~Answer
           /\ ~\E n \in Connection : Authenticate(n) \/ TakeAnswer(n) \/ RefuseMessage(n)
  <2>1. /\ session'.companion = session.companion /\ device'.companion = device.companion
        /\ \A n \in Connection : Carried(up[n], up'[n])
    BY <1>0, <1>4, RestCarries DEF Frame
  <2>2. companion'.conn \in {0, companion.conn}
    <3>1. CASE Takes
      <4>1. PICK n \in Connection : \E m \in RelaysUnder(n) : TakeRelay(m)
        BY <3>1 DEF Takes
      <4> QED BY <4>1, TakeIs
    <3> QED BY <1>0, <1>4, <3>1, CompanionMoves
  <2> QED BY <1>0, <2>1, <2>2, UpSurvives
<1> QED BY <1>1, <1>2, <1>3, <1>4

\* A call that is forwarded joins the others, is the first, or fails.
LEMMA ForwardAwaits ==
    ASSUME Typed, Typed', Sockets, Awaited, DownOrdered', NEW c \in Calls, Forward(c)
    PROVE  Awaited'
<1> DEFINE r == call[c].request
           n == call[c].socket
<1>1. /\ call[c].step = "claiming" /\ r \in Request /\ r.id \in Ids /\ n \in Connection
      /\ \/ session' = session /\ Dropped(c)
         \/ /\ session' = Claimed(r)
            /\ Joined(c) \/ Sent(c) \/ Dropped(c)
  BY ForwardCases, RequestFields
<1>2. /\ session'.relay >= session.relay /\ session'.revoked = session.revoked
      /\ session.relay \in Nat /\ session'.relay \in Nat
      /\ session' = Claimed(r) => session'.relay = session.relay + 1
  <2>1. session.relay \in Nat /\ session'.relay \in Nat
    BY DEF Typed
  <2>2. session' = Claimed(r) =>
          session'.relay = session.relay + 1 /\ session'.revoked = session.revoked
    BY <1>1, ClaimedIs
  <2> QED BY <1>1, <2>1, <2>2
<1>3. ASSUME down' = down PROVE \A k \in Connection : Carried(down[k], down'[k])
  BY <1>3, QueuesTyped, RestOfSame, RestCarries
<1>4. ASSUME call' = [call EXCEPT ![c] = Failure], UNCHANGED <<pending, down>> PROVE Awaited'
  <2>1. \A d \in Calls : /\ call'[d].step = "waiting" <=> call[d].step = "waiting"
                         /\ call[d].step = "waiting" => call'[d].request = call[d].request
    <3>1. call'[c].step = "failed" /\ \A d \in Calls : d # c => call'[d] = call[d]
      BY <1>4 DEF Typed, Failure
    <3> QED BY <1>1, <3>1
  <2> QED BY <1>2, <1>3, <1>4, <2>1, AwaitedSurvives
<1>5. /\ Waiter(c).step = "waiting" /\ Waiter(c).request = r
      /\ c \notin Waiting(r.id)
  BY <1>1, WaiterTyped DEF Waiting
<1>6. ASSUME call' = [call EXCEPT ![c] = Waiter(c)], NEW id \in Ids
      PROVE  /\ Waiting(id)' = Waiting(id) \cup (IF id = r.id THEN {c} ELSE {})
             /\ call'[c].request = r
             /\ \A d \in Calls : d # c => call'[d] = call[d]
  <2>1. call'[c] = Waiter(c) /\ \A d \in Calls : d # c => call'[d] = call[d]
    BY <1>6 DEF Typed
  <2>2. \A d \in Calls : d \in Waiting(id)' <=> call'[d].step = "waiting" /\ call'[d].request.id = id
    BY DEF Waiting
  <2>3. \A d \in Calls : d \in Waiting(id) <=> call[d].step = "waiting" /\ call[d].request.id = id
    BY DEF Waiting
  <2>4. Waiting(id) \subseteq Calls /\ Waiting(id)' \subseteq Calls
    BY DEF Waiting
  <2>5. c \in Waiting(id)' <=> id = r.id
    BY <1>5, <2>1, <2>2
  <2>6. \A d \in Calls : d # c => (d \in Waiting(id)' <=> d \in Waiting(id))
    BY <2>1, <2>2, <2>3
  <2>7. c \notin Waiting(id)
    BY <1>1, <2>3
  <2> QED BY <1>5, <2>1, <2>4, <2>5, <2>6, <2>7
<1>7. /\ \A id \in Ids : /\ (pending[id] = 0) <=> (Waiting(id) = {})
                         /\ \A x, y \in Waiting(id) : call[x].request = call[y].request
                         /\ pending[id] <= session.relay /\ pending[id] \in Nat
                         /\ pending[id] # 0 => \A k \in Connection : \A m \in Dated(down[k]) :
                              m.request.id = id => m.seq <= pending[id]
      /\ session.revoked => \A id \in Ids : pending[id] = 0
  BY DEF Awaited, Typed
<1>8. CASE Joined(c) /\ session' = Claimed(r)
  <2>1. /\ Waiting(r.id) # {} /\ UNCHANGED <<pending, down>>
        /\ call' = [call EXCEPT ![c] = IF \A d \in Waiting(r.id) : call[d].request = r
                                      THEN Waiter(c) ELSE Failure]
    BY <1>8 DEF Joined
  <2>2. CASE ~\A d \in Waiting(r.id) : call[d].request = r
    <3>1. call' = [call EXCEPT ![c] = Failure]
      BY <2>1, <2>2
    <3> QED BY <1>4, <2>1, <3>1
  <2>3. CASE \A d \in Waiting(r.id) : call[d].request = r
    <3>1. call' = [call EXCEPT ![c] = Waiter(c)]
      BY <2>1, <2>3
    <3>2. ASSUME NEW id \in Ids
          PROVE  /\ (pending'[id] = 0) <=> (Waiting(id)' = {})
                 /\ \A x, y \in Waiting(id)' : call'[x].request = call'[y].request
                 /\ pending'[id] <= session'.relay
      <4>1. /\ Waiting(id)' = Waiting(id) \cup (IF id = r.id THEN {c} ELSE {})
            /\ call'[c].request = r /\ \A d \in Calls : d # c => call'[d] = call[d]
        BY <1>6, <3>1
      <4>2. (pending'[id] = 0) <=> (Waiting(id)' = {})
        BY <1>7, <2>1, <4>1
      <4>3. \A x \in Waiting(id) : call'[x].request = call[x].request /\ x \in Calls
        BY <1>1, <4>1 DEF Waiting
      <4>4. \A x, y \in Waiting(id)' : call'[x].request = call'[y].request
        <5>1. CASE id = r.id
          <6>1. \A x \in Waiting(id)' : call'[x].request = r
            BY <2>3, <4>1, <4>3, <5>1
          <6> QED BY <6>1
        <5>2. CASE id # r.id
          BY <1>7, <4>1, <4>3, <5>2
        <5> QED BY <5>1, <5>2
      <4> QED BY <1>2, <1>7, <2>1, <4>2, <4>4
    <3>3. session'.revoked => \A id \in Ids : pending'[id] = 0
      BY <1>2, <1>7, <2>1
    <3>4. \A id \in Ids : pending'[id] # 0 => \A k \in Connection : \A m \in Dated(down'[k]) :
            m.request.id = id => m.seq <= pending'[id]
      BY <1>7, <2>1
    <3> QED BY <3>2, <3>3, <3>4 DEF Awaited
  <2> QED BY <2>2, <2>3
<1>9. CASE Sent(c) /\ session' = Claimed(r)
  <2> DEFINE m == RelayOf(r)
  <2>1. /\ Waiting(r.id) = {} /\ call' = [call EXCEPT ![c] = Waiter(c)]
        /\ pending' = [pending EXCEPT ![r.id] = session'.relay]
        /\ down' = [down EXCEPT ![n] = Append(@, m)]
    BY <1>9 DEF Sent
  <2>2. m \in Message /\ m.type = "relay" /\ m.request = r
    BY <1>1, <1>9, ClaimedIs, RelayOfTyped
  <2> HIDE DEF m
  <2>3. \A k \in Connection : \A o \in Dated(down'[k]) : o \in Dated(down[k]) \/ o = m
    <3>1. Dated(Append(down[n], m)) \subseteq Dated(down[n]) \cup {m}
      BY <1>1, <2>2, QueuesTyped, AppendedIs
    <3>2. \A k \in Connection : down'[k] = IF k = n THEN Append(down[n], m) ELSE down[k]
      BY <2>1 DEF Typed
    <3> QED BY <3>1, <3>2
  <2>4. \A id \in Ids : pending'[id] = IF id = r.id THEN session'.relay ELSE pending[id]
    BY <2>1 DEF Typed
  <2>5. ASSUME NEW id \in Ids
        PROVE  /\ (pending'[id] = 0) <=> (Waiting(id)' = {})
               /\ \A x, y \in Waiting(id)' : call'[x].request = call'[y].request
               /\ pending'[id] <= session'.relay
               /\ pending'[id] # 0 => \A k \in Connection : \A o \in Dated(down'[k]) :
                    o.request.id = id => o.seq <= pending'[id]
    <3>1. /\ Waiting(id)' = Waiting(id) \cup (IF id = r.id THEN {c} ELSE {})
          /\ call'[c].request = r /\ \A d \in Calls : d # c => call'[d] = call[d]
      BY <1>6, <2>1
    <3>2. CASE id = r.id
      <4>1. Waiting(id)' = {c} /\ pending'[id] = session'.relay /\ session'.relay > 0
        BY <1>2, <1>9, <2>1, <2>4, <3>1, <3>2
      <4>2. \A k \in Connection : \A o \in Dated(down'[k]) : o.seq <= session'.relay
        BY DEF DownOrdered
      <4> QED BY <1>2, <4>1, <4>2
    <3>3. CASE id # r.id
      <4>1. pending'[id] = pending[id] /\ Waiting(id)' = Waiting(id)
        BY <2>4, <3>1, <3>3
      <4>2. \A x \in Waiting(id) : call'[x].request = call[x].request
        BY <1>1, <3>1 DEF Waiting
      <4>3. \A k \in Connection : \A o \in Dated(down'[k]) : o.request.id = id => o \in Dated(down[k])
        BY <2>2, <2>3, <3>3
      <4>4. pending'[id] <= session'.relay
        BY <1>2, <1>7, <4>1
      <4> QED BY <1>7, <4>1, <4>2, <4>3, <4>4
    <3> QED BY <3>2, <3>3
  <2>6. session'.revoked => \A id \in Ids : pending'[id] = 0
    <3>1. ~session.revoked
      BY <1>1, <1>9 DEF Sockets, Sent, Authenticated
    <3> QED BY <1>2, <3>1
  <2> QED BY <2>5, <2>6 DEF Awaited
<1> QED BY <1>1, <1>4, <1>8, <1>9 DEF Dropped

LEMMA AwaitedStep ==
    ASSUME Typed, Typed', Sockets, Awaited, DownOrdered', [Next]_vars PROVE Awaited'
<1>0. Frame /\ session.relay \in Nat
  BY Frames DEF Typed
<1>1. CASE Forwards
  BY <1>1, ForwardAwaits DEF Forwards
<1>2. CASE ~Forwards
  <2>1. session'.relay = session.relay
    BY <1>0, <1>2 DEF Frame
  <2>2. \A n \in Connection : Carried(down[n], down'[n])
    <3>1. CASE Authenticates
      BY <3>1, AuthenticateIs DEF Authenticates
    <3> QED BY <1>0, <1>2, <3>1, RestCarries DEF Frame
  <2>3. CASE Failing
    BY <2>3, NoneAwaited DEF Failing
  <2>4. CASE Idling /\ ~Failing
    <3>1. session'.revoked => session.revoked
      BY <1>0, <2>4 DEF Frame
    <3>2. pending' = pending
      BY <2>4 DEF Idling
    <3>3. \A c \in Calls : /\ call'[c].step = "waiting" <=> call[c].step = "waiting"
                           /\ call[c].step = "waiting" => call'[c].request = call[c].request
      BY <2>4 DEF Idling
    <3> QED BY <1>0, <2>1, <2>2, <3>1, <3>2, <3>3, AwaitedSurvives
  <2>5. CASE Returning /\ ~Failing
    <3>1. session'.revoked => session.revoked
      BY <1>0, <2>5 DEF Frame
    <3>2. PICK id \in Ids, answer \in Request \cup {None} : Settle(id, answer)
      BY <2>5 DEF Returning
    <3> QED BY <1>0, <2>1, <2>2, <3>1, <3>2, AwaitedSettles
  <2> QED BY <1>0, <1>2, <2>3, <2>4, <2>5 DEF Frame
<1> QED BY <1>1, <1>2

\* What is remembered stays remembered, under one request for an identifier.
LEMMA CorrelationsGrow ==
    ASSUME Typed, Sockets, Correlated, [Next]_vars, expiries = 0, expiries' = 0
    PROVE  /\ Correlations \subseteq Correlations'
           /\ \A k \in session'.known : k.age # "expired"
           /\ \A q, r \in Correlations' : q.id = r.id => q = r
           /\ \A c \in Calls : Forward(c) /\ session' = Claimed(call[c].request) =>
                call[c].request \in Correlations'
<1>0. /\ Frame /\ \A k \in session.known : k.age # "expired"
      /\ \A q, r \in Correlations : q.id = r.id => q = r
  BY Frames DEF Correlated
<1>1. Remembered = session.known
  BY <1>0 DEF Remembered
<1>2. ASSUME NEW c \in Calls, Forward(c), session' = Claimed(call[c].request),
             ~Conflicting(call[c].request)
      PROVE  /\ Correlations \subseteq Correlations'
             /\ \A k \in session'.known : k.age # "expired"
             /\ \A q, r \in Correlations' : q.id = r.id => q = r
             /\ call[c].request \in Correlations'
  <2> DEFINE r == call[c].request
             fresh == [request |-> r, age |-> "new"]
  <2>1. session'.known = session.known \cup (IF \E k \in session.known : k.request = r
                                             THEN {} ELSE {fresh})
    BY <1>1, <1>2, ForwardCases, ClaimedIs
  <2>2. fresh.request = r /\ fresh.age = "new"
    OBVIOUS
  <2>3. \A k \in session.known : k.request.id = r.id => k.request = r
    BY <1>1, <1>2 DEF Conflicting
  <2> HIDE DEF r, fresh
  <2>4. \A k \in session'.known : k \in session.known \/ k = fresh
    BY <2>1
  <2>5. \A q \in Correlations' : q \in Correlations \/ q = r
    BY <2>2, <2>4 DEF Correlations
  <2>6. \A q \in Correlations : q.id = r.id => q = r
    BY <2>3 DEF Correlations
  <2>7. Correlations \subseteq Correlations'
    BY <2>1 DEF Correlations
  <2>8. r \in Correlations'
    <3>1. CASE \E k \in session.known : k.request = r
      BY <2>1, <3>1 DEF Correlations
    <3>2. CASE ~\E k \in session.known : k.request = r
      <4>1. fresh \in session'.known
        BY <2>1, <3>2
      <4> QED BY <2>2, <4>1 DEF Correlations
    <3> QED BY <3>1, <3>2
  <2>9. \A q, x \in Correlations' : q.id = x.id => q = x
    BY <1>0, <2>5, <2>6
  <2>10. \A k \in session'.known : k.age # "expired"
    BY <1>0, <2>2, <2>4
  <2> QED BY <2>7, <2>8, <2>9, <2>10 DEF r
<1>3. CASE session'.known = session.known
  <2>1. Correlations' = Correlations
    BY <1>3 DEF Correlations
  <2>2. \A c \in Calls : Forward(c) /\ session' = Claimed(call[c].request) =>
          call[c].request \in Correlations'
    <3> SUFFICES ASSUME NEW c \in Calls, Forward(c), session' = Claimed(call[c].request)
                 PROVE  call[c].request \in Correlations'
      OBVIOUS
    <3>1. CASE ~Conflicting(call[c].request)
      BY <1>2, <3>1
    <3>2. CASE Conflicting(call[c].request)
      <4>1. session' = session
        BY <3>2, ForwardCases
      <4>2. session'.relay = session.relay + 1 /\ session.relay \in Nat
        BY ForwardCases, ClaimedIs DEF Typed
      <4> QED BY <4>1, <4>2
    <3> QED BY <3>1, <3>2
  <2> QED BY <1>0, <1>3, <2>1, <2>2
<1>4. CASE Forwards /\ session'.known # session.known
  <2>1. PICK c \in Calls : Forward(c)
    BY <1>4 DEF Forwards
  <2>2. session' = Claimed(call[c].request) /\ ~Conflicting(call[c].request)
    BY <1>4, <2>1, ForwardCases
  <2>3. ASSUME NEW d \in Calls, Forward(d), session' = Claimed(call[d].request)
        PROVE  call[d].request \in Correlations'
    <3>1. ~Conflicting(call[d].request)
      BY <1>4, <2>3, ForwardCases
    <3> QED BY <1>2, <2>3, <3>1
  <2> QED BY <1>2, <2>1, <2>2, <2>3
<1>5. CASE Wait
  <2> DEFINE Aged(k) == [k EXCEPT !.age = IF @ = "new" THEN "old" ELSE @]
  <2>1. session'.known = { Aged(k) : k \in session.known } /\ session'.relay = session.relay
    BY <1>5 DEF Wait, Typed
  <2>3. \A k \in session.known : Aged(k).request = k.request /\ Aged(k).age # "expired"
    BY <1>0 DEF Typed, Correlation
  <2> HIDE DEF Aged
  <2>4. Correlations' = Correlations
    BY <2>1, <2>3 DEF Correlations
  <2>5. \A k \in session'.known : k.age # "expired"
    BY <2>1, <2>3
  <2>6. ASSUME NEW c \in Calls, Forward(c), session' = Claimed(call[c].request) PROVE FALSE
    <3>1. session'.relay = session.relay + 1 /\ session.relay \in Nat
      BY <2>6, ForwardCases, ClaimedIs DEF Typed
    <3> QED BY <2>1, <3>1
  <2> QED BY <1>0, <2>4, <2>5, <2>6
<1>6. ASSUME NEW k \in session.known, Expire(k) PROVE FALSE
  BY <1>6 DEF Expire
<1>7. session'.known = session.known \/ Forwards \/ Wait \/ \E k \in session.known : Expire(k)
  BY <1>0 DEF Frame
<1> QED BY <1>3, <1>4, <1>5, <1>6, <1>7

LEMMA CorrelatedStep ==
    ASSUME Typed, Typed', Sockets, Correlated, [Next]_vars PROVE Correlated'
<1>0. Frame /\ expiries \in Nat
  <2>1. expiries \in 0 .. MaxExpiries
    BY DEF Typed
  <2> QED BY <2>1, Frames
<1> SUFFICES ASSUME expiries = 0, expiries' = 0 PROVE Correlated'
  BY <1>0 DEF Frame, Correlated
<1>1. /\ Correlations \subseteq Correlations'
      /\ \A k \in session'.known : k.age # "expired"
      /\ \A q, r \in Correlations' : q.id = r.id => q = r
      /\ \A c \in Calls : Forward(c) /\ session' = Claimed(call[c].request) =>
           call[c].request \in Correlations'
  BY CorrelationsGrow
<1>2. /\ \A q, r \in Correlations : q.id = r.id => q = r
      /\ \A n \in Connection : \A m \in Dated(down[n]) : m.request \in Correlations
      /\ \A n \in Connection : \A m \in Dated(up[n]) :
           m.type = "answer" => m.request \in Correlations
      /\ companion.job # None => companion.job.request \in Correlations
      /\ \A c \in Calls : /\ call[c].step = "waiting" => call[c].request \in Correlations
                          /\ call[c].step = "answered" => call[c].answer = call[c].request
  BY DEF Correlated
<1>3. \A n \in Connection : \A m \in Dated(down'[n]) : m.request \in Correlations'
  <2>1. CASE Forwards
    <3>1. PICK c \in Calls : Forward(c)
      BY <2>1 DEF Forwards
    <3>2. CASE down' = down
      BY <1>1, <1>2, <3>2
    <3>3. CASE Sent(c) /\ session' = Claimed(call[c].request)
      <4> DEFINE r == call[c].request
                 k == call[c].socket
                 m == RelayOf(r)
      <4>1. r \in Request /\ k \in Connection /\ r \in Correlations'
        BY <1>1, <3>1, <3>3, ForwardCases
      <4>2. m \in Message /\ m.request = r
        BY <3>3, <4>1, ClaimedIs, RelayOfTyped
      <4>3. down' = [down EXCEPT ![k] = Append(@, m)]
        BY <3>3 DEF Sent
      <4> HIDE DEF m
      <4>4. Dated(Append(down[k], m)) \subseteq Dated(down[k]) \cup {m}
        BY <4>1, <4>2, QueuesTyped, AppendedIs
      <4>5. \A n \in Connection : down'[n] = IF n = k THEN Append(down[k], m) ELSE down[n]
        BY <4>3 DEF Typed
      <4>6. \A n \in Connection : \A o \in Dated(down'[n]) : o \in Dated(down[n]) \/ o = m
        BY <4>4, <4>5
      <4> QED BY <1>1, <1>2, <4>1, <4>2, <4>6
    <3> QED BY <3>1, <3>2, <3>3, ForwardCases DEF Dropped, Joined
  <2>2. CASE ~Forwards
    <3>1. \A n \in Connection : Carried(down[n], down'[n])
      <4>1. CASE Authenticates
        BY <4>1, AuthenticateIs DEF Authenticates
      <4> QED BY <1>0, <2>2, <4>1, RestCarries DEF Frame
    <3> QED BY <1>1, <1>2, <3>1 DEF Carried, Same
  <2> QED BY <2>1, <2>2
<1>4. \A n \in Connection : \A m \in Dated(up'[n]) : m.type = "answer" => m.request \in Correlations'
  <2>1. CASE Connect
    <3> DEFINE m == [type |-> "challenge", seq |-> device'.companion]
    <3>1. PICK n \in Connection : up' = [up EXCEPT ![n] = <<m>>]
      BY <2>1, ConnectCases
    <3>2. m.type = "challenge"
      OBVIOUS
    <3> HIDE DEF m
    <3>3. Dated(<<m>>) \subseteq {m}
      <4>1. DOMAIN <<m>> = {1} /\ <<m>>[1] = m
        OBVIOUS
      <4> QED BY <4>1 DEF Dated, Members
    <3>4. \A k \in Connection : up'[k] = IF k = n THEN <<m>> ELSE up[k]
      BY <3>1 DEF Typed
    <3> QED BY <1>1, <1>2, <3>2, <3>3, <3>4
  <2>2. CASE Answer
    <3> DEFINE n == companion.conn
    <3> DEFINE m == [type |-> "answer", seq |-> device'.companion,
                     request |-> companion.job.request]
    <3>1. /\ companion.step = "working" /\ n \in Connection /\ m \in Upward
          /\ up' = [up EXCEPT ![n] = IF n \in Live THEN Append(@, m) ELSE @]
      BY <2>2, AnswerCases
    <3>2. m.request \in Correlations'
      <4>1. companion.job # None
        BY <3>1 DEF Typed
      <4> QED BY <1>1, <1>2, <4>1
    <3> HIDE DEF m
    <3>3. Dated(Append(up[n], m)) \subseteq Dated(up[n]) \cup {m}
      BY <3>1, QueuesTyped, AppendedIs
    <3>4. \A k \in Connection : up'[k] = up[k] \/ (k = n /\ up'[k] = Append(up[n], m))
      BY <3>1 DEF Typed
    <3>5. \A k \in Connection : \A o \in Dated(up'[k]) : o \in Dated(up[k]) \/ o = m
      BY <3>3, <3>4
    <3> QED BY <1>1, <1>2, <3>2, <3>5
  <2>3. CASE ~Connect /\ ~Answer
    <3>1. \A n \in Connection : Carried(up[n], up'[n])
      BY <1>0, <2>3, RestCarries DEF Frame
    <3> QED BY <1>1, <1>2, <3>1 DEF Carried, Same
  <2> QED BY <2>1, <2>2, <2>3
<1>5. companion'.job # None => companion'.job.request \in Correlations'
  <2>1. CASE Takes
    <3>1. PICK n \in Connection : \E m \in RelaysUnder(n) : TakeRelay(m)
      BY <2>1 DEF Takes
    <3>2. PICK m \in RelaysUnder(n) : TakeRelay(m)
      BY <3>1
    <3>3. companion'.job = m /\ companion.conn \in Connection /\ m \in Dated(down[companion.conn])
      BY <3>2, TakeIs
    <3> QED BY <1>1, <1>2, <3>3
  <2>2. CASE Connect
    <3>1. companion'.job = companion.job
      <4>1. PICK n \in Connection : companion' = [companion EXCEPT !.step = "proving", !.conn = n]
        BY <2>2, ConnectCases
      <4> QED BY <4>1 DEF Typed
    <3> QED BY <1>1, <1>2, <3>1
  <2>3. CASE ~Takes /\ ~Connect
    <3>1. companion'.job \in {companion.job, None}
      BY <1>0, <2>3, CompanionMoves
    <3> QED BY <1>1, <1>2, <3>1
  <2> QED BY <2>1, <2>2, <2>3
<1>6. ASSUME NEW c \in Calls
      PROVE  /\ call'[c].step = "waiting" => call'[c].request \in Correlations'
             /\ call'[c].step = "answered" => call'[c].answer = call'[c].request
  <2>1. CASE Idling \/ Failing
    BY <1>1, <1>2, <2>1 DEF Idling, Failing
  <2>2. CASE Returning
    <3>1. PICK id \in Ids, answer \in Request \cup {None} :
            /\ Settle(id, answer)
            /\ answer # None => /\ answer.id = id
                                /\ \E n \in Connection : \E m \in Dated(up[n]) :
                                     m.type = "answer" /\ m.request = answer
      BY <2>2 DEF Returning
    <3>2. CASE c \notin Waiting(id)
      BY <1>1, <1>2, <3>1, <3>2, SettledIs
    <3>3. CASE c \in Waiting(id)
      <4>1. /\ call'[c].step \in {"answered", "failed"}
            /\ call'[c].step = "answered" =>
                 call'[c].answer = answer /\ call'[c].request = call[c].request
        BY <3>1, <3>3, SettledIs
      <4>2. call[c].request \in Correlations /\ call[c].request.id = id
        BY <1>2, <3>3 DEF Waiting
      <4>3. answer # None => answer = call[c].request
        BY <1>2, <3>1, <4>2
      <4>4. answer = None => call'[c].step # "answered"
        <5> SUFFICES ASSUME answer = None PROVE call'[c].step # "answered"
          OBVIOUS
        <5>1. call'[c] = Failure
          <6>1. Settle(id, None)
            BY <3>1
          <6>2. call'[c] = IF c \notin Waiting(id) THEN call[c] ELSE Failure
            BY <6>1, Zenon DEF Settle
          <6> QED BY <3>3, <6>2
        <5> QED BY <5>1 DEF Failure
      <4> QED BY <4>1, <4>3, <4>4
    <3> QED BY <3>2, <3>3
  <2>3. CASE Forwards
    <3>1. PICK d \in Calls : Forward(d)
      BY <2>3 DEF Forwards
    <3>4. \/ call' = [call EXCEPT ![d] = Failure]
          \/ call' = [call EXCEPT ![d] = Waiter(d)] /\ session' = Claimed(call[d].request)
      <4>1. ASSUME Joined(d)
            PROVE  call' = [call EXCEPT ![d] = Failure] \/ call' = [call EXCEPT ![d] = Waiter(d)]
        BY <4>1 DEF Joined
      <4>2. ASSUME Sent(d) PROVE call' = [call EXCEPT ![d] = Waiter(d)]
        BY <4>2 DEF Sent
      <4> QED BY <3>1, <4>1, <4>2, ForwardCases DEF Dropped
    <3>2. CASE c # d
      <4>1. call'[c] = call[c]
        BY <3>2, <3>4 DEF Typed
      <4> QED BY <1>1, <1>2, <4>1
    <3>3. CASE c = d
      <4>1. \/ call'[c] = Failure
            \/ call'[c] = Waiter(c) /\ session' = Claimed(call[c].request)
        BY <3>3, <3>4 DEF Typed
      <4>2. Waiter(c).step = "waiting" /\ Waiter(c).request = call[c].request
        BY <3>1, <3>3, ForwardCases, WaiterTyped
      <4> QED BY <1>1, <3>1, <3>3, <4>1, <4>2 DEF Failure
    <3> QED BY <3>2, <3>3
  <2> QED BY <1>0, <2>1, <2>2, <2>3 DEF Frame
<1> QED BY <1>1, <1>3, <1>4, <1>5, <1>6 DEF Correlated
-----------------------------------------------------------------------------
(* The invariant. *)

LEMMA InvInit == Init => Inv
<1> SUFFICES ASSUME Init PROVE Inv
  OBVIOUS
<1>1. /\ \A n \in Connection : down[n] = << >> /\ up[n] = << >> /\ socket[n] = "unused"
      /\ \A c \in Calls : call[c].step = "idle"
  BY DEF Init
<1>2. << >> \in Seq(Message) /\ << >> \in Seq(Upward) /\ Len(<< >>) = 0
  BY EmptySeq
<1>3. Rising(<< >>) /\ Dated(<< >>) = {} /\ Members(<< >>) = {}
  <2>1. DOMAIN << >> = {}
    OBVIOUS
  <2> QED BY <2>1 DEF Rising, Dated, Members
<1>4. Typed
  <2>1. call \in [Calls -> [step: {"idle", "claiming", "waiting", "answered", "failed"},
                            request: Request \cup {None}, socket: Connection \cup {0},
                            answer: Request \cup {None}]]
    BY DEF Init
  <2>2. down \in [Connection -> Seq(Message)] /\ up \in [Connection -> Seq(Upward)]
    BY <1>2 DEF Init
  <2>3. expiries \in 0 .. MaxExpiries
    BY RelayBounds DEF Init
  <2> QED BY <2>1, <2>2, <2>3 DEF Init, Typed
<1>5. Authenticated = {}
  BY <1>1 DEF Authenticated
<1>6. \A id \in Ids : Waiting(id) = {}
  BY <1>1 DEF Waiting
<1>7. Sockets
  BY <1>1, <1>3, <1>5 DEF Sockets, Init
<1>8. DownOrdered /\ UpOrdered
  BY <1>1, <1>3 DEF DownOrdered, UpOrdered, Init
<1>9. Awaited
  BY <1>1, <1>3, <1>6 DEF Awaited, Init
<1>10. Correlated
  BY <1>1, <1>3 DEF Correlated, Correlations, Init
<1> QED BY <1>4, <1>7, <1>8, <1>9, <1>10 DEF Inv

LEMMA InvStep == Inv /\ [Next]_vars => Inv'
BY TypedStep, SocketsStep, DownOrderedStep, UpOrderedStep, AwaitedStep, CorrelatedStep DEF Inv

LEMMA InvAlways == Spec => []Inv
BY InvInit, InvStep, PTL DEF Spec

\* A call is answered with what the companion did for this very request, though
\* answers name an identifier only, are shared and come late: while correlations
\* are remembered (DeviceSession.claimRelay refuses other headers under a known
\* identifier) the answers under way are those of the requests awaited; and no
\* late answer ends a connection.
THEOREM AnswersAreOwn == Spec => []OwnAnswer
<1>1. Inv => OwnAnswer
  <2> SUFFICES ASSUME Inv, expiries = 0
               PROVE  /\ \A c \in Calls : call[c].step = "answered" => call[c].answer = call[c].request
                      /\ LateAnswersAreHarmless
    BY DEF OwnAnswer
  <2>1. \A c \in Calls : call[c].step = "answered" => call[c].answer = call[c].request
    BY DEF Inv, Correlated
  <2>2. ASSUME NEW n \in Connection, NEW i \in DOMAIN up[n], up[n][i].type = "answer"
        PROVE  Expected(up[n][i])
    <3>1. up[n][i] \in Dated(up[n])
      BY <2>2, QueuesTyped DEF Inv, Members
    <3>2. up[n][i].request \in Correlations
      BY <2>2, <3>1 DEF Inv, Correlated
    <3> QED BY <3>2 DEF Expected, Correlations
  <2> QED BY <2>1, <2>2 DEF LateAnswersAreHarmless
<1> QED BY <1>1, InvAlways, PTL

\* Identical calls share one relay on one socket: a call waits exactly where a
\* relay is registered for its identifier, no newer relay of it is under way, one
\* socket at most is authenticated, and a revocation leaves none and nobody
\* waiting (DeviceSession.forward, authenticate and revoke).
THEOREM RelaysAreShared == Spec => []SharedRelay
<1>1. Inv => SharedRelay
  <2> SUFFICES ASSUME Inv PROVE SharedRelay
    OBVIOUS
  <2>1. TypeOK
    BY DEF Inv, Typed, TypeOK, Message
  <2>2. Cardinality(Authenticated) <= 1
    <3>1. CASE Authenticated = {}
      BY <3>1, FS_EmptySet
    <3>2. CASE Authenticated # {}
      <4>1. PICK n \in Authenticated : TRUE
        BY <3>2
      <4>2. Authenticated = {n}
        BY <4>1 DEF Inv, Sockets
      <4> QED BY <4>2, FS_Singleton
    <3> QED BY <3>1, <3>2
  <2>3. \A id \in Ids : pending[id] # 0 =>
          \A n \in Connection : \A m \in RelaysUnder(n) :
            m.request.id = id => m.seq <= pending[id]
    BY QueuesTyped DEF Inv, Awaited
  <2>4. session.revoked => Authenticated = {} /\ \A id \in Ids : pending[id] = 0
    BY DEF Inv, Awaited, Sockets
  <2>5. \A id \in Ids : /\ (pending[id] = 0) <=> (Waiting(id) = {})
                        /\ \A c, d \in Waiting(id) : call[c].request = call[d].request
    BY DEF Inv, Awaited
  <2> QED BY <2>1, <2>2, <2>3, <2>4, <2>5 DEF SharedRelay
<1> QED BY <1>1, InvAlways, PTL

\* No honest message is taken for a replay, through retries, reconnections,
\* crashes and restarts on either side: the companion's two guards agree with the
\* order of arrival, and the gateway finds what comes on its present connection
\* newer than all it took (the sequence checks of device-session.ts and of the
\* companion's relay loop).
THEOREM MessagesKeepOrder == Spec => []MessagesInOrder
<1>1. Inv => MessagesInOrder
  <2> SUFFICES ASSUME Inv PROVE MessagesInOrder
    OBVIOUS
  <2>1. /\ companion.conn # 0 => companion.conn \in Connection
        /\ companion.step = "ready" => companion.conn # 0
        /\ device.gateway \in Nat /\ companion.guard \in Nat /\ companion.guard <= device.gateway
    BY DEF Inv, Typed, DownOrdered
  <2>2. ASSUME companion.step = "ready", NEW m \in RelaysUnder(companion.conn)
        PROVE  m.seq > companion.guard /\ m.seq > device.gateway
    <3>1. companion.conn \in Connection /\ companion.conn # 0
      BY <2>1, <2>2
    <3>2. m \in Dated(down[companion.conn])
      BY <2>2, <3>1, QueuesTyped DEF Inv
    <3>3. m.seq > device.gateway
      BY <3>1, <3>2 DEF Inv, DownOrdered
    <3>4. m.seq \in Nat
      BY <3>1, <3>2, QueuesTyped, MessageFields DEF Inv, Dated
    <3> QED BY <2>1, <3>3, <3>4
  <2>3. ASSUME companion.conn \in Live, NEW i \in DOMAIN up[companion.conn]
        PROVE  up[companion.conn][i].seq > session.companion
    <3>1. companion.conn \in Connection /\ companion.conn # 0
      BY <2>3 DEF Live, Connection
    <3>2. up[companion.conn][i] \in Dated(up[companion.conn])
      BY <2>3, <3>1, QueuesTyped DEF Inv, Members
    <3> QED BY <3>1, <3>2 DEF Inv, UpOrdered
  <2> QED BY <2>2, <2>3 DEF MessagesInOrder
<1> QED BY <1>1, InvAlways, PTL
=============================================================================
