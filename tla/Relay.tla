----------------------------------- MODULE Relay -----------------------------------
(***************************************************************************)
(* The relay between the public gateway and a paired local companion.      *)
(*                                                                         *)
(* The gateway's DeviceSession keeps a durable session record, the calls   *)
(* that wait for an answer in memory, and the companion's sockets.  The    *)
(* companion keeps durable counters, handles one relay after another and   *)
(* reconnects when its connection ends.  Calls come from ChatGPT; the      *)
(* companion's pairing control talks to the gateway over HTTP, beside the  *)
(* socket, under sequence numbers of its own.                              *)
(*                                                                         *)
(* The session is registered, approved and authorized; signatures, scopes  *)
(* and nonces of honest parties are valid.  The Durable Object runtime     *)
(* delivers no event between the end of a storage transaction and the code *)
(* that awaited it, so an action is a transaction with what follows it.    *)
(***************************************************************************)
EXTENDS Naturals, Sequences, FiniteSets

CONSTANTS
    Calls,          \* public MCP invocations, each made once
    Ids,            \* request identifiers: the digests of method and body
    Headers,        \* forwarded headers, which the identifier does not cover
    MaxConnections, \* bounds on the environment's steps
    MaxControls,
    MaxExpiries,
    None            \* an absent value

Connection == 1 .. MaxConnections
Request == [id: Ids, headers: Headers]

\* Thirty minutes after its first claim a correlation is expired.
Correlation == [request: Request, age: {"new", "old", "expired"}]
Relayed == [type: {"relay"}, seq: Nat, request: Request, late: BOOLEAN]
Ready == [type |-> "ready"]
Upward == [type: {"challenge"}, seq: Nat] \cup [type: {"answer"}, seq: Nat, request: Request]

ASSUME RelayBounds ==
    /\ MaxConnections \in Nat /\ MaxControls \in Nat /\ MaxExpiries \in Nat
    /\ None \notin Request \cup Relayed

VARIABLES
    session,    \* gateway: the durable session record
    pending,    \* gateway: the relay sequence each awaited identifier was sent under, or 0
    socket,     \* gateway: its end of each connection
    call,       \* gateway: the handler of each public invocation
    device,     \* companion: its durable counters
    companion,  \* companion: its connection and the relay it works on
    down, up,   \* messages under way to and from the companion, by connection
    control,    \* pairing control requests under way
    expiries

gateway == <<session, pending, socket, call>>
local == <<device, companion>>
vars == <<session, pending, socket, call, device, companion, down, up, control,
          expiries>>

TypeOK ==
    /\ session \in [relay: Nat, companion: Nat, control: Nat,
                    known: SUBSET Correlation, revoked: BOOLEAN]
    /\ pending \in [Ids -> Nat]
    /\ socket \in [Connection ->
                    {"unused", "challenged", "authenticated", "closing", "closed"}]
    /\ call \in [Calls -> [step: {"idle", "claiming", "waiting", "answered", "failed"},
                           request: Request \cup {None},
                           socket: Connection \cup {0},
                           answer: Request \cup {None}]]
    /\ device \in [companion: Nat, control: Nat, gateway: Nat]
    /\ companion \in [step: {"offline", "proving", "ready", "working"},
                      conn: Connection \cup {0},
                      guard: Nat,
                      job: Relayed \cup {None}]
    /\ down \in [Connection -> Seq(Relayed \cup {Ready})]
    /\ up \in [Connection -> Seq(Upward)]
    /\ control \subseteq [kind: {"status", "revoke"}, seq: Nat]
    /\ expiries \in 0 .. MaxExpiries
    /\ \A c \in Calls : call[c].socket # 0 <=> call[c].step = "claiming"
    /\ companion.conn = 0 <=> companion.step = "offline"
    /\ companion.job # None <=> companion.step = "working"

Init ==
    /\ session = [relay |-> 0, companion |-> 0, control |-> 0, known |-> {},
                  revoked |-> FALSE]
    /\ pending = [i \in Ids |-> 0]
    /\ socket = [n \in Connection |-> "unused"]
    /\ call = [c \in Calls |-> [step |-> "idle", request |-> None, socket |-> 0,
                                answer |-> None]]
    /\ device = [companion |-> 0, control |-> 0, gateway |-> 0]
    /\ companion = [step |-> "offline", conn |-> 0, guard |-> 0, job |-> None]
    /\ down = [n \in Connection |-> << >>]
    /\ up = [n \in Connection |-> << >>]
    /\ control = {}
    /\ expiries = 0
----------------------------------------------------------------------------
Live == { n \in Connection : socket[n] \in {"challenged", "authenticated"} }
Authenticated == { n \in Connection : socket[n] = "authenticated" }
Waiting(id) == { c \in Calls : call[c].step = "waiting" /\ call[c].request.id = id }

\* Nothing more is said of a call that failed.
Failure == [step |-> "failed", request |-> None, socket |-> 0, answer |-> None]

\* Every awaited call fails at once.
RejectPending ==
    /\ pending' = [i \in Ids |-> 0]
    /\ call' = [c \in Calls |-> IF call[c].step = "waiting" THEN Failure ELSE call[c]]

\* Only the calls that await this identifier return.
Settle(id, answer) ==
    /\ pending' = [pending EXCEPT ![id] = 0]
    /\ call' = [c \in Calls |->
                    IF c \notin Waiting(id) THEN call[c]
                    ELSE IF answer = None THEN Failure
                    ELSE [call[c] EXCEPT !.step = "answered", !.answer = answer]]
----------------------------------------------------------------------------
(***************************************************************************)
(* Public invocations.                                                     *)
(***************************************************************************)

\* The socket is chosen before the relay is claimed.
Arrive(c, r) ==
    /\ call[c].step = "idle" /\ ~session.revoked
    /\ IF Authenticated = {}
       THEN call' = [call EXCEPT ![c] = Failure]
       ELSE \E n \in Authenticated :
                call' = [call EXCEPT ![c].step = "claiming", ![c].request = r,
                                     ![c].socket = n]
    /\ UNCHANGED <<session, pending, socket, local, down, up, control, expiries>>

Remembered == { k \in session.known : k.age # "expired" }

\* Mutation: the same identifier may come back with other headers.
NoConflict(r) == FALSE

Conflicting(r) == \E k \in Remembered : k.request.id = r.id /\ k.request # r

\* Mutation: a repeated request keeps the sequence number it had.
RepeatedClaim(r) ==
    IF \E k \in Remembered : k.request = r
    THEN session
    ELSE [session EXCEPT
            !.relay = @ + 1,
            !.known = Remembered \cup {[request |-> r, age |-> "new"]}]

\* A repeated request gets a new sequence number and keeps its old correlation.
Claimed(r) ==
    [session EXCEPT
        !.relay = @ + 1,
        !.known = Remembered \cup
            IF \E k \in Remembered : k.request = r
            THEN {}
            ELSE {[request |-> r, age |-> "new"]}]

Refused(c) ==
    /\ session.revoked \/ Conflicting(call[c].request)
    /\ call' = [call EXCEPT ![c] = Failure]
    /\ UNCHANGED <<session, pending, down>>

RelayOf(r) == [type |-> "relay", seq |-> session'.relay, request |-> r, late |-> FALSE]

\* Mutation: the message of a joined call is sent as well.
JoinAndSend(c) ==
    LET r == call[c].request
    IN  /\ Waiting(r.id) # {}
        /\ call' = [call EXCEPT ![c].step = "waiting", ![c].socket = 0]
        /\ down' = [down EXCEPT ![call[c].socket] = Append(@, RelayOf(r))]
        /\ UNCHANGED pending

\* The identifier is already awaited: join the call that sent it.
Join(c) ==
    LET r == call[c].request
    IN  /\ Waiting(r.id) # {}
        /\ call' = [call EXCEPT ![c] =
                        IF \A d \in Waiting(r.id) : call[d].request = r
                        THEN [@ EXCEPT !.step = "waiting", !.socket = 0]
                        ELSE Failure]
        /\ UNCHANGED <<pending, down>>

\* A socket the gateway has closed refuses the message.
SendRelay(c) ==
    LET r == call[c].request
        n == call[c].socket
    IN  /\ Waiting(r.id) = {}
        /\ IF socket[n] = "authenticated"
           THEN /\ call' = [call EXCEPT ![c].step = "waiting", ![c].socket = 0]
                /\ pending' = [pending EXCEPT ![r.id] = session'.relay]
                /\ down' = [down EXCEPT ![n] = Append(@, RelayOf(r))]
           ELSE /\ call' = [call EXCEPT ![c] = Failure]
                /\ UNCHANGED <<pending, down>>

Forward(c) ==
    /\ call[c].step = "claiming"
    /\ \/ Refused(c)
       \/ /\ ~session.revoked /\ ~Conflicting(call[c].request)
          /\ session' = Claimed(call[c].request)
          /\ Join(c) \/ SendRelay(c)
    /\ UNCHANGED <<socket, local, up, control, expiries>>

MarkLate(seq) ==
    down' = [n \in Connection |-> [i \in DOMAIN down[n] |->
                IF down[n][i] # Ready /\ down[n][i].seq = seq
                THEN [down[n][i] EXCEPT !.late = TRUE]
                ELSE down[n][i]]]

\* Mutation: the deadline is only watched while no companion is connected.
TimeoutOffline(id) ==
    /\ pending[id] # 0 /\ Authenticated = {}
    /\ Settle(id, None)
    /\ MarkLate(pending[id])
    /\ UNCHANGED <<session, socket, local, up, control, expiries>>

\* The deadline is also written in the relay: from now on it is late.
Timeout(id) ==
    /\ pending[id] # 0
    /\ Settle(id, None)
    /\ MarkLate(pending[id])
    /\ UNCHANGED <<session, socket, local, up, control, expiries>>
\* The same deadline passes for a relay nobody waits for any more.
Overdue(m) ==
    /\ pending[m.request.id] # m.seq /\ ~m.late
    /\ MarkLate(m.seq)
    /\ UNCHANGED <<gateway, local, up, control, expiries>>
----------------------------------------------------------------------------
(***************************************************************************)
(* The companion's socket, at the gateway.                                 *)
(***************************************************************************)
Fresh(m) == ~session.revoked /\ m.seq > session.companion

\* A proven challenge makes this the only socket and fails what was awaited.
Authenticate(n) ==
    LET m == Head(up[n])
    IN  /\ socket[n] = "challenged" /\ up[n] # << >> /\ Fresh(m)
        /\ session' = [session EXCEPT !.companion = m.seq]
        /\ socket' = [i \in Connection |->
                        IF i = n THEN "authenticated"
                        ELSE IF i \in Live THEN "closing" ELSE socket[i]]
        /\ RejectPending
        /\ up' = [up EXCEPT ![n] = Tail(@)]
        /\ down' = [down EXCEPT ![n] = Append(@, Ready)]
        /\ UNCHANGED <<local, control, expiries>>

\* An answer is expected while it is awaited and as long as its identifier is
\* remembered; an answer nobody waits for any more is dropped.
Expected(m) ==
    \/ pending[m.request.id] # 0
    \/ \E k \in session.known : k.request.id = m.request.id

TakeAnswer(n) ==
    LET m == Head(up[n])
    IN  /\ socket[n] = "authenticated" /\ up[n] # << >>
        /\ Fresh(m) /\ Expected(m)
        /\ session' = [session EXCEPT !.companion = m.seq]
        /\ IF pending[m.request.id] # 0
           THEN Settle(m.request.id, m.request)
           ELSE UNCHANGED <<pending, call>>
        /\ up' = [up EXCEPT ![n] = Tail(@)]
        /\ UNCHANGED <<socket, local, down, control, expiries>>

\* Anything else ends the connection.
RefuseMessage(n) ==
    LET m == Head(up[n])
    IN  /\ n \in Live /\ up[n] # << >>
        /\ ~Fresh(m) \/ (m.type = "answer" /\ ~Expected(m))
        /\ session' = [session EXCEPT !.companion = IF Fresh(m) THEN m.seq ELSE @]
        /\ socket' = [socket EXCEPT ![n] = "closing"]
        /\ up' = [up EXCEPT ![n] = << >>]
        /\ UNCHANGED <<pending, call, local, down, control, expiries>>

\* The gateway hears that a connection ended, whoever ended it, and what was
\* under way to it is lost.
SocketClosed(n) ==
    /\ socket[n] \in {"challenged", "authenticated", "closing"}
    /\ socket' = [socket EXCEPT ![n] = "closed"]
    /\ up' = [up EXCEPT ![n] = << >>]
    /\ IF Authenticated \ {n} = {} THEN RejectPending ELSE UNCHANGED <<pending, call>>
    /\ UNCHANGED <<session, local, down, control, expiries>>

\* The object is evicted: its memory and its sockets are gone.
GatewayRestart ==
    /\ Live # {} \/ \E c \in Calls : call[c].step \in {"claiming", "waiting"}
    /\ pending' = [i \in Ids |-> 0]
    /\ call' = [c \in Calls |-> IF call[c].step \in {"claiming", "waiting"}
                                THEN Failure ELSE call[c]]
    /\ socket' = [n \in Connection |-> IF socket[n] = "unused" THEN "unused" ELSE "closed"]
    /\ up' = [n \in Connection |-> << >>]
    /\ UNCHANGED <<session, local, down, control, expiries>>
----------------------------------------------------------------------------
(***************************************************************************)
(* The companion.                                                          *)
(***************************************************************************)

\* The companion opens a connection, is challenged, and proves itself.
Connect ==
    /\ companion.step = "offline" /\ ~session.revoked
    /\ \E n \in Connection :
        /\ socket[n] = "unused"
        /\ \A i \in 1 .. n - 1 : socket[i] # "unused"
        /\ socket' = [i \in Connection |->
                        IF i = n THEN "challenged"
                        ELSE IF socket[i] = "challenged" THEN "closing" ELSE socket[i]]
        /\ device' = [device EXCEPT !.companion = @ + 1]
        /\ up' = [up EXCEPT ![n] = <<[type |-> "challenge", seq |-> device'.companion]>>]
        /\ companion' = [companion EXCEPT !.step = "proving", !.conn = n]
    /\ UNCHANGED <<session, pending, call, down, control, expiries>>

Received(message) ==
    /\ companion.conn # 0
    /\ down[companion.conn] # << >>
    /\ Head(down[companion.conn]) = message

BecomeReady ==
    /\ companion.step = "proving" /\ Received(Ready)
    /\ companion' = [companion EXCEPT !.step = "ready", !.guard = 0]
    /\ down' = [down EXCEPT ![companion.conn] = Tail(@)]
    /\ UNCHANGED <<gateway, device, up, control, expiries>>

Acceptable(m) ==
    ~m.late /\ m.seq > companion.guard /\ m.seq > device.gateway

\* The sequence number is on disk before the relay reaches the local server.
TakeRelay(m) ==
    /\ companion.step = "ready" /\ Received(m) /\ Acceptable(m)
    /\ device' = [device EXCEPT !.gateway = m.seq]
    /\ companion' = [companion EXCEPT !.step = "working", !.guard = m.seq, !.job = m]
    /\ down' = [down EXCEPT ![companion.conn] = Tail(@)]
    /\ UNCHANGED <<gateway, up, control, expiries>>

Offline == [step |-> "offline", conn |-> 0, guard |-> 0, job |-> None]

\* A relay that comes late or out of order ends the connection.
RefuseRelay(m) ==
    /\ companion.step = "ready" /\ Received(m) /\ ~Acceptable(m)
    /\ companion' = Offline
    /\ down' = [down EXCEPT ![companion.conn] = << >>]
    /\ UNCHANGED <<gateway, device, up, control, expiries>>

\* An answer sent on a connection the gateway has left goes nowhere.
Answer ==
    /\ companion.step = "working"
    /\ device' = [device EXCEPT !.companion = @ + 1]
    /\ companion' = [companion EXCEPT !.step = "ready", !.job = None]
    /\ up' = [up EXCEPT ![companion.conn] =
                IF companion.conn \in Live
                THEN Append(@, [type |-> "answer", seq |-> device'.companion,
                                request |-> companion.job.request])
                ELSE @]
    /\ UNCHANGED <<gateway, down, control, expiries>>

\* The companion loses its connection, or dies and starts again.
Lose ==
    /\ companion.step # "offline"
    /\ companion' = Offline
    /\ down' = [down EXCEPT ![companion.conn] = << >>]
    /\ UNCHANGED <<gateway, device, up, control, expiries>>
----------------------------------------------------------------------------
(***************************************************************************)
(* Pairing control over HTTP: requests may overtake each other and get     *)
(* lost.                                                                   *)
(***************************************************************************)
SendControl(kind) ==
    /\ device.control < MaxControls /\ ~session.revoked
    /\ device' = [device EXCEPT !.control = @ + 1]
    /\ control' = control \cup {[kind |-> kind, seq |-> device'.control]}
    /\ UNCHANGED <<gateway, companion, down, up, expiries>>

Advanced(m) == [session EXCEPT !.control = m.seq]

TakeStatus(m) ==
    /\ m \in control /\ m.kind = "status"
    /\ session' = IF m.seq > session.control THEN Advanced(m) ELSE session
    /\ control' = control \ {m}
    /\ UNCHANGED <<pending, socket, call, local, down, up, expiries>>

TakeRevoke(m) ==
    /\ m \in control /\ m.kind = "revoke"
    /\ m.seq > session.control /\ ~session.revoked
    /\ session' = [Advanced(m) EXCEPT !.revoked = TRUE]
    /\ socket' = [n \in Connection |-> IF n \in Live THEN "closing" ELSE socket[n]]
    /\ RejectPending
    /\ control' = control \ {m}
    /\ UNCHANGED <<local, down, up, expiries>>

RefuseRevoke(m) ==
    /\ m \in control /\ m.kind = "revoke"
    /\ m.seq <= session.control \/ session.revoked
    /\ control' = control \ {m}
    /\ UNCHANGED <<gateway, local, down, up, expiries>>
----------------------------------------------------------------------------
RelaysUnder(n) == { m \in { down[n][i] : i \in DOMAIN down[n] } : m.type = "relay" }

AnswersUnder(n) == { m \in { up[n][i] : i \in DOMAIN up[n] } : m.type = "answer" }

Quiet ==
    /\ \A c \in Calls : call[c].step \notin {"claiming", "waiting"}
    /\ companion.job = None
    /\ \A n \in Live : RelaysUnder(n) = {} /\ AnswersUnder(n) = {}

\* Nothing happens until the correlations are close to their end ...
Wait ==
    /\ Quiet /\ expiries < MaxExpiries
    /\ \E k \in session.known : k.age = "new"
    /\ session' = [session EXCEPT !.known =
                    { [k EXCEPT !.age = IF @ = "new" THEN "old" ELSE @] : k \in session.known }]
    /\ UNCHANGED <<pending, socket, call, local, down, up, control, expiries>>

\* ... and expire.
Expire(k) ==
    /\ k \in session.known /\ k.age = "old" /\ expiries < MaxExpiries
    /\ session' = [session EXCEPT
                    !.known = (@ \ {k}) \cup {[k EXCEPT !.age = "expired"]}]
    /\ expiries' = expiries + 1
    /\ UNCHANGED <<pending, socket, call, local, down, up, control>>

Next ==
    \/ \E c \in Calls : (\E r \in Request : Arrive(c, r)) \/ Forward(c)
    \/ \E id \in Ids : Timeout(id)
    \/ \E n \in Connection :
            Authenticate(n) \/ TakeAnswer(n) \/ RefuseMessage(n) \/ SocketClosed(n)
    \/ GatewayRestart
    \/ Connect \/ BecomeReady \/ Answer \/ Lose
    \/ \E m \in UNION { RelaysUnder(n) : n \in Connection } :
            TakeRelay(m) \/ RefuseRelay(m) \/ Overdue(m)
    \/ \E kind \in {"status", "revoke"} : SendControl(kind)
    \/ \E m \in control : TakeStatus(m) \/ TakeRevoke(m) \/ RefuseRevoke(m)
    \/ Wait \/ \E k \in session.known : Expire(k)

Spec == Init /\ [][Next]_vars

\* The gateway's own code runs on and its timers fire; nothing is assumed of the
\* network, the companion or the callers.
Fairness == (\A c \in Calls : WF_vars(Forward(c))) /\ (\A id \in Ids : WF_vars(Timeout(id)))

FairSpec == Spec /\ Fairness
----------------------------------------------------------------------------
(***************************************************************************)
(* Properties.                                                             *)
(***************************************************************************)

\* No answer of an honest companion is refused as unexpected, however late.
LateAnswersAreHarmless ==
    \A n \in Connection : \A i \in DOMAIN up[n] :
        up[n][i].type = "answer" => Expected(up[n][i])

\* A call is answered with what the companion did for this very request, its
\* headers included, though answers carry the identifier only, come late, and
\* are given to whoever waits; and a late answer nobody waits for closes no
\* connection.  (For less than the thirty minutes a correlation is remembered.)
OwnAnswer ==
    expiries = 0 =>
        /\ \A c \in Calls : call[c].step = "answered" => call[c].answer = call[c].request
        /\ LateAnswersAreHarmless

\* The records have their types, and identical calls share one relay to one
\* companion: while one is awaited, no newer relay of that identifier is under
\* way, a call waits exactly where a relay is registered for it, at most one socket
\* is authenticated, and after a revocation none is and nothing is awaited.
SharedRelay ==
    /\ TypeOK
    /\ \A id \in Ids :
        /\ (pending[id] = 0) <=> (Waiting(id) = {})
        /\ \A c, d \in Waiting(id) : call[c].request = call[d].request
        /\ pending[id] # 0 =>
               \A n \in Connection : \A m \in RelaysUnder(n) :
                   m.request.id = id => m.seq <= pending[id]
    /\ Cardinality(Authenticated) <= 1
    /\ session.revoked => Authenticated = {} /\ \A id \in Ids : pending[id] = 0

\* Through retries, reconnects and crashes no honest message is taken for a
\* replay: a companion that refuses a relay only ever does so because it is late,
\* its two replay guards agree with the order of arrival; and the gateway finds
\* the companion's messages on its current connection fresh, whatever control
\* requests and earlier connections sent meanwhile.
MessagesInOrder ==
    /\ companion.step = "ready" =>
        \A m \in RelaysUnder(companion.conn) :
            m.seq > companion.guard /\ m.seq > device.gateway
    /\ companion.conn \in Live /\ ~session.revoked =>
        \A i \in DOMAIN up[companion.conn] :
            up[companion.conn][i].seq > session.companion

\* Every call that was taken is answered or fails.
CallsReturn ==
    \A c \in Calls :
        call[c].step \in {"claiming", "waiting"} ~> call[c].step \in {"answered", "failed"}
=============================================================================
