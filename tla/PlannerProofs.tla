---------------------------- MODULE PlannerProofs ----------------------------
(***************************************************************************)
(* Planner for any callers, answers and limits.  Every progress, in the    *)
(* record or in a caller's memory, passes its validator (Sound), and where *)
(* a caller stands says what its progress is like (Standing).  With the v2 *)
(* service the one caller that runs holds the lock and the progress on     *)
(* disk (Alone), so a turn it is about to ask was never asked (Once).      *)
(***************************************************************************)
EXTENDS Planner, FiniteSetTheorems, SequenceTheorems, TLAPS

Turn == Replies \cup {Failed}
Places == {"idle", "answer", "loop", "reserved", "calling", "evidence", "moved"}

\* A progress that passes its validator and keeps within its limits.
Sound(p) ==
    /\ p \in Progress /\ Consistent(p)
    /\ ResponseTurns(p) <= MaxTurns
    /\ EvidenceCalls(p) <= MaxEvidence
    /\ p.pending => supported

\* The progress a caller holds where it stands.
Standing(place, p) ==
    /\ place = "idle" => p = NewProgress
    /\ place = "answer" => p.status = "awaiting"
    /\ place \notin {"idle", "answer"} => p.status = "planning"
    /\ place \in {"reserved", "calling"} => p.pending
    /\ place = "evidence" => p.reserved
    /\ place = "moved" => ~p.pending /\ ~p.reserved

Control ==
    /\ era \in {"v2", "v3"} /\ supported \in BOOLEAN /\ changed \in BOOLEAN
    /\ job \in [life : Lives, progress : Progress]
    /\ job.life # "stale" => job.life = LifeOf(job.progress)
    /\ lock \in Callers \cup {None}
    /\ pc \in [Callers -> Places]
    /\ mem \in [Callers -> Progress]
    /\ Sound(job.progress)
    /\ \A c \in Callers : Sound(mem[c]) /\ Standing(pc[c], mem[c])

\* v2: a caller that runs holds the lock, and in memory what is on disk.
Alone == era = "v2" =>
    \A c \in Callers : pc[c] # "idle" => lock = c /\ mem[c] = job.progress

Calling == {c \in Callers : pc[c] = "calling"}

Covered ==
    /\ ledger \in Snapshot
    /\ asked \in [1..MaxTurns -> 0..CallCap]
    /\ \A n \in 1..MaxTurns : asked[n] <= ledger.calls
    /\ spent \in Nat
    /\ spent + PerCall * Cardinality(Calling) <= ledger.committed

\* v2: no turn above the count of turns was asked, and none that is about to be.
Once == era = "v2" =>
    /\ \A n \in 1..MaxTurns :
         asked[n] <= 1 /\ (asked[n] = 1 => n <= ResponseTurns(job.progress))
    /\ \A c \in Callers : pc[c] = "reserved" => asked[ResponseTurns(mem[c])] = 0

Inv == Control /\ Alone /\ Covered /\ Once
-----------------------------------------------------------------------------
(* Progress: what each operation makes of a sound one *)

LEMMA LimitsAreNat ==
    /\ MaxTurns \in Nat /\ MaxTurns >= 1
    /\ MaxEvidence \in Nat /\ MaxEvidence >= 1
    /\ MaxSubmissions \in Nat /\ MaxSubmissions >= 1
    /\ MaxToolCalls \in Nat /\ MaxToolCalls >= 1
BY PlannerAssumption

LEMMA TurnFields ==
    \A t \in Turn : t.calls \in 0..MaxToolCalls /\ t.kind \in {"evidence", "plan", "question", "failed"}
BY LimitsAreNat DEF Turn, Replies, Failed, Evidence, Terminal

LEMMA ReplyFields ==
    \A t \in Replies : t.calls \in 1..MaxToolCalls /\ t.kind \in {"evidence", "plan", "question"}
BY LimitsAreNat DEF Replies, Evidence, Terminal

\* Lists of turns are the sequences that are not too long.
LEMMA TurnListsAre ==
    /\ \A s \in TurnLists : s \in Seq(Turn) /\ Len(s) <= MaxTurns
    /\ \A s \in Seq(Turn) : Len(s) <= MaxTurns => s \in TurnLists
<1>1. ASSUME NEW s \in TurnLists PROVE s \in Seq(Turn) /\ Len(s) <= MaxTurns
  <2>1. PICK n \in 0..MaxTurns : s \in [1..n -> Turn]
    BY <1>1 DEF TurnLists, Turn
  <2>2. n \in Nat
    BY LimitsAreNat
  <2>3. s \in Seq(Turn)
    BY <2>1, <2>2, SeqDef
  <2>4. Len(s) = n
    BY <2>1, <2>2, <2>3, LenProperties
  <2> QED BY <2>3, <2>4, LimitsAreNat
<1>2. ASSUME NEW s \in Seq(Turn), Len(s) <= MaxTurns PROVE s \in TurnLists
  <2>1. Len(s) \in 0..MaxTurns /\ s \in [1..Len(s) -> Turn]
    BY <1>2, LenProperties, LimitsAreNat
  <2> QED BY <2>1 DEF TurnLists, Turn
<1> QED BY <1>1, <1>2

\* The last turn of a list is a turn.
LEMMA LastIsTurn ==
    \A s \in TurnLists : s # <<>> => s[Len(s)] \in Turn /\ Len(s) \in 1..MaxTurns
<1> TAKE s \in TurnLists
<1> HAVE s # <<>>
<1>1. s \in Seq(Turn) /\ Len(s) <= MaxTurns
  BY TurnListsAre
<1>2. Len(s) \in Nat /\ Len(s) # 0
  BY <1>1, LenProperties, EmptySeq
<1>3. Len(s) \in 1..Len(s)
  BY <1>2
<1>4. s[Len(s)] \in Turn
  BY <1>1, <1>3, ElementOfSeq
<1> QED BY <1>1, <1>2, <1>4, LimitsAreNat

\* A list with room takes one more turn.
LEMMA OneMoreTurn ==
    \A s \in TurnLists, t \in Turn : Len(s) < MaxTurns =>
        /\ Append(s, t) \in TurnLists /\ Append(s, t) # <<>>
        /\ Len(Append(s, t)) = Len(s) + 1 /\ Append(s, t)[Len(s) + 1] = t
<1> TAKE s \in TurnLists, t \in Turn
<1> HAVE Len(s) < MaxTurns
<1>1. s \in Seq(Turn)
  BY TurnListsAre
<1>2. /\ Append(s, t) \in Seq(Turn) /\ Append(s, t) # <<>>
      /\ Len(Append(s, t)) = Len(s) + 1 /\ Append(s, t)[Len(s) + 1] = t
  BY <1>1, AppendProperties
<1>3. Len(s) \in Nat
  BY <1>1, LenProperties
<1>4. Len(s) + 1 <= MaxTurns
  BY <1>3, LimitsAreNat
<1>5. Append(s, t) \in TurnLists
  BY <1>2, <1>4, TurnListsAre
<1> QED BY <1>2, <1>5

LEMMA ProgressFields ==
    ASSUME NEW p \in Progress
    PROVE  /\ Len(p.turns) \in 0..MaxTurns /\ ResponseTurns(p) \in Nat
           /\ p.pending => ResponseTurns(p) = Len(p.turns) + 1
           /\ ~p.pending => ResponseTurns(p) = Len(p.turns)
           /\ p.reserved => EvidenceCalls(p) = p.records + 1
           /\ ~p.reserved => EvidenceCalls(p) = p.records
           /\ Submissions(p) = IF p.plan # None THEN p.failures + 1 ELSE p.failures
           /\ p.turns # <<>> => LastTurn(p) \in Turn
<1>1. p.turns \in TurnLists /\ p.pending \in BOOLEAN /\ p.reserved \in BOOLEAN
      /\ p.records \in Nat /\ p.failures \in Nat
  BY LimitsAreNat DEF Progress
<1>2. p.turns \in Seq(Turn) /\ Len(p.turns) <= MaxTurns
  BY <1>1, TurnListsAre
<1>3. Len(p.turns) \in Nat
  BY <1>2, LenProperties
<1>4. /\ Len(p.turns) \in 0..MaxTurns /\ ResponseTurns(p) \in Nat
      /\ p.pending => ResponseTurns(p) = Len(p.turns) + 1
      /\ ~p.pending => ResponseTurns(p) = Len(p.turns)
  <2>1. Len(p.turns) \in 0..MaxTurns
    BY <1>2, <1>3, LimitsAreNat
  <2>2. p.pending => Count(p.pending) = 1
    BY DEF Count
  <2>3. ~p.pending => Count(p.pending) = 0
    BY DEF Count
  <2> QED BY <1>1, <1>3, <2>1, <2>2, <2>3 DEF ResponseTurns
<1>5. /\ p.reserved => EvidenceCalls(p) = p.records + 1
      /\ ~p.reserved => EvidenceCalls(p) = p.records
  BY <1>1 DEF EvidenceCalls, Count
<1>7. Submissions(p) = IF p.plan # None THEN p.failures + 1 ELSE p.failures
  <2>1. CASE p.plan = None
    BY <1>1, <2>1 DEF Submissions, Count
  <2>2. CASE p.plan # None
    BY <1>1, <2>2 DEF Submissions, Count
  <2> QED BY <2>1, <2>2
<1>6. p.turns # <<>> => LastTurn(p) \in Turn
  BY <1>1, LastIsTurn DEF LastTurn
<1> QED BY <1>4, <1>5, <1>6, <1>7

LEMMA NewIsSound == Sound(NewProgress)
<1>0. <<>> \in Seq(Turn) /\ Len(<<>>) = 0
  BY EmptySeq
<1>3. Len(<<>>) <= MaxTurns
  BY <1>0, LimitsAreNat
<1>1. <<>> \in TurnLists
  BY <1>0, <1>3, TurnListsAre
<1>2. NewProgress \in Progress
  BY <1>1, LimitsAreNat DEF NewProgress, Progress
<1>4. Len(NewProgress.turns) = 0
  BY <1>0 DEF NewProgress
<1> QED BY <1>2, <1>4, ProgressFields, LimitsAreNat
           DEF Sound, Consistent, NewProgress, ResponseTurns, EvidenceCalls, Count

\* A lost or failed call ends the planning; an open turn is not left open.
LEMMA BlockedIsSound ==
    ASSUME NEW p, Sound(p), p.status = "planning", ~p.pending
    PROVE  Sound(Blocked(p)) /\ Blocked(p).status = "blocked"
<1> DEFINE q == Blocked(p)
<1>1. p \in Progress /\ Consistent(p)
  BY DEF Sound
<1>2. /\ q \in Progress
      /\ q.turns = p.turns /\ q.pending = p.pending /\ q.status = "blocked"
      /\ q.cursor = (IF p.reserved THEN p.cursor ELSE 0)
      /\ q.reserved = p.reserved /\ q.records = p.records /\ q.failures = p.failures
      /\ q.plan = p.plan /\ q.question = p.question /\ q.answer = p.answer
  <2>1. p.cursor \in 0..MaxToolCalls /\ 0 \in 0..MaxToolCalls
    BY <1>1, LimitsAreNat DEF Progress
  <2> DEFINE k == IF p.reserved THEN p.cursor ELSE 0
  <2>2. k \in 0..MaxToolCalls /\ q = [p EXCEPT !.status = "blocked", !.cursor = k]
    BY <2>1 DEF Blocked
  <2> HIDE DEF k, q
  <2>3. /\ q \in Progress
        /\ q.turns = p.turns /\ q.pending = p.pending /\ q.status = "blocked" /\ q.cursor = k
        /\ q.reserved = p.reserved /\ q.records = p.records /\ q.failures = p.failures
        /\ q.plan = p.plan /\ q.question = p.question /\ q.answer = p.answer
    BY <1>1, <2>2 DEF Progress
  <2> QED BY <2>3 DEF k
<1>3. Consistent(q)
  BY <1>1, <1>2 DEF Consistent, LastTurn, NextCall
<1>4. ResponseTurns(q) = ResponseTurns(p) /\ EvidenceCalls(q) = EvidenceCalls(p)
  BY <1>2 DEF ResponseTurns, EvidenceCalls
<1> QED BY <1>2, <1>3, <1>4 DEF Sound

\* A turn is opened within its limit ...
LEMMA OpenIsSound ==
    ASSUME NEW p, Sound(p), p.status = "planning", p.cursor = 0, ~p.pending, supported,
           ResponseTurns(p) < MaxTurns
    PROVE  LET q == [p EXCEPT !.pending = TRUE]
           IN  /\ Sound(q) /\ q.status = "planning" /\ q.pending
               /\ ResponseTurns(q) = ResponseTurns(p) + 1
<1> DEFINE q == [p EXCEPT !.pending = TRUE]
<1>1. p \in Progress /\ Consistent(p)
  BY DEF Sound
<1>2. /\ q \in Progress
      /\ q.turns = p.turns /\ q.pending = TRUE /\ q.status = "planning"
      /\ q.cursor = 0
      /\ q.reserved = p.reserved /\ q.records = p.records /\ q.failures = p.failures
      /\ q.plan = p.plan /\ q.question = p.question /\ q.answer = p.answer
  BY <1>1, LimitsAreNat DEF Progress
<1>3. Consistent(q)
  BY <1>1, <1>2 DEF Consistent, LastTurn, NextCall
<1>4. ResponseTurns(q) = ResponseTurns(p) + 1 /\ ResponseTurns(p) \in Nat
  BY <1>1, <1>2, ProgressFields
<1>5. EvidenceCalls(q) = EvidenceCalls(p)
  BY <1>2 DEF EvidenceCalls
<1> HIDE DEF q
<1>6. Sound(q)
  BY <1>2, <1>3, <1>4, <1>5, LimitsAreNat DEF Sound
<1> QED BY <1>2, <1>4, <1>6 DEF q

\* ... and closed by what came back, or as failed, which counts it as before.
LEMMA ClosedIsSound ==
    ASSUME NEW p, Sound(p), p.status = "planning", p.pending
    PROVE  /\ Sound(FailedTurn(p)) /\ FailedTurn(p).status = "blocked"
           /\ \A reply \in Replies :
                Sound(Answered(p, reply)) /\ Answered(p, reply).status = "planning"
<1>1. p \in Progress /\ Consistent(p) /\ ResponseTurns(p) <= MaxTurns
      /\ EvidenceCalls(p) <= MaxEvidence
  BY DEF Sound
<1>2. Len(p.turns) \in Nat /\ Len(p.turns) < MaxTurns /\ p.turns \in TurnLists
      /\ ResponseTurns(p) = Len(p.turns) + 1
  BY <1>1, ProgressFields, LimitsAreNat DEF Progress
<1>3. ~p.reserved /\ p.cursor = 0
  BY <1>1 DEF Consistent
<1>4. \A t \in Turn : /\ Append(p.turns, t) \in TurnLists /\ Append(p.turns, t) # <<>>
                      /\ Len(Append(p.turns, t)) = Len(p.turns) + 1
                      /\ Append(p.turns, t)[Len(p.turns) + 1] = t
  BY <1>2, OneMoreTurn
<1>5. Sound(FailedTurn(p)) /\ FailedTurn(p).status = "blocked"
  <2> DEFINE q == FailedTurn(p)
  <2>1. Failed \in Turn
    BY DEF Turn
  <2>2. /\ q \in Progress
        /\ q.turns = Append(p.turns, Failed) /\ q.pending = FALSE /\ q.status = "blocked"
        /\ q.cursor = 0
        /\ q.reserved = p.reserved /\ q.records = p.records /\ q.failures = p.failures
        /\ q.plan = p.plan /\ q.question = p.question /\ q.answer = p.answer
    BY <1>1, <1>3, <1>4, <2>1, LimitsAreNat DEF FailedTurn, Progress
  <2>3. Consistent(q)
    BY <1>1, <1>3, <2>2 DEF Consistent, LastTurn, NextCall
  <2>4. ResponseTurns(q) = ResponseTurns(p)
    BY <1>2, <1>4, <2>1, <2>2, ProgressFields
  <2>5. EvidenceCalls(q) = EvidenceCalls(p)
    BY <2>2 DEF EvidenceCalls
  <2> QED BY <1>1, <2>2, <2>3, <2>4, <2>5 DEF Sound
<1>6. ASSUME NEW reply \in Replies
      PROVE  Sound(Answered(p, reply)) /\ Answered(p, reply).status = "planning"
  <2> DEFINE q == Answered(p, reply)
  <2>1. reply \in Turn
    BY DEF Turn
  <2>2. /\ q \in Progress
        /\ q.turns = Append(p.turns, reply) /\ q.pending = FALSE /\ q.status = "planning"
        /\ q.cursor = 1
        /\ q.reserved = p.reserved /\ q.records = p.records /\ q.failures = p.failures
        /\ q.plan = p.plan /\ q.question = p.question /\ q.answer = p.answer
    <3>1. 1 \in 0..MaxToolCalls
      BY LimitsAreNat
    <3> QED BY <1>1, <1>3, <1>4, <2>1, <3>1 DEF Answered, Progress
  <2>3. LastTurn(q) = reply /\ reply.calls \in 1..MaxToolCalls
    BY <1>2, <1>4, <2>1, <2>2, ReplyFields DEF LastTurn
  <2>4. Consistent(q)
    BY <1>1, <1>3, <1>4, <2>1, <2>2, <2>3, LimitsAreNat DEF Consistent, NextCall
  <2>5. ResponseTurns(q) = ResponseTurns(p)
    BY <1>2, <1>4, <2>1, <2>2, ProgressFields
  <2>6. EvidenceCalls(q) = EvidenceCalls(p)
    BY <2>2 DEF EvidenceCalls
  <2> QED BY <1>1, <2>2, <2>4, <2>5, <2>6 DEF Sound
<1> QED BY <1>5, <1>6

\* The sole answer takes a waiting progress back to planning.
LEMMA AnswerIsSound ==
    ASSUME NEW p, Sound(p), p.status = "awaiting", NEW a \in Answers
    PROVE  LET q == [p EXCEPT !.status = "planning", !.answer = a]
           IN  Sound(q) /\ q.status = "planning"
<1> DEFINE q == [p EXCEPT !.status = "planning", !.answer = a]
<1>1. p \in Progress /\ Consistent(p)
  BY DEF Sound
<1>2. /\ q \in Progress
      /\ q.turns = p.turns /\ q.pending = p.pending /\ q.status = "planning"
      /\ q.cursor = p.cursor
      /\ q.reserved = p.reserved /\ q.records = p.records /\ q.failures = p.failures
      /\ q.plan = p.plan /\ q.question = p.question /\ q.answer = a
  BY <1>1, LimitsAreNat DEF Progress
<1>3. a # None
  BY PlannerAssumption
<1>4. Consistent(q)
  BY <1>1, <1>2, <1>3 DEF Consistent, LastTurn, NextCall
<1>5. ResponseTurns(q) = ResponseTurns(p) /\ EvidenceCalls(q) = EvidenceCalls(p)
  BY <1>2 DEF ResponseTurns, EvidenceCalls
<1> QED BY <1>2, <1>4, <1>5 DEF Sound

\* An evidence call is opened within its limit ...
LEMMA ReserveIsSound ==
    ASSUME NEW p, Sound(p), p.status = "planning", ~p.reserved,
           p.cursor # 0, NextCall(p) = "evidence", EvidenceCalls(p) < MaxEvidence
    PROVE  LET q == [p EXCEPT !.reserved = TRUE]
           IN  Sound(q) /\ q.status = "planning" /\ q.reserved
<1> DEFINE q == [p EXCEPT !.reserved = TRUE]
<1>1. p \in Progress /\ Consistent(p)
  BY DEF Sound
<1>2. /\ q \in Progress
      /\ q.turns = p.turns /\ q.pending = p.pending /\ q.status = p.status
      /\ q.cursor = p.cursor
      /\ q.reserved = TRUE /\ q.records = p.records /\ q.failures = p.failures
      /\ q.plan = p.plan /\ q.question = p.question /\ q.answer = p.answer
  BY <1>1, LimitsAreNat DEF Progress
<1>3. Consistent(q)
  BY <1>1, <1>2 DEF Consistent, LastTurn, NextCall
<1>4. ResponseTurns(q) = ResponseTurns(p)
  BY <1>2 DEF ResponseTurns
<1>5. p.records \in Nat /\ EvidenceCalls(p) = p.records
  BY <1>1, ProgressFields, LimitsAreNat DEF Progress
<1> HIDE DEF q
<1>6. EvidenceCalls(q) = p.records + 1
  BY <1>2, ProgressFields
<1>7. EvidenceCalls(q) <= MaxEvidence
  BY <1>5, <1>6, LimitsAreNat
<1>8. Sound(q) /\ q.status = "planning" /\ q.reserved
  BY <1>2, <1>3, <1>4, <1>7 DEF Sound
<1> QED BY <1>8 DEF q

\* ... and its result moves the cursor to the next call of the response, if any.
LEMMA RecordIsSound ==
    ASSUME NEW p, Sound(p), p.status = "planning", p.reserved
    PROVE  LET q == [p EXCEPT !.reserved = FALSE, !.records = @ + 1,
                              !.cursor = IF p.cursor = LastTurn(p).calls THEN 0 ELSE @ + 1]
           IN  Sound(q) /\ q.status = "planning" /\ ~q.pending /\ ~q.reserved
<1> DEFINE q == [p EXCEPT !.reserved = FALSE, !.records = @ + 1,
                          !.cursor = IF p.cursor = LastTurn(p).calls THEN 0 ELSE @ + 1]
<1> DEFINE k == IF p.cursor = LastTurn(p).calls THEN 0 ELSE p.cursor + 1
<1> DEFINE r == p.records + 1
<1>1. p \in Progress /\ Consistent(p)
  BY DEF Sound
<1>2. /\ p.cursor # 0 /\ p.turns # <<>> /\ p.cursor <= LastTurn(p).calls /\ ~p.pending
      /\ NextCall(p) = "evidence" /\ p.plan = None /\ ~(p.question /\ p.answer = None)
      /\ p.answer # None => p.question
  BY <1>1 DEF Consistent
<1>3. LastTurn(p).calls \in 0..MaxToolCalls /\ p.cursor \in 0..MaxToolCalls
  BY <1>1, <1>2, ProgressFields, TurnFields DEF Progress
<1>4. k \in 0..MaxToolCalls /\ k <= LastTurn(p).calls
  BY <1>2, <1>3, LimitsAreNat
<1>5. EvidenceCalls(p) = r /\ p.records \in Nat /\ EvidenceCalls(p) <= MaxEvidence
  BY <1>1, ProgressFields, LimitsAreNat DEF Progress, Sound
<1>6. r \in 0..MaxEvidence
  BY <1>5, LimitsAreNat
<1>7. q = [p EXCEPT !.reserved = FALSE, !.records = r, !.cursor = k]
  OBVIOUS
<1> HIDE DEF k, r, q
<1>8. /\ q \in Progress
      /\ q.turns = p.turns /\ q.pending = p.pending /\ q.status = p.status
      /\ q.cursor = k
      /\ q.reserved = FALSE /\ q.records = r /\ q.failures = p.failures
      /\ q.plan = p.plan /\ q.question = p.question /\ q.answer = p.answer
  BY <1>1, <1>4, <1>6, <1>7 DEF Progress
<1>9. Consistent(q)
  BY <1>2, <1>4, <1>8 DEF Consistent, LastTurn, NextCall
<1>10. ResponseTurns(q) = ResponseTurns(p)
  BY <1>8 DEF ResponseTurns
<1>11. EvidenceCalls(q) = r
  BY <1>8, ProgressFields
<1>12. Sound(q) /\ q.status = "planning" /\ ~q.pending /\ ~q.reserved
  BY <1>2, <1>6, <1>8, <1>9, <1>10, <1>11 DEF Sound
<1> QED BY <1>12 DEF q

\* A plan is accepted, or rejected within the limit on submissions.
LEMMA PlanIsSound ==
    ASSUME NEW p, Sound(p), p.status = "planning", ~p.pending, ~p.reserved,
           p.cursor # 0, NextCall(p) = "plan", Submissions(p) < MaxSubmissions
    PROVE  /\ LET q == [p EXCEPT !.failures = @ + 1, !.cursor = 0]
              IN  Sound(q) /\ q.status = "planning" /\ ~q.pending /\ ~q.reserved
           /\ \A c \in Callers :
                 LET q == [p EXCEPT !.status = "accepted", !.plan = c, !.cursor = 0]
                 IN  Sound(q) /\ q.status = "accepted"
<1>1. p \in Progress /\ Consistent(p) /\ p.failures \in Nat /\ 0 \in 0..MaxToolCalls
  BY LimitsAreNat DEF Sound, Progress
<1>2. p.plan = None /\ Submissions(p) = p.failures
  BY <1>1, ProgressFields DEF Consistent
<1> DEFINE f == p.failures + 1
<1>3. f \in 0..MaxSubmissions
  BY <1>1, <1>2, LimitsAreNat
<1> HIDE DEF f
<1>4. LET q == [p EXCEPT !.failures = f, !.cursor = 0]
      IN  Sound(q) /\ q.status = "planning" /\ ~q.pending /\ ~q.reserved
  <2> DEFINE q == [p EXCEPT !.failures = f, !.cursor = 0]
  <2>1. /\ q \in Progress
        /\ q.turns = p.turns /\ q.pending = p.pending /\ q.status = p.status
        /\ q.cursor = 0
        /\ q.reserved = p.reserved /\ q.records = p.records /\ q.failures = f
        /\ q.plan = p.plan /\ q.question = p.question /\ q.answer = p.answer
    BY <1>1, <1>3 DEF Progress
  <2>2. Consistent(q)
    BY <1>1, <2>1 DEF Consistent, LastTurn, NextCall
  <2>3. ResponseTurns(q) = ResponseTurns(p) /\ EvidenceCalls(q) = EvidenceCalls(p)
    BY <2>1 DEF ResponseTurns, EvidenceCalls
  <2> QED BY <2>1, <2>2, <2>3 DEF Sound
<1>5. ASSUME NEW c \in Callers
      PROVE  LET q == [p EXCEPT !.status = "accepted", !.plan = c, !.cursor = 0]
             IN  Sound(q) /\ q.status = "accepted"
  <2> DEFINE q == [p EXCEPT !.status = "accepted", !.plan = c, !.cursor = 0]
  <2>1. /\ q \in Progress
        /\ q.turns = p.turns /\ q.pending = p.pending /\ q.status = "accepted"
        /\ q.cursor = 0
        /\ q.reserved = p.reserved /\ q.records = p.records /\ q.failures = p.failures
        /\ q.plan = c /\ q.question = p.question /\ q.answer = p.answer
    BY <1>1 DEF Progress
  <2>2. c # None
    BY PlannerAssumption
  <2>3. Consistent(q)
    BY <1>1, <2>1, <2>2 DEF Consistent, LastTurn, NextCall
  <2>4. ResponseTurns(q) = ResponseTurns(p) /\ EvidenceCalls(q) = EvidenceCalls(p)
    BY <2>1 DEF ResponseTurns, EvidenceCalls
  <2> QED BY <2>1, <2>3, <2>4 DEF Sound
<1> QED BY <1>4, <1>5 DEF f

\* The one question.
LEMMA QuestionIsSound ==
    ASSUME NEW p, Sound(p), p.status = "planning", ~p.pending, ~p.reserved,
           p.cursor # 0, NextCall(p) = "question", ~p.question
    PROVE  LET q == [p EXCEPT !.status = "awaiting", !.question = TRUE, !.cursor = 0]
           IN  Sound(q) /\ q.status = "awaiting"
<1> DEFINE q == [p EXCEPT !.status = "awaiting", !.question = TRUE, !.cursor = 0]
<1>1. p \in Progress /\ Consistent(p) /\ 0 \in 0..MaxToolCalls
  BY LimitsAreNat DEF Sound
<1>2. /\ q \in Progress
      /\ q.turns = p.turns /\ q.pending = p.pending /\ q.status = "awaiting"
      /\ q.cursor = 0
      /\ q.reserved = p.reserved /\ q.records = p.records /\ q.failures = p.failures
      /\ q.plan = p.plan /\ q.question = TRUE /\ q.answer = p.answer
  BY <1>1 DEF Progress
<1>3. Consistent(q)
  BY <1>1, <1>2 DEF Consistent, LastTurn, NextCall
<1>4. ResponseTurns(q) = ResponseTurns(p) /\ EvidenceCalls(q) = EvidenceCalls(p)
  BY <1>2 DEF ResponseTurns, EvidenceCalls
<1> QED BY <1>2, <1>3, <1>4 DEF Sound
-----------------------------------------------------------------------------
(* What a caller's step does, apart from the call itself: it saves a sound *)
(* progress, and pays for the call it leaves behind, if it was in one.     *)

Saves(c, p, next) ==
    /\ pc[c] # "idle" /\ Sound(p)
    /\ p.status = "planning" => next \in Places \ {"idle", "answer"} /\ Standing(next, p)
    /\ next # "calling"
    /\ next = "reserved" => ResponseTurns(p) = ResponseTurns(mem[c]) + 1
    /\ Checkpoint(c, p, next)

Pays(c) ==
    \/ pc[c] # "calling" /\ Unpaid
    \/ Billed(c) /\ UNCHANGED <<ledger, asked>>
    \/ \E cost \in 0..PerCall : /\ pc[c] = "calling" /\ CanReport(ledger, cost)
                                /\ ledger' = Reported(ledger, cost)
                                /\ spent' = spent + cost /\ asked' = asked

\* In the loop a caller's progress is planning, and nothing is open.
LEMMA ReadyIs ==
    ASSUME Control, NEW c \in Callers, Ready(c)
    PROVE  /\ Sound(mem[c]) /\ mem[c].status = "planning" /\ mem[c] \in Progress
           /\ ~mem[c].pending /\ ~mem[c].reserved /\ supported /\ pc[c] = "loop"
BY DEF Control, Standing, Ready, Sound

LEMMA BlockSaves ==
    ASSUME Control, NEW c \in Callers, NEW p, NEW next, Sound(p), p.status = "planning", ~p.pending,
           pc[c] # "idle", next \in {"loop", "moved", "evidence"}, Checkpoint(c, Blocked(p), next)
    PROVE  Saves(c, Blocked(p), next)
BY BlockedIsSound DEF Saves

LEMMA CallerSteps ==
    ASSUME Control, NEW c \in Callers, Continue(c)
    PROVE  \/ CallProvider(c) \/ PlanTooMany(c)
           \/ (\E p, next : Saves(c, p, next)) /\ Pays(c)
<1>0. Sound(mem[c]) /\ Standing(pc[c], mem[c]) /\ mem[c] \in Progress /\ Consistent(mem[c])
      /\ supported \in BOOLEAN /\ mem[c].pending \in BOOLEAN /\ mem[c].reserved \in BOOLEAN
      /\ (mem[c].pending => supported)
  BY DEF Control, Sound, Progress
<1>1. CASE SaveAnswer(c)
  <2>1. PICK a \in Answers : Checkpoint(c, [mem[c] EXCEPT !.status = "planning", !.answer = a], "loop")
    BY <1>1 DEF SaveAnswer
  <2> DEFINE q == [mem[c] EXCEPT !.status = "planning", !.answer = a]
  <2>2. Sound(q) /\ pc[c] = "answer" /\ Unpaid
    BY <1>0, <1>1, AnswerIsSound DEF SaveAnswer, Standing
  <2> HIDE DEF q
  <2>3. Saves(c, q, "loop")
    BY <2>1, <2>2 DEF Saves, Standing, Places, q
  <2> QED BY <2>2, <2>3 DEF Pays
<1>2. CASE Unresumable(c)
  <2>1. pc[c] = "loop" /\ mem[c].status = "planning" /\ Unpaid
    BY <1>0, <1>2 DEF Unresumable, Standing
  <2>2. CASE mem[c].pending
    <3>1. Checkpoint(c, FailedTurn(mem[c]), "loop")
      BY <1>0, <1>2, <2>2 DEF Unresumable
    <3>2. Sound(FailedTurn(mem[c])) /\ FailedTurn(mem[c]).status = "blocked"
      BY <1>0, <2>1, <2>2, ClosedIsSound
    <3> QED BY <2>1, <3>1, <3>2 DEF Saves, Pays
  <2>3. CASE ~mem[c].pending
    <3>1. Checkpoint(c, Blocked(mem[c]), "loop")
      BY <1>2, <2>3 DEF Unresumable
    <3> QED BY <1>0, <2>1, <2>3, <3>1, BlockSaves DEF Pays
  <2> QED BY <2>2, <2>3
<1>3. CASE OutOfBudget(c)
  <2>1. Ready(c) /\ Checkpoint(c, Blocked(mem[c]), "loop") /\ Unpaid
    BY <1>3 DEF OutOfBudget
  <2> QED BY <2>1, ReadyIs, BlockSaves DEF Pays
<1>4. CASE ReserveTurn(c)
  <2> DEFINE q == [mem[c] EXCEPT !.pending = TRUE]
  <2>1. Ready(c) /\ Checkpoint(c, q, "reserved") /\ Unpaid /\ mem[c].cursor = 0
        /\ ResponseTurns(mem[c]) < MaxTurns
    BY <1>4 DEF ReserveTurn
  <2>2. /\ Sound(q) /\ q.status = "planning" /\ q.pending
        /\ ResponseTurns(q) = ResponseTurns(mem[c]) + 1
    BY <2>1, ReadyIs, OpenIsSound
  <2> HIDE DEF q
  <2>3. Saves(c, q, "reserved")
    BY <2>1, <2>2, ReadyIs DEF Saves, Standing, Places
  <2> QED BY <2>1, <2>3, ReadyIs DEF Pays
<1>5. CASE FailTurn(c)
  <2>1. /\ pc[c] \in {"reserved", "calling"} /\ Checkpoint(c, FailedTurn(mem[c]), "loop")
        /\ Billed(c) /\ UNCHANGED <<ledger, asked>>
    BY <1>5 DEF FailTurn
  <2>2. Sound(FailedTurn(mem[c])) /\ FailedTurn(mem[c]).status = "blocked"
    BY <1>0, <2>1, ClosedIsSound DEF Standing
  <2> QED BY <2>1, <2>2 DEF Saves, Pays
<1>6. CASE RecordResponse(c)
  <2>1. PICK reply \in Replies, cost \in 0..PerCall :
            /\ pc[c] = "calling" /\ CanReport(ledger, cost)
            /\ ledger' = Reported(ledger, cost)
            /\ spent' = spent + cost
            /\ Checkpoint(c, Answered(mem[c], reply), "loop")
            /\ asked' = asked
    BY <1>6 DEF RecordResponse
  <2>2. Sound(Answered(mem[c], reply)) /\ Answered(mem[c], reply).status = "planning"
    BY <1>0, <2>1, ClosedIsSound DEF Standing
  <2>3. Saves(c, Answered(mem[c], reply), "loop")
    BY <2>1, <2>2 DEF Saves, Standing, Places
  <2> QED BY <2>1, <2>3 DEF Pays
<1>7. CASE ReserveEvidence(c)
  <2> DEFINE q == [mem[c] EXCEPT !.reserved = TRUE]
  <2>1. Ready(c) /\ mem[c].cursor # 0 /\ NextCall(mem[c]) = "evidence" /\ Unpaid
        /\ IF EvidenceCalls(mem[c]) >= MaxEvidence
            THEN Checkpoint(c, Blocked(mem[c]), "loop") ELSE Checkpoint(c, q, "evidence")
    BY <1>7 DEF ReserveEvidence
  <2>2. CASE EvidenceCalls(mem[c]) >= MaxEvidence
    BY <2>1, <2>2, ReadyIs, BlockSaves DEF Pays
  <2>3. CASE ~(EvidenceCalls(mem[c]) >= MaxEvidence)
    <3>1. EvidenceCalls(mem[c]) < MaxEvidence
      BY <1>0, <2>3, ProgressFields, LimitsAreNat DEF Progress
    <3>2. Sound(q) /\ q.status = "planning" /\ q.reserved
      BY <2>1, <3>1, ReadyIs, ReserveIsSound
    <3> HIDE DEF q
    <3>3. Saves(c, q, "evidence")
      BY <2>1, <2>3, <3>2, ReadyIs DEF Saves, Standing, Places
    <3> QED BY <2>1, <3>3, ReadyIs DEF Pays
  <2> QED BY <2>2, <2>3
<1>8. CASE RecordEvidence(c)
  <2> DEFINE q == [mem[c] EXCEPT !.reserved = FALSE, !.records = @ + 1,
                      !.cursor = IF mem[c].cursor = LastTurn(mem[c]).calls THEN 0 ELSE @ + 1]
  <2> DEFINE next == IF changed THEN "moved" ELSE "loop"
  <2>1. /\ pc[c] = "evidence" /\ Unpaid
        /\ Checkpoint(c, Blocked(mem[c]), "loop") \/ Checkpoint(c, q, next)
    BY <1>8 DEF RecordEvidence
  <2>2. mem[c].status = "planning" /\ mem[c].reserved /\ ~mem[c].pending
    BY <1>0, <2>1 DEF Standing, Consistent
  <2>3. Sound(q) /\ q.status = "planning" /\ ~q.pending /\ ~q.reserved
    BY <1>0, <2>2, RecordIsSound
  <2> HIDE DEF q
  <2>4. ASSUME Checkpoint(c, q, next) PROVE Saves(c, q, next)
    BY <2>1, <2>3, <2>4 DEF Saves, Standing, Places
  <2>5. ASSUME Checkpoint(c, Blocked(mem[c]), "loop") PROVE Saves(c, Blocked(mem[c]), "loop")
    BY <1>0, <2>1, <2>2, <2>5, BlockSaves
  <2> QED BY <2>1, <2>4, <2>5 DEF Pays
<1>9. CASE SourceMoved(c)
  <2>1. pc[c] = "moved" /\ Unpaid /\ Checkpoint(c, Blocked(mem[c]), "loop")
    BY <1>9 DEF SourceMoved
  <2> QED BY <1>0, <2>1, BlockSaves DEF Standing, Pays
<1>10. CASE RejectPlan(c)
  <2> DEFINE q == [mem[c] EXCEPT !.failures = @ + 1, !.cursor = 0]
  <2> DEFINE next == IF Submissions(q) >= MaxSubmissions THEN "moved" ELSE "loop"
  <2>1. /\ Ready(c) /\ mem[c].cursor # 0 /\ NextCall(mem[c]) = "plan" /\ Unpaid
        /\ Submissions(mem[c]) < MaxSubmissions /\ Checkpoint(c, q, next)
    BY <1>10 DEF RejectPlan, AtPlan
  <2>2. Sound(q) /\ q.status = "planning" /\ ~q.pending /\ ~q.reserved
    BY <2>1, ReadyIs, PlanIsSound
  <2> HIDE DEF q
  <2>3. Saves(c, q, next)
    BY <2>1, <2>2, ReadyIs DEF Saves, Standing, Places
  <2> QED BY <2>1, <2>3, ReadyIs DEF Pays
<1>11. CASE AcceptPlan(c)
  <2> DEFINE q == [mem[c] EXCEPT !.status = "accepted", !.plan = c, !.cursor = 0]
  <2>1. /\ Ready(c) /\ mem[c].cursor # 0 /\ NextCall(mem[c]) = "plan" /\ Unpaid
        /\ Submissions(mem[c]) < MaxSubmissions /\ Checkpoint(c, q, "loop")
    BY <1>11 DEF AcceptPlan, AtPlan
  <2>2. Sound(q) /\ q.status = "accepted"
    <3>1. \A d \in Callers : LET p == [mem[c] EXCEPT !.status = "accepted", !.plan = d, !.cursor = 0]
                            IN  Sound(p) /\ p.status = "accepted"
      BY <2>1, ReadyIs, PlanIsSound
    <3> QED BY <3>1
  <2> HIDE DEF q
  <2>3. Saves(c, q, "loop")
    BY <2>1, <2>2, ReadyIs DEF Saves, Standing, Places
  <2> QED BY <2>1, <2>3, ReadyIs DEF Pays
<1>12. CASE AskUser(c)
  <2> DEFINE q == [mem[c] EXCEPT !.status = "awaiting", !.question = TRUE, !.cursor = 0]
  <2>1. /\ Ready(c) /\ mem[c].cursor # 0 /\ NextCall(mem[c]) = "question" /\ Unpaid
        /\ \/ Checkpoint(c, Blocked(mem[c]), "loop")
           \/ ~mem[c].question /\ Checkpoint(c, q, "loop")
    BY <1>12 DEF AskUser
  <2>2. CASE Checkpoint(c, Blocked(mem[c]), "loop")
    BY <2>1, <2>2, ReadyIs, BlockSaves DEF Pays
  <2>3. CASE ~mem[c].question /\ Checkpoint(c, q, "loop")
    <3>1. Sound(q) /\ q.status = "awaiting"
      BY <2>1, <2>3, ReadyIs, QuestionIsSound
    <3> HIDE DEF q
    <3>2. Saves(c, q, "loop")
      BY <2>1, <2>3, <3>1, ReadyIs DEF Saves, Standing, Places
    <3> QED BY <2>1, <3>2, ReadyIs DEF Pays
  <2> QED BY <2>1, <2>2, <2>3
<1> QED BY <1>1, <1>2, <1>3, <1>4, <1>5, <1>6, <1>7, <1>8, <1>9, <1>10, <1>11, <1>12
           DEF Continue
-----------------------------------------------------------------------------
(* What becomes of the durable record *)

Kept == job' = job
Staled == job.life \notin Ended /\ job' = [job EXCEPT !.life = "stale"]
Recorded(p) == job.life \notin Ended /\ Admits(p) /\ job' = Record(p)

LEMMA WrittenCases ==
    ASSUME NEW p
    PROVE  \/ Written(p).job = job /\ (Written(p).continues => era = "v3")
           \/ /\ job.life \notin Ended /\ Written(p).job = [job EXCEPT !.life = "stale"]
              /\ Written(p).continues => era = "v3"
           \/ job.life \notin Ended /\ Admits(p) /\ Written(p).job = Record(p)
<1>1. CASE job.life \in Ended
  <2>1. Written(p) = [job |-> job, continues |-> era = "v3"]
    BY <1>1 DEF Written
  <2>2. ASSUME era # "v3" PROVE ~Written(p).continues
    <3>1. Written(p) = [job |-> job, continues |-> FALSE]
      BY <2>1, <2>2
    <3> QED BY <3>1
  <2>3. Written(p).job = job
    BY <2>1
  <2> QED BY <2>2, <2>3, Zenon
<1>2. CASE job.life \notin Ended /\ changed
  <2>1. Written(p) = [job |-> [job EXCEPT !.life = "stale"], continues |-> era = "v3"]
    BY <1>2 DEF Written
  <2>2. ASSUME era # "v3" PROVE ~Written(p).continues
    <3>1. Written(p) = [job |-> [job EXCEPT !.life = "stale"], continues |-> FALSE]
      BY <2>1, <2>2
    <3> QED BY <3>1
  <2>3. Written(p).job = [job EXCEPT !.life = "stale"]
    BY <2>1
  <2> QED BY <1>2, <2>2, <2>3, Zenon
<1>3. CASE job.life \notin Ended /\ ~changed /\ ~Admits(p)
  <2>1. Written(p) = [job |-> job, continues |-> FALSE]
    BY <1>3 DEF Written
  <2> QED BY <2>1
<1>4. CASE job.life \notin Ended /\ ~changed /\ Admits(p)
  <2>1. Written(p) = [job |-> Record(p), continues |-> TRUE]
    BY <1>4 DEF Written
  <2> QED BY <1>4, <2>1
<1> QED BY <1>1, <1>2, <1>3, <1>4

\* A saved progress leaves the record alone, makes it stale or becomes it; the
\* caller that goes on in v2 has what is on disk.
LEMMA SaveCases ==
    ASSUME NEW c, NEW p, NEW next, Checkpoint(c, p, next)
    PROVE  /\ Kept \/ Staled \/ Recorded(p)
           /\ \/ Leave(c)
              \/ /\ pc' = [pc EXCEPT ![c] = next] /\ mem' = [mem EXCEPT ![c] = p]
                 /\ lock' = lock /\ p.status = "planning"
                 /\ era = "v3" \/ Recorded(p)
           /\ era' = era /\ supported' = supported /\ changed' = changed
<1> DEFINE goes == Written(p).continues
<1>1. \/ Kept /\ (goes => era = "v3")
      \/ Staled /\ (goes => era = "v3")
      \/ Recorded(p)
  BY WrittenCases DEF Checkpoint, Kept, Staled, Recorded
<1>2. \/ Leave(c)
      \/ /\ goes /\ p.status = "planning"
         /\ pc' = [pc EXCEPT ![c] = next] /\ mem' = [mem EXCEPT ![c] = p] /\ lock' = lock
  BY DEF Checkpoint
<1> HIDE DEF goes
<1> QED BY <1>1, <1>2 DEF Checkpoint

LEMMA EnterCases ==
    ASSUME NEW c, NEW life, NEW next, Enter(c, life, next), life \notin Ended
    PROVE  \/ Staled /\ UNCHANGED <<pc, mem, lock>>
           \/ /\ Kept /\ pc' = [pc EXCEPT ![c] = next]
              /\ mem' = [mem EXCEPT ![c] = job.progress]
              /\ lock' = IF era = "v2" THEN c ELSE None
BY DEF Enter, Staled, Kept

LEMMA PersistCases ==
    ASSUME Control, NEW c, PersistAnswer(c)
    PROVE  Kept \/ Staled \/ \E p : Sound(p) /\ Recorded(p)
<1>1. PICK a \in Answers : job' = Written([job.progress EXCEPT !.status = "planning", !.answer = a]).job
  BY DEF PersistAnswer
<1> DEFINE q == [job.progress EXCEPT !.status = "planning", !.answer = a]
<1>2. job.life = "awaiting" /\ job.progress \in Progress
  BY DEF PersistAnswer, Control, Sound
<1>3. job.progress.status = "awaiting"
  BY <1>2 DEF Control, LifeOf
<1>4. Sound(q)
  BY <1>3, AnswerIsSound DEF Control
<1> HIDE DEF q
<1>5. Kept \/ Staled \/ Recorded(q)
  BY <1>1, WrittenCases DEF Kept, Staled, Recorded, q
<1> QED BY <1>4, <1>5

\* Every step of the system, as the invariants see it.
LEMMA Steps ==
    ASSUME Control, [Next]_vars
    PROVE  \/ \E c \in Callers : \E where \in {<<"planning", "loop">>, <<"awaiting", "answer">>} :
                Enter(c, where[1], where[2])
           \/ \E c \in Callers : PersistAnswer(c)
           \/ \E c \in Callers : Abandon(c) \/ PlanTooMany(c)
           \/ \E c \in Callers : CallProvider(c)
           \/ \E c \in Callers : (\E p, next : Saves(c, p, next)) /\ Pays(c)
           \/ EditSource
           \/ UNCHANGED vars
<1>1. ASSUME NEW c \in Callers, Resume(c) \/ BeginAnswer(c)
      PROVE  \E where \in {<<"planning", "loop">>, <<"awaiting", "answer">>} :
                Enter(c, where[1], where[2])
  <2>1. CASE Resume(c)
    <3>1. Enter(c, <<"planning", "loop">>[1], <<"planning", "loop">>[2])
      BY <2>1 DEF Resume
    <3> QED BY <3>1
  <2>2. CASE BeginAnswer(c)
    <3>1. Enter(c, <<"awaiting", "answer">>[1], <<"awaiting", "answer">>[2])
      BY <2>2 DEF BeginAnswer
    <3> QED BY <3>1
  <2> QED BY <1>1, <2>1, <2>2
<1>2. ASSUME NEW c \in Callers, Continue(c)
      PROVE  CallProvider(c) \/ PlanTooMany(c) \/ ((\E p, next : Saves(c, p, next)) /\ Pays(c))
  BY <1>2, CallerSteps
<1> QED BY <1>1, <1>2 DEF Next

LEMMA JobSteps ==
    ASSUME Control, [Next]_vars
    PROVE  Kept \/ Staled \/ \E p : Sound(p) /\ Recorded(p)
<1>1. ASSUME NEW c \in Callers, NEW where \in {<<"planning", "loop">>, <<"awaiting", "answer">>},
             Enter(c, where[1], where[2])
      PROVE  Kept \/ Staled
  <2>1. where[1] \notin Ended
    BY DEF Ended
  <2> QED BY <1>1, <2>1, EnterCases
<1>2. ASSUME NEW c \in Callers, NEW p, NEW next, Saves(c, p, next)
      PROVE  Kept \/ Staled \/ (Sound(p) /\ Recorded(p))
  BY <1>2, SaveCases DEF Saves
<1>3. ASSUME NEW c \in Callers, Abandon(c) \/ PlanTooMany(c) \/ CallProvider(c)
      PROVE  Kept
  BY <1>3 DEF Abandon, PlanTooMany, CallProvider, Kept
<1>4. CASE EditSource \/ UNCHANGED vars
  BY <1>4 DEF EditSource, vars, Kept
<1> QED BY <1>1, <1>2, <1>3, <1>4, Steps, PersistCases
-----------------------------------------------------------------------------
(* Invariants *)

LEMMA SoundStays ==
    ASSUME supported' = supported
    PROVE  \A p : Sound(p) => /\ p \in Progress /\ Consistent(p) /\ ResponseTurns(p) <= MaxTurns
                              /\ EvidenceCalls(p) <= MaxEvidence /\ (p.pending => supported')
BY DEF Sound

LEMMA RecordIsTyped ==
    ASSUME Control, [Next]_vars
    PROVE  /\ job' \in [life : Lives, progress : Progress]
           /\ job'.life # "stale" => job'.life = LifeOf(job'.progress)
           /\ Sound(job'.progress)
<1>1. /\ job \in [life : Lives, progress : Progress] /\ Sound(job.progress)
      /\ job.life # "stale" => job.life = LifeOf(job.progress)
  BY DEF Control
<1>2. CASE Kept
  BY <1>1, <1>2 DEF Kept
<1>3. CASE Staled
  <2>1. job' = [job EXCEPT !.life = "stale"] /\ "stale" \in Lives
    BY <1>3 DEF Staled, Lives
  <2>2. job' \in [life : Lives, progress : Progress] /\ job'.life = "stale"
        /\ job'.progress = job.progress
    BY <1>1, <2>1
  <2> QED BY <1>1, <2>2
<1>4. ASSUME NEW p, Sound(p), Recorded(p)
      PROVE  /\ job' \in [life : Lives, progress : Progress]
             /\ job'.life # "stale" => job'.life = LifeOf(job'.progress)
             /\ Sound(job'.progress)
  <2>1. job' = [life |-> LifeOf(p), progress |-> p] /\ p \in Progress
    BY <1>4 DEF Recorded, Record, Sound
  <2>2. LifeOf(p) \in Lives
    BY <2>1 DEF LifeOf, Lives, Progress
  <2> QED BY <1>4, <2>1, <2>2
<1> QED BY <1>2, <1>3, <1>4, JobSteps

\* One caller moves to a place with a progress that fits it.
LEMMA CallerMoves ==
    ASSUME Control, NEW c \in Callers, NEW place \in Places, NEW p, Sound(p), Standing(place, p),
           pc' = [pc EXCEPT ![c] = place], mem' = [mem EXCEPT ![c] = p]
    PROVE  /\ pc' \in [Callers -> Places] /\ mem' \in [Callers -> Progress]
           /\ \A d \in Callers : Sound(mem'[d]) /\ Standing(pc'[d], mem'[d])
<1>1. p \in Progress
  BY DEF Sound
<1>2. pc' \in [Callers -> Places] /\ mem' \in [Callers -> Progress]
  BY <1>1 DEF Control
<1>3. ASSUME NEW d \in Callers PROVE Sound(mem'[d]) /\ Standing(pc'[d], mem'[d])
  <2>1. CASE d = c
    <3>1. pc'[d] = place /\ mem'[d] = p
      BY <2>1 DEF Control
    <3> QED BY <3>1
  <2>2. CASE d # c
    <3>1. pc'[d] = pc[d] /\ mem'[d] = mem[d]
      BY <2>2 DEF Control
    <3> QED BY <3>1 DEF Control
  <2> QED BY <2>1, <2>2
<1> QED BY <1>2, <1>3

LEMMA CallerLeaves ==
    ASSUME Control, NEW c \in Callers, Leave(c)
    PROVE  /\ pc' \in [Callers -> Places] /\ mem' \in [Callers -> Progress]
           /\ \A d \in Callers : Sound(mem'[d]) /\ Standing(pc'[d], mem'[d])
           /\ lock' \in Callers \cup {None}
<1>1. Standing("idle", NewProgress) /\ "idle" \in Places
  BY DEF Standing, Places
<1>2. pc' = [pc EXCEPT ![c] = "idle"] /\ mem' = [mem EXCEPT ![c] = NewProgress]
      /\ lock' \in Callers \cup {None}
  BY DEF Leave, Control
<1> QED BY <1>1, <1>2, NewIsSound, CallerMoves

LEMMA CallersStay ==
    ASSUME Control, [Next]_vars
    PROVE  /\ pc' \in [Callers -> Places] /\ mem' \in [Callers -> Progress]
           /\ \A d \in Callers : Sound(mem'[d]) /\ Standing(pc'[d], mem'[d])
           /\ lock' \in Callers \cup {None}
           /\ era' = era /\ supported' = supported /\ changed' \in BOOLEAN
<1> DEFINE Good == /\ pc' \in [Callers -> Places] /\ mem' \in [Callers -> Progress]
                   /\ \A d \in Callers : Sound(mem'[d]) /\ Standing(pc'[d], mem'[d])
                   /\ lock' \in Callers \cup {None}
                   /\ era' = era /\ supported' = supported /\ changed' \in BOOLEAN
<1>0. ASSUME UNCHANGED <<pc, mem, lock, era, supported>>, changed' \in BOOLEAN PROVE Good
  BY <1>0 DEF Control
<1>1. ASSUME NEW c \in Callers, NEW where \in {<<"planning", "loop">>, <<"awaiting", "answer">>},
             Enter(c, where[1], where[2])
      PROVE  Good
  <2>1. where[1] \notin Ended /\ where[2] \in Places /\ where[2] \in {"loop", "answer"}
    BY DEF Ended, Places
  <2>2. UNCHANGED <<era, supported, changed>> /\ job.life = where[1]
    BY <1>1 DEF Enter
  <2>3. CASE UNCHANGED <<pc, mem, lock>>
    BY <1>0, <2>2, <2>3 DEF Control
  <2>4. CASE /\ pc' = [pc EXCEPT ![c] = where[2]] /\ mem' = [mem EXCEPT ![c] = job.progress]
             /\ lock' = IF era = "v2" THEN c ELSE None
    <3>1. job.life = LifeOf(job.progress) /\ Sound(job.progress)
      BY <2>2 DEF Control
    <3>2. Standing(where[2], job.progress)
      <4>1. CASE where = <<"planning", "loop">>
        <5>1. where[2] = "loop" /\ job.progress.status = "planning"
          BY <2>2, <3>1, <4>1 DEF LifeOf
        <5> QED BY <5>1 DEF Standing
      <4>2. CASE where = <<"awaiting", "answer">>
        <5>1. where[2] = "answer" /\ job.progress.status = "awaiting"
          BY <2>2, <3>1, <4>2 DEF LifeOf
        <5> QED BY <5>1 DEF Standing
      <4> QED BY <4>1, <4>2
    <3>3. lock' \in Callers \cup {None}
      BY <2>4
    <3> QED BY <2>1, <2>2, <2>4, <3>1, <3>2, <3>3, CallerMoves DEF Control
  <2> QED BY <1>1, <2>1, <2>3, <2>4, EnterCases
<1>2. ASSUME NEW c \in Callers, NEW p, NEW next, Saves(c, p, next)
      PROVE  Good
  <2>1. UNCHANGED <<era, supported, changed>> /\ Sound(p)
    BY <1>2, SaveCases DEF Saves
  <2>2. CASE Leave(c)
    BY <2>1, <2>2, CallerLeaves DEF Control
  <2>3. CASE /\ pc' = [pc EXCEPT ![c] = next] /\ mem' = [mem EXCEPT ![c] = p]
             /\ lock' = lock /\ p.status = "planning"
    <3>1. next \in Places /\ Standing(next, p)
      BY <1>2, <2>3 DEF Saves
    <3> QED BY <2>1, <2>3, <3>1, CallerMoves DEF Control
  <2> QED BY <1>2, <2>2, <2>3, SaveCases DEF Saves
<1>3. ASSUME NEW c \in Callers, Abandon(c) \/ PlanTooMany(c)
      PROVE  Good
  <2>1. Leave(c) /\ UNCHANGED <<era, supported, changed>>
    BY <1>3 DEF Abandon, PlanTooMany
  <2> QED BY <2>1, CallerLeaves DEF Control
<1>4. ASSUME NEW c \in Callers, CallProvider(c)
      PROVE  Good
  <2>1. /\ pc[c] = "reserved" /\ pc' = [pc EXCEPT ![c] = "calling"]
        /\ UNCHANGED <<era, supported, changed, lock, mem>>
    BY <1>4 DEF CallProvider
  <2>2. mem' = [mem EXCEPT ![c] = mem[c]] /\ Sound(mem[c]) /\ Standing("calling", mem[c])
        /\ "calling" \in Places
    BY <2>1 DEF Control, Standing, Places
  <2> QED BY <2>1, <2>2, CallerMoves DEF Control
<1>5. ASSUME NEW c \in Callers, PersistAnswer(c)
      PROVE  Good
  BY <1>0, <1>5 DEF PersistAnswer, Control
<1>6. CASE EditSource \/ UNCHANGED vars
  BY <1>0, <1>6 DEF EditSource, vars, Control
<1> QED BY <1>1, <1>2, <1>3, <1>4, <1>5, <1>6, Steps

LEMMA ControlStep == Control /\ [Next]_vars => Control'
<1> SUFFICES ASSUME Control, [Next]_vars PROVE Control'
  OBVIOUS
<1>1. era' \in {"v2", "v3"} /\ supported' \in BOOLEAN /\ supported' = supported
  BY CallersStay DEF Control
<1>2. /\ pc' \in [Callers -> Places] /\ mem' \in [Callers -> Progress]
      /\ lock' \in Callers \cup {None} /\ changed' \in BOOLEAN
  BY CallersStay
<1>3. \A d \in Callers : Sound(mem'[d]) /\ Standing(pc'[d], mem'[d])
  BY CallersStay
<1>4. Sound(job.progress)' /\ \A d \in Callers : Sound(mem[d])' /\ Standing(pc[d], mem[d])'
  BY <1>1, <1>3, RecordIsTyped DEF Sound, Standing
<1> QED BY <1>1, <1>2, <1>4, RecordIsTyped DEF Control

\* v2: everyone else is idle while one caller runs, and when nobody has the lock.
LEMMA OthersIdle ==
    ASSUME Control, Alone, era = "v2"
    PROVE  /\ \A c, d \in Callers : pc[c] # "idle" /\ d # c => pc[d] = "idle"
           /\ lock = None => \A d \in Callers : pc[d] = "idle"
BY PlannerAssumption DEF Alone

LEMMA AloneStep == Control /\ Alone /\ [Next]_vars => Alone'
<1> SUFFICES ASSUME Control, Alone, [Next]_vars, era = "v2",
                    NEW e \in Callers, pc'[e] # "idle"
             PROVE  lock' = e /\ mem'[e] = job'.progress
  BY CallersStay DEF Alone
<1>0. pc \in [Callers -> Places] /\ mem \in [Callers -> Progress]
  BY DEF Control
<1>1. ASSUME NEW c \in Callers, NEW where \in {<<"planning", "loop">>, <<"awaiting", "answer">>},
             Enter(c, where[1], where[2])
      PROVE  lock' = e /\ mem'[e] = job'.progress
  <2>1. where[1] \notin Ended
    BY DEF Ended
  <2>2. \A d \in Callers : pc[d] = "idle"
    BY <1>1, OthersIdle DEF Enter
  <2>3. /\ Kept /\ pc' = [pc EXCEPT ![c] = where[2]]
        /\ mem' = [mem EXCEPT ![c] = job.progress] /\ lock' = c
    BY <1>1, <2>1, <2>2, EnterCases
  <2> QED BY <1>0, <2>2, <2>3 DEF Kept
<1>2. ASSUME NEW c \in Callers, NEW p, NEW next, Saves(c, p, next)
      PROVE  lock' = e /\ mem'[e] = job'.progress
  <2>1. pc[c] # "idle" /\ lock = c /\ \A d \in Callers : d # c => pc[d] = "idle"
    BY <1>2, OthersIdle DEF Saves, Alone
  <2>2. pc' = [pc EXCEPT ![c] = next] /\ mem' = [mem EXCEPT ![c] = p] /\ lock' = lock
        /\ Recorded(p)
    <3>1. ~Leave(c)
      BY <1>0, <2>1 DEF Leave
    <3> QED BY <1>2, <3>1, SaveCases DEF Saves
  <2>3. e = c
    BY <1>0, <2>1, <2>2
  <2> QED BY <1>0, <2>1, <2>2, <2>3 DEF Recorded, Record
<1>3. ASSUME NEW c \in Callers, Abandon(c) \/ PlanTooMany(c)
      PROVE  FALSE
  <2>1. pc[c] # "idle" /\ Leave(c)
    BY <1>3 DEF Abandon, PlanTooMany, AtPlan, Ready
  <2>2. \A d \in Callers : d # c => pc[d] = "idle"
    BY <2>1, OthersIdle
  <2> QED BY <1>0, <2>1, <2>2 DEF Leave
<1>4. ASSUME NEW c \in Callers, CallProvider(c)
      PROVE  lock' = e /\ mem'[e] = job'.progress
  <2>1. /\ pc[c] = "reserved" /\ pc' = [pc EXCEPT ![c] = "calling"]
        /\ UNCHANGED <<job, lock, mem>>
    BY <1>4 DEF CallProvider
  <2>2. pc[e] # "idle"
    BY <1>0, <2>1
  <2> QED BY <2>1, <2>2 DEF Alone
<1>5. ASSUME NEW c \in Callers, PersistAnswer(c)
      PROVE  FALSE
  <2>1. \A d \in Callers : pc[d] = "idle"
    BY <1>5, OthersIdle DEF PersistAnswer
  <2> QED BY <1>5, <2>1 DEF PersistAnswer
<1>6. CASE EditSource \/ UNCHANGED vars
  BY <1>6 DEF EditSource, vars, Alone
<1> QED BY <1>1, <1>2, <1>3, <1>4, <1>5, <1>6, Steps

\* v2: the count of turns never falls.
LEMMA TurnsGrow ==
    ASSUME Control, [Next]_vars, era = "v2"
    PROVE  ResponseTurns(job.progress) <= ResponseTurns(job'.progress)
<1>1. job \in [life : Lives, progress : Progress] /\ ResponseTurns(job.progress) \in Nat
  BY ProgressFields DEF Control
<1>2. CASE Kept
  BY <1>1, <1>2 DEF Kept
<1>3. CASE Staled
  <2>1. job'.progress = job.progress
    BY <1>1, <1>3 DEF Staled
  <2> QED BY <1>1, <2>1
<1>4. ASSUME NEW p, Recorded(p) PROVE ResponseTurns(job.progress) <= ResponseTurns(job'.progress)
  <2>1. job'.progress = p /\ Succeeds(job.progress, p)
    BY <1>4 DEF Recorded, Record, Admits
  <2> QED BY <2>1 DEF Succeeds
<1> QED BY <1>2, <1>3, <1>4, JobSteps

LEMMA OnceStep == Inv /\ [Next]_vars => Once'
<1> SUFFICES ASSUME Inv, [Next]_vars, era = "v2"
             PROVE  /\ \A n \in 1..MaxTurns : asked'[n] <= 1
                           /\ (asked'[n] = 1 => n <= ResponseTurns(job'.progress))
                    /\ \A d \in Callers : pc'[d] = "reserved" => asked'[ResponseTurns(mem'[d])] = 0
  BY CallersStay DEF Once, Inv
<1> DEFINE Good == /\ \A n \in 1..MaxTurns : asked'[n] <= 1
                         /\ (asked'[n] = 1 => n <= ResponseTurns(job'.progress))
                   /\ \A d \in Callers : pc'[d] = "reserved" => asked'[ResponseTurns(mem'[d])] = 0
<1>0. /\ Control /\ Alone /\ pc \in [Callers -> Places] /\ mem \in [Callers -> Progress]
      /\ asked \in [1..MaxTurns -> Nat]
      /\ \A n \in 1..MaxTurns : asked[n] <= 1 /\ (asked[n] = 1 => n <= ResponseTurns(job.progress))
      /\ \A d \in Callers : pc[d] = "reserved" => asked[ResponseTurns(mem[d])] = 0
  BY LedgerAssumption DEF Inv, Control, Covered, Once
<1>1. /\ ResponseTurns(job.progress) \in Nat /\ ResponseTurns(job'.progress) \in Nat
      /\ ResponseTurns(job.progress) <= ResponseTurns(job'.progress)
  <2>1. job.progress \in Progress /\ job'.progress \in Progress
    BY <1>0, RecordIsTyped DEF Control, Sound
  <2> QED BY <1>0, <2>1, TurnsGrow, ProgressFields
<1>2. ASSUME asked' = asked
      PROVE  \A n \in 1..MaxTurns : asked'[n] <= 1
                /\ (asked'[n] = 1 => n <= ResponseTurns(job'.progress))
  BY <1>0, <1>1, <1>2
<1>3. ASSUME NEW c \in Callers, NEW where \in {<<"planning", "loop">>, <<"awaiting", "answer">>},
             Enter(c, where[1], where[2])
      PROVE  Good
  <2>1. where[1] \notin Ended /\ where[2] # "reserved"
    BY DEF Ended
  <2>2. asked' = asked /\ \A d \in Callers : pc[d] = "idle"
    BY <1>0, <1>3, OthersIdle DEF Enter, Unpaid
  <2>3. \A d \in Callers : pc'[d] # "reserved"
    BY <1>0, <1>3, <2>1, <2>2, EnterCases
  <2> QED BY <1>2, <2>2, <2>3
<1>4. ASSUME NEW c \in Callers, NEW p, NEW next, Saves(c, p, next), Pays(c)
      PROVE  Good
  <2>1. asked' = asked
    BY <1>4 DEF Pays, Unpaid
  <2>2. pc[c] # "idle" /\ mem[c] = job.progress /\ \A d \in Callers : d # c => pc[d] = "idle"
    BY <1>0, <1>4, OthersIdle DEF Saves, Alone
  <2>3. ASSUME NEW d \in Callers, pc'[d] = "reserved"
        PROVE  asked'[ResponseTurns(mem'[d])] = 0
    <3>1. pc' = [pc EXCEPT ![c] = next] /\ mem' = [mem EXCEPT ![c] = p]
      <4>1. ~Leave(c)
        BY <1>0, <2>2, <2>3 DEF Leave
      <4> QED BY <1>4, <4>1, SaveCases DEF Saves
    <3>2. d = c /\ next = "reserved" /\ mem'[d] = p
      BY <1>0, <2>2, <2>3, <3>1
    <3>3. ResponseTurns(p) = ResponseTurns(job.progress) + 1 /\ ResponseTurns(p) <= MaxTurns
      BY <1>4, <2>2, <3>2 DEF Saves, Sound
    <3>4. ResponseTurns(p) \in 1..MaxTurns
      BY <1>1, <3>3, LimitsAreNat
    <3>5. asked[ResponseTurns(p)] # 1
      BY <1>0, <1>1, <3>3, <3>4
    <3> QED BY <1>0, <2>1, <3>2, <3>4, <3>5
  <2> QED BY <1>2, <2>1, <2>3
<1>5. ASSUME NEW c \in Callers, Abandon(c) \/ PlanTooMany(c)
      PROVE  Good
  <2>1. asked' = asked /\ pc[c] # "idle" /\ Leave(c)
    BY <1>5 DEF Abandon, PlanTooMany, AtPlan, Ready, Unpaid
  <2>2. \A d \in Callers : pc'[d] = "idle"
    BY <1>0, <2>1, OthersIdle DEF Leave
  <2> QED BY <1>2, <2>1, <2>2
<1>6. ASSUME NEW c \in Callers, CallProvider(c)
      PROVE  Good
  <2> DEFINE t == ResponseTurns(mem[c])
  <2>1. /\ pc[c] = "reserved" /\ pc' = [pc EXCEPT ![c] = "calling"]
        /\ asked' = [asked EXCEPT ![t] = @ + 1] /\ UNCHANGED <<job, mem>>
    BY <1>6 DEF CallProvider
  <2>2. mem[c] = job.progress /\ \A d \in Callers : d # c => pc[d] = "idle"
    BY <1>0, <2>1, OthersIdle DEF Alone
  <2>3. \A d \in Callers : pc'[d] # "reserved"
    BY <1>0, <2>1, <2>2
  <2>4. asked[t] = 0 /\ t <= ResponseTurns(job'.progress)
    BY <1>0, <1>1, <2>1, <2>2
  <2> HIDE DEF t
  <2>5. ASSUME NEW n \in 1..MaxTurns
        PROVE  asked'[n] <= 1 /\ (asked'[n] = 1 => n <= ResponseTurns(job'.progress))
    <3>1. CASE n = t
      <4>1. asked'[n] = 1
        BY <1>0, <2>1, <2>4, <3>1
      <4> QED BY <2>4, <3>1, <4>1
    <3>2. CASE n # t
      BY <1>0, <1>1, <2>1, <3>2
    <3> QED BY <3>1, <3>2
  <2> QED BY <2>3, <2>5
<1>7. ASSUME NEW c \in Callers, PersistAnswer(c)
      PROVE  Good
  <2>1. asked' = asked /\ pc' = pc /\ mem' = mem
    BY <1>7 DEF PersistAnswer, Unpaid
  <2> QED BY <1>0, <1>2, <2>1
<1>8. CASE EditSource \/ UNCHANGED vars
  <2>1. asked' = asked /\ pc' = pc /\ mem' = mem
    BY <1>8 DEF EditSource, vars, Unpaid
  <2> QED BY <1>0, <1>2, <2>1
<1> QED BY <1>0, <1>3, <1>4, <1>5, <1>6, <1>7, <1>8, Steps

\* One caller more or less is in a call, and what that may still cost.
LEMMA CallingCounts ==
    /\ Cardinality(Calling) \in Nat /\ Cardinality(Calling)' \in Nat
    /\ \A c \in Callers : Calling' = Calling \cup {c} /\ c \notin Calling
          => Cardinality(Calling)' = Cardinality(Calling) + 1
    /\ \A c \in Calling : Calling' = Calling \ {c}
          => Cardinality(Calling) = Cardinality(Calling)' + 1
<1>1. IsFiniteSet(Calling) /\ IsFiniteSet(Calling')
  BY PlannerAssumption, FS_Subset DEF Calling
<1>2. Cardinality(Calling) \in Nat /\ Cardinality(Calling') \in Nat
  BY <1>1, FS_CardinalityType
<1>3. ASSUME NEW c \in Callers, Calling' = Calling \cup {c}, c \notin Calling
      PROVE  Cardinality(Calling') = Cardinality(Calling) + 1
  BY <1>1, <1>3, FS_AddElement
<1>4. ASSUME NEW c \in Calling, Calling' = Calling \ {c}
      PROVE  Cardinality(Calling) = Cardinality(Calling') + 1
  BY <1>1, <1>2, <1>4, FS_RemoveElement
<1> QED BY <1>2, <1>3, <1>4

LEMMA CallCosts ==
    /\ PerCall \in Nat /\ \A k \in Nat : PerCall * k \in Nat
    /\ \A k \in Nat : PerCall * (k + 1) = PerCall * k + PerCall
BY LedgerAssumption

\* A payment in a step that leaves the call.
LEMMA PaidAndLeft ==
    ASSUME Covered, NEW c \in Callers, pc[c] = "calling" => Calling' = Calling \ {c},
           pc[c] # "calling" => Calling' = Calling,
           Pays(c)
    PROVE  Covered'
<1> DEFINE now == Cardinality(Calling)
<1> DEFINE later == Cardinality(Calling)'
<1>1. now \in Nat /\ later \in Nat /\ PerCall \in Nat
      /\ (pc[c] = "calling" => now = later + 1 /\ PerCall * now = PerCall * later + PerCall)
      /\ (pc[c] # "calling" => now = later)
      /\ PerCall * now \in Nat /\ PerCall * later \in Nat
  BY CallingCounts, CallCosts DEF Calling
<1>2. /\ ledger \in Snapshot /\ spent \in Nat /\ spent + PerCall * now <= ledger.committed
      /\ asked \in [1..MaxTurns -> 0..CallCap] /\ \A n \in 1..MaxTurns : asked[n] <= ledger.calls
      /\ ledger.committed \in Nat /\ ledger.reported \in Nat /\ CostCap \in Nat
      /\ ledger.committed <= CostCap
  BY LedgerAssumption DEF Covered, Snapshot
<1> DEFINE x == PerCall * now
<1> DEFINE y == PerCall * later
<1>3. CASE pc[c] # "calling" /\ Unpaid
  <2>1. ledger' = ledger /\ spent' = spent /\ asked' = asked
    BY <1>3 DEF Unpaid
  <2>2. y = x
    BY <1>1, <1>3
  <2> QED BY <1>2, <2>1, <2>2 DEF Covered
<1>4. CASE Billed(c) /\ UNCHANGED <<ledger, asked>>
  <2>1. PICK cost \in 0..PerCall : spent' = IF pc[c] = "calling" THEN spent + cost ELSE spent
    BY <1>4 DEF Billed
  <2>2. spent' \in Nat /\ spent' + y <= ledger.committed
    <3>1. CASE pc[c] = "calling"
      <4>1. x = y + PerCall /\ spent' = spent + cost /\ cost \in Nat /\ cost <= PerCall
        BY <1>1, <2>1, <3>1
      <4>2. x \in Nat /\ y \in Nat
        BY <1>1
      <4> HIDE DEF x, y
      <4> QED BY <1>1, <1>2, <4>1, <4>2 DEF x
    <3>2. CASE pc[c] # "calling"
      <4>1. x = y /\ spent' = spent
        BY <1>1, <2>1, <3>2
      <4> QED BY <1>2, <4>1
    <3> QED BY <3>1, <3>2
  <2> QED BY <1>2, <1>4, <2>2 DEF Covered
<1>5. CASE \E cost \in 0..PerCall : /\ pc[c] = "calling" /\ CanReport(ledger, cost)
                                    /\ ledger' = Reported(ledger, cost)
                                    /\ spent' = spent + cost /\ asked' = asked
  <2>1. PICK cost \in 0..PerCall : /\ pc[c] = "calling" /\ CanReport(ledger, cost)
                                   /\ ledger' = Reported(ledger, cost)
                                   /\ spent' = spent + cost /\ asked' = asked
    BY <1>5
  <2> DEFINE total == ledger.reported + cost
  <2> DEFINE most == IF ledger.committed < total THEN total ELSE ledger.committed
  <2>2. cost \in Nat /\ cost <= PerCall /\ total \in 0..CostCap /\ most \in 0..CostCap
        /\ most >= ledger.committed
    <3>1. cost \in Nat /\ cost <= PerCall
      BY <1>1
    <3>2. total <= CostCap
      BY <2>1 DEF CanReport
    <3>3. total \in 0..CostCap
      BY <1>2, <3>1, <3>2
    <3> HIDE DEF total
    <3>4. most \in 0..CostCap /\ most >= ledger.committed
      BY <1>2, <3>3
    <3> QED BY <3>1, <3>3, <3>4
  <2>3. ledger' = [ledger EXCEPT !.reported = total, !.committed = most]
    BY <2>1 DEF Reported
  <2> HIDE DEF total, most
  <2>4. ledger' \in Snapshot /\ ledger'.committed = most /\ ledger'.calls = ledger.calls
    BY <1>2, <2>2, <2>3 DEF Snapshot
  <2>5. spent' \in Nat /\ spent' + y <= most
    <3>1. x = y + PerCall /\ x \in Nat /\ y \in Nat
      BY <1>1, <2>1
    <3>2. spent + x <= ledger.committed
      BY <1>2
    <3>3. most \in Nat /\ ledger.committed <= most /\ spent' = spent + cost
      BY <1>2, <2>1, <2>2
    <3> HIDE DEF x, y
    <3> QED BY <1>1, <1>2, <2>2, <3>1, <3>2, <3>3
  <2> QED BY <1>2, <2>1, <2>4, <2>5 DEF Covered
<1> QED BY <1>3, <1>4, <1>5 DEF Pays

LEMMA CoveredStep == Inv /\ [Next]_vars => Covered'
<1> SUFFICES ASSUME Inv, [Next]_vars PROVE Covered'
  OBVIOUS
<1>0. Control /\ Covered /\ pc \in [Callers -> Places]
  BY DEF Inv, Control
<1>1. ASSUME NEW c \in Callers, NEW where \in {<<"planning", "loop">>, <<"awaiting", "answer">>},
             Enter(c, where[1], where[2])
      PROVE  Covered'
  <2>1. where[1] \notin Ended /\ where[2] # "calling" /\ pc[c] = "idle" /\ Unpaid
    BY <1>1 DEF Ended, Enter
  <2>2. Calling' = Calling
    BY <1>0, <1>1, <2>1, EnterCases DEF Calling
  <2> QED BY <1>0, <2>1, <2>2, PaidAndLeft DEF Pays
<1>2. ASSUME NEW c \in Callers, NEW p, NEW next, Saves(c, p, next), Pays(c)
      PROVE  Covered'
  <2>1. next # "calling" /\ (Leave(c) \/ pc' = [pc EXCEPT ![c] = next])
    BY <1>2, SaveCases DEF Saves
  <2>2. pc[c] = "calling" => Calling' = Calling \ {c}
    BY <1>0, <2>1 DEF Calling, Leave
  <2>3. pc[c] # "calling" => Calling' = Calling
    BY <1>0, <2>1 DEF Calling, Leave
  <2> QED BY <1>0, <1>2, <2>2, <2>3, PaidAndLeft
<1>3. ASSUME NEW c \in Callers, Abandon(c) \/ PlanTooMany(c)
      PROVE  Covered'
  <2>1. Leave(c) /\ Pays(c)
    BY <1>3 DEF Abandon, PlanTooMany, AtPlan, Ready, Pays
  <2>2. pc[c] = "calling" => Calling' = Calling \ {c}
    BY <1>0, <2>1 DEF Calling, Leave
  <2>3. pc[c] # "calling" => Calling' = Calling
    BY <1>0, <2>1 DEF Calling, Leave
  <2> QED BY <1>0, <2>1, <2>2, <2>3, PaidAndLeft
<1>4. ASSUME NEW c \in Callers, CallProvider(c)
      PROVE  Covered'
  <2> DEFINE t == ResponseTurns(mem[c])
  <2>1. /\ pc[c] = "reserved" /\ pc' = [pc EXCEPT ![c] = "calling"] /\ CanReserve(ledger)
        /\ ledger' = Reserved(ledger) /\ asked' = [asked EXCEPT ![t] = @ + 1]
        /\ spent' = spent
    BY <1>4 DEF CallProvider
  <2>2. t \in 1..MaxTurns
    <3>1. mem[c] \in Progress /\ mem[c].pending /\ t <= MaxTurns
      BY <1>0, <2>1 DEF Control, Sound, Standing
    <3>2. t \in Nat /\ t >= 1
      BY <3>1, ProgressFields
    <3> QED BY <3>1, <3>2, LimitsAreNat
  <2> HIDE DEF t
  <2>3. Calling' = Calling \cup {c} /\ c \notin Calling
    BY <1>0, <2>1 DEF Calling
  <2> DEFINE x == PerCall * Cardinality(Calling)
  <2> DEFINE y == PerCall * Cardinality(Calling)'
  <2>4. y = x + PerCall /\ x \in Nat /\ PerCall \in Nat
    BY <2>3, CallingCounts, CallCosts
  <2>5. /\ ledger \in Snapshot /\ spent \in Nat /\ spent + x <= ledger.committed
        /\ asked \in [1..MaxTurns -> 0..CallCap] /\ \A n \in 1..MaxTurns : asked[n] <= ledger.calls
        /\ ledger.committed \in Nat /\ ledger.calls \in Nat /\ CostCap \in Nat /\ CallCap \in Nat
    BY <1>0, LedgerAssumption DEF Covered, Snapshot
  <2> DEFINE n1 == ledger.calls + 1
  <2> DEFINE c1 == ledger.committed + PerCall
  <2>6. n1 \in 0..CallCap /\ c1 \in 0..CostCap
    BY <2>1, <2>4, <2>5 DEF CanReserve
  <2>7. ledger' = [ledger EXCEPT !.calls = n1, !.committed = c1]
    BY <2>1 DEF Reserved
  <2> HIDE DEF n1, c1
  <2>8. ledger' \in Snapshot /\ ledger'.calls = n1 /\ ledger'.committed = c1
    BY <2>5, <2>6, <2>7 DEF Snapshot
  <2>9. \A n \in 1..MaxTurns : asked'[n] \in Nat /\ asked'[n] <= n1
    BY <2>1, <2>2, <2>5 DEF n1
  <2>10. asked' \in [1..MaxTurns -> 0..CallCap]
    BY <2>1, <2>2, <2>5, <2>6, <2>9
  <2>11. spent' + y <= c1
    <3> HIDE DEF x, y
    <3> QED BY <2>1, <2>4, <2>5 DEF c1
  <2> QED BY <2>1, <2>5, <2>8, <2>9, <2>10, <2>11 DEF Covered
<1>5. ASSUME NEW c \in Callers, PersistAnswer(c)
      PROVE  Covered'
  <2>1. pc[c] = "idle" /\ pc' = pc /\ Unpaid
    BY <1>5 DEF PersistAnswer
  <2>2. Calling' = Calling
    BY <2>1 DEF Calling
  <2> QED BY <1>0, <2>1, <2>2, PaidAndLeft DEF Pays
<1>6. CASE EditSource \/ UNCHANGED vars
  <2>1. pc' = pc /\ ledger' = ledger /\ spent' = spent /\ asked' = asked
    BY <1>6 DEF EditSource, vars, Unpaid
  <2>2. Cardinality(Calling)' = Cardinality(Calling)
    BY <2>1 DEF Calling
  <2> QED BY <1>0, <2>1, <2>2 DEF Covered
<1> QED BY <1>1, <1>2, <1>3, <1>4, <1>5, <1>6, <1>0, Steps
-----------------------------------------------------------------------------
(* Theorems *)

LEMMA InvInit == Init => Inv
<1> SUFFICES ASSUME Init PROVE Inv
  OBVIOUS
<1>1. job = [life |-> "planning", progress |-> NewProgress]
  BY DEF Init, Record, LifeOf, NewProgress
<1>2. NewProgress \in Progress
  BY NewIsSound DEF Sound
<1>3. Control
  <2>1. /\ job.progress = NewProgress /\ job \in [life : Lives, progress : Progress]
        /\ job.life = LifeOf(job.progress)
    BY <1>1, <1>2 DEF Lives, LifeOf, NewProgress
  <2>2. /\ pc \in [Callers -> Places] /\ mem \in [Callers -> Progress]
        /\ \A c \in Callers : pc[c] = "idle" /\ mem[c] = NewProgress
    BY <1>2 DEF Init, Places
  <2>3. Standing("idle", NewProgress)
    BY DEF Standing
  <2> QED BY <2>1, <2>2, <2>3, NewIsSound DEF Init, Control
<1>4. Alone /\ Once
  BY LimitsAreNat DEF Init, Alone, Once
<1>5. Calling = {} /\ Cardinality({}) = 0
  BY FS_EmptySet DEF Init, Calling
<1>6. Covered
  <2>1. PerCall * Cardinality(Calling) = 0
    BY <1>5, LedgerAssumption
  <2>2. ledger \in Snapshot /\ asked \in [1..MaxTurns -> 0..CallCap]
    BY LedgerAssumption DEF Init, EmptyLedger, Snapshot
  <2> QED BY <2>1, <2>2, LedgerAssumption DEF Covered, Init, EmptyLedger
<1> QED BY <1>3, <1>4, <1>6 DEF Inv

LEMMA InvStep == Inv /\ [Next]_vars => Inv'
BY ControlStep, AloneStep, OnceStep, CoveredStep DEF Inv

LEMMA InvAlways == Spec => []Inv
<1>1. Init => Inv
  BY InvInit
<1>2. Inv /\ [Next]_vars => Inv'
  BY InvStep
<1> QED BY <1>1, <1>2, PTL DEF Spec

\* A v2 response turn is put to the provider at most once, and the record counts
\* every turn that was asked (_continue_planner holds the writer lock, run()
\* saves the reservation before the call).
THEOREM TurnsAskedOnce == Spec => []AskedOnce
<1>1. Inv => AskedOnce
  BY DEF Inv, Once, AskedOnce
<1> QED BY <1>1, InvAlways, PTL

\* What calls cost, and may still cost while in flight, is committed in the
\* ledger (reserve_microusd before the call, record_reported_cost_microusd
\* after it), and every progress keeps within its limits.
THEOREM SpendIsCovered == Spec => []SpendCovered
<1>1. Inv => SpendCovered
  <2> SUFFICES ASSUME Inv PROVE SpendCovered
    OBVIOUS
  <2>1. Cardinality(Calling) \in Nat /\ PerCall * Cardinality(Calling) \in Nat
    BY CallingCounts, CallCosts
  <2>2. /\ spent \in Nat /\ spent + PerCall * Cardinality(Calling) <= ledger.committed
        /\ ledger.committed \in 0..CostCap /\ CostCap \in Nat
    BY LedgerAssumption DEF Inv, Covered, Snapshot
  <2>3. spent \in 0..CostCap
    <3> DEFINE x == PerCall * Cardinality(Calling)
    <3>1. x \in Nat /\ spent + x <= ledger.committed
      BY <2>1, <2>2
    <3> HIDE DEF x
    <3> QED BY <2>2, <3>1
  <2>4. TypeOK
    BY <2>3 DEF Inv, Control, Covered, Sound, TypeOK, Places
  <2> QED BY <2>2, <2>4 DEF SpendCovered, Calling
<1> QED BY <1>1, InvAlways, PTL

\* Once planning has ended no checkpoint of a caller still running changes the
\* progress, and a preview may only go stale (_checkpoint_planner reloads the
\* record and returns one that has ended).
THEOREM PlanningEndsForGood == Spec => PlanningEndsOnce
<1>1. ASSUME Inv, [Next]_vars
      PROVE  [job.life \in {"reviewing", "blocked", "stale"} =>
                /\ job'.progress = job.progress
                /\ job'.life \in {job.life, "stale"}]_job
  <2> SUFFICES ASSUME job.life \in {"reviewing", "blocked", "stale"}
               PROVE  job'.progress = job.progress /\ job'.life \in {job.life, "stale"}
    OBVIOUS
  <2>1. /\ Control /\ job \in [life : Lives, progress : Progress]
        /\ job.life # "stale" => job.life = LifeOf(job.progress)
    BY <1>1 DEF Inv, Control
  <2>2. CASE Kept
    BY <2>2 DEF Kept
  <2>3. CASE Staled
    BY <2>1, <2>3 DEF Staled
  <2>4. ASSUME NEW p, Recorded(p) PROVE FALSE
    <3>1. job.life = "reviewing" /\ Admits(p)
      BY <2>4 DEF Recorded, Ended
    <3>2. job.progress.status = "accepted"
      BY <2>1, <3>1 DEF LifeOf, Progress
    <3>3. era = "v2"
      BY <3>1 DEF Admits
    <3> QED BY <3>1, <3>2, <3>3 DEF Admits, Succeeds
  <2> QED BY <1>1, <2>1, <2>2, <2>3, <2>4, JobSteps
<1> QED BY <1>1, InvAlways, PTL DEF Spec, PlanningEndsOnce
=============================================================================
