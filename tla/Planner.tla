------------------------------- MODULE Planner -------------------------------
(***************************************************************************)
(* The bounded planning exchange of one job: PlannerOrchestrator           *)
(* (planner_orchestrator.py) run by several callers at once over one       *)
(* durable record, with the provider and the budget ledger it pays from.   *)
(*                                                                         *)
(* Two services run the same orchestrator and differ in what they hold     *)
(* while the provider thinks.  The v2 service (connected_change/           *)
(* planning.py) keeps the writer lock for the whole exchange and its       *)
(* record refuses a checkpoint that rewrites history.  The v3 service      *)
(* (connected_change/review_service.py) takes the lock for each checkpoint *)
(* and writes the caller's progress over whatever is there.  `era` says    *)
(* which service owns the job.                                             *)
(***************************************************************************)
EXTENDS Integers, Sequences, FiniteSets, BudgetLedger

CONSTANTS Callers,         \* threads and processes that continue the planning
          Answers,         \* texts a user may answer with
          None,
          MaxTurns,        \* MAX_RESPONSE_TURNS
          MaxEvidence,     \* MAX_EVIDENCE_CALLS
          MaxSubmissions,  \* MAX_PLAN_SUBMISSIONS
          MaxToolCalls     \* evidence calls in one response

ASSUME PlannerAssumption ==
    /\ IsFiniteSet(Callers)
    /\ {MaxTurns, MaxEvidence, MaxSubmissions, MaxToolCalls} \subseteq Nat \ {0}
    /\ None \notin Callers \cup Answers

VARIABLES era,        \* the service that owns the job: "v2" or "v3"
          supported,  \* classify_unsupported_request found no blocker
          changed,    \* the source differs from the job's inventory
          job,        \* the durable record: lifecycle and planner progress
          lock,       \* v2: who holds the record's writer lock
          pc, mem,    \* what each caller does, and its progress in memory
          ledger,     \* the budget ledger
          spent,      \* what the calls made so far really cost
          asked       \* how often each response turn was put to the provider

vars == <<era, supported, changed, job, lock, pc, mem, ledger, spent, asked>>
-----------------------------------------------------------------------------
(* Progress *)

\* A response is a blocker, one submitted plan, one question, or 1..MaxToolCalls
\* evidence calls; a failed turn is recorded like a blocker.
Evidence(n) == [kind |-> "evidence", calls |-> n]
Terminal(kind) == [kind |-> kind, calls |-> 1]
Replies == {Evidence(n) : n \in 1..MaxToolCalls}
             \cup {Terminal(k) : k \in {"plan", "question"}}
Failed == [kind |-> "failed", calls |-> 0]
TurnLists == UNION {[1..n -> Replies \cup {Failed}] : n \in 0..MaxTurns}

Progress == [status : {"planning", "awaiting", "accepted", "blocked"},
             turns : TurnLists,
             pending : BOOLEAN,               \* pending_response_turn is set
             cursor : 0..MaxToolCalls,        \* call being processed, 0 for none
             reserved : BOOLEAN,              \* pending_evidence_call is set
             records : 0..MaxEvidence,        \* evidence ledger records
             failures : 0..MaxSubmissions,    \* compiler failures
             plan : Callers \cup {None},      \* accepted plan, by who compiled it
             question : BOOLEAN,
             answer : Answers \cup {None}]

NewProgress == [status |-> "planning", turns |-> <<>>, pending |-> FALSE,
                cursor |-> 0, reserved |-> FALSE, records |-> 0, failures |-> 0,
                plan |-> None, question |-> FALSE, answer |-> None]

Count(b) == IF b THEN 1 ELSE 0
ResponseTurns(p) == Len(p.turns) + Count(p.pending)
EvidenceCalls(p) == p.records + Count(p.reserved)
Submissions(p) == p.failures + Count(p.plan # None)
LastTurn(p) == p.turns[Len(p.turns)]
NextCall(p) == LastTurn(p).kind

\* FolderPlannerProgress.require_state_consistency; response_turns,
\* evidence_calls and plan_submissions are the sums above.
Consistent(p) ==
    /\ p.pending => p.status = "planning" /\ p.cursor = 0
    /\ p.cursor # 0 => /\ p.turns # <<>> /\ p.cursor <= LastTurn(p).calls
                       /\ p.status \in {"planning", "blocked"}
    /\ p.reserved => p.cursor # 0 /\ NextCall(p) = "evidence"
    /\ p.status = "awaiting" =>
         p.question /\ p.answer = None /\ p.turns # <<>> /\ NextCall(p) = "question"
    /\ p.question /\ p.answer = None => p.status = "awaiting"
    /\ p.answer # None => p.question
    /\ (p.status = "accepted") <=> (p.plan # None)
    /\ p.status = "accepted" => NextCall(p) = "plan"

\* A blocked progress keeps the cursor of an unfinished evidence call.
Blocked(p) == [p EXCEPT !.status = "blocked",
                        !.cursor = IF p.reserved THEN @ ELSE 0]

\* The reserved turn is closed with what came back.
Answered(p, reply) == [p EXCEPT !.turns = Append(@, reply), !.pending = FALSE,
                                !.cursor = 1]
FailedTurn(p) == [p EXCEPT !.turns = Append(@, Failed), !.pending = FALSE,
                           !.status = "blocked"]
-----------------------------------------------------------------------------
(* The durable record *)

Lives == {"planning", "awaiting", "reviewing", "blocked", "stale"}
Ended == {"blocked", "stale"}

LifeOf(p) == IF p.status = "accepted" THEN "reviewing" ELSE p.status

Record(p) == [life |-> LifeOf(p), progress |-> p]

IsPrefixOf(s, t) == Len(s) <= Len(t) /\ SubSeq(t, 1, Len(s)) = s

\* _require_gpt_planner_successor: v2 history only grows, a reserved turn is
\* kept or completed, and a question and its answer stay.
Succeeds(q, p) ==
    /\ IsPrefixOf(q.turns, p.turns)
    /\ q.records <= p.records
    /\ q.failures <= p.failures
    /\ ResponseTurns(q) <= ResponseTurns(p)
    /\ EvidenceCalls(q) <= EvidenceCalls(p)
    /\ q.question => p.question
    /\ q.answer # None => p.answer = q.answer
    /\ q.status = "awaiting" => p.status = "planning" /\ p.answer # None
    /\ ~q.question /\ p.question => p.status = "awaiting"
    /\ q.status # "accepted"

\* The v3 record only looks at the lifecycle: nothing but a revision, an
\* execution, staleness or a block leaves reviewing, and a block that drops the
\* record's reference graph is refused.
\* Mutant: the v3 record takes a checkpoint at any time.
AdmitsLate(p) == era = "v2" => Succeeds(job.progress, p)
Admits(p) == IF era = "v2" THEN Succeeds(job.progress, p)
                           ELSE job.life \in {"planning", "awaiting"}

\* One checkpoint: what it leaves on disk, and whether the caller carries on.
\* A finished v3 record is left alone and the caller is not told.
Written(p) ==
    CASE job.life \in Ended -> [job |-> job, continues |-> era = "v3"]
      [] job.life \notin Ended /\ changed ->
           [job |-> [job EXCEPT !.life = "stale"], continues |-> era = "v3"]
      [] job.life \notin Ended /\ ~changed /\ ~Admits(p) ->
           [job |-> job, continues |-> FALSE]
      [] OTHER -> [job |-> Record(p), continues |-> TRUE]

\* The caller stops; its memory and its lock go with it.
Leave(c) ==
    /\ pc' = [pc EXCEPT ![c] = "idle"]
    /\ mem' = [mem EXCEPT ![c] = NewProgress]
    /\ lock' = IF lock = c THEN None ELSE lock

\* Caller c saves p and, unless the record or the orchestrator stops it, goes on
\* at `next`.  run() returns when the progress is no longer planning.
Checkpoint(c, p, next) ==
    LET written == Written(p) IN
    /\ job' = written.job
    /\ IF written.continues /\ p.status = "planning"
         THEN /\ pc' = [pc EXCEPT ![c] = next]
              /\ mem' = [mem EXCEPT ![c] = p]
              /\ UNCHANGED lock
         ELSE Leave(c)
    /\ UNCHANGED <<era, supported, changed>>

Unpaid == UNCHANGED <<ledger, spent, asked>>

\* A call that ends without a recorded answer may have cost its reservation.
Billed(c) == \E cost \in 0..PerCall :
    spent' = IF pc[c] = "calling" THEN spent + cost ELSE spent
-----------------------------------------------------------------------------
(* Entering and leaving *)

Init ==
    /\ era \in {"v2", "v3"}
    /\ supported \in BOOLEAN
    /\ changed = FALSE
    /\ job = Record(NewProgress)
    /\ lock = None
    /\ pc = [c \in Callers |-> "idle"]
    /\ mem = [c \in Callers |-> NewProgress]
    /\ ledger = EmptyLedger
    /\ spent = 0
    /\ asked = [n \in 1..MaxTurns |-> 0]

\* rehydrate() under the writer lock, then keep the lock (v2) or not (v3).  A
\* changed source makes the record stale instead.  A busy v2 lock refuses.
Enter(c, life, next) ==
    /\ pc[c] = "idle" /\ lock = None /\ job.life = life
    /\ IF changed
         THEN /\ job' = [job EXCEPT !.life = "stale"]
              /\ UNCHANGED <<pc, mem, lock>>
         ELSE /\ pc' = [pc EXCEPT ![c] = next]
              /\ mem' = [mem EXCEPT ![c] = job.progress]
              /\ lock' = IF era = "v2" THEN c ELSE None
              /\ UNCHANGED job
    /\ UNCHANGED <<era, supported, changed>> /\ Unpaid

\* start, resume and recover: continue the record's planning.
Resume(c) == Enter(c, "planning", "loop")

\* answer_clarification: the record must be waiting when it is read.
BeginAnswer(c) == Enter(c, "awaiting", "answer")

\* ... and the sole answer is saved before another turn is spent.
SaveAnswer(c) == \E a \in Answers :
    /\ pc[c] = "answer"
    /\ Checkpoint(c, [mem[c] EXCEPT !.status = "planning", !.answer = a], "loop")
    /\ Unpaid

\* v2 persist_clarification_answer: the answer alone, without a provider.
PersistAnswer(c) == \E a \in Answers :
    /\ era = "v2" /\ pc[c] = "idle" /\ lock = None /\ job.life = "awaiting"
    /\ job' = Written([job.progress EXCEPT !.status = "planning", !.answer = a]).job
    /\ UNCHANGED <<era, supported, changed, lock, pc, mem>> /\ Unpaid

\* The process dies, or (v3) finds the writer lock busy at a checkpoint and
\* raises.  Either way its memory is gone and its lock released.
Abandon(c) ==
    /\ pc[c] # "idle"
    /\ Leave(c)
    /\ Billed(c)
    /\ UNCHANGED <<era, supported, changed, job, ledger, asked>>

\* The user edits the source, and may undo the edit in place.
EditSource ==
    /\ changed' = ~changed
    /\ UNCHANGED <<era, supported, job, lock, pc, mem>> /\ Unpaid
-----------------------------------------------------------------------------
(* PlannerOrchestrator.run *)

\* In its loop, run() never holds an open turn or an open evidence call.
Ready(c) == pc[c] = "loop" /\ supported /\ ~mem[c].pending /\ ~mem[c].reserved

\* What run() finds before its loop: an unsupported request, a turn whose
\* answer was lost, or an evidence call whose result was lost.
Unresumable(c) ==
    /\ pc[c] = "loop"
    /\ ~supported \/ mem[c].pending \/ mem[c].reserved
    /\ Checkpoint(c, IF supported /\ mem[c].pending
                       THEN FailedTurn(mem[c]) ELSE Blocked(mem[c]), "loop")
    /\ Unpaid

\* The loop's head: the source moved, or the turns or the outbound bytes (any
\* amount may have been sent) are used up.
OutOfBudget(c) ==
    /\ Ready(c)
    /\ \/ changed
       \/ mem[c].cursor = 0 /\ mem[c].turns # <<>>
    /\ Checkpoint(c, Blocked(mem[c]), "loop")
    /\ Unpaid

\* The turn is counted and saved before the provider hears of it.
\* Mutant: the turn is counted in memory only.
ReserveTurnInMemory(c) ==
    /\ Ready(c) /\ ~changed /\ mem[c].cursor = 0
    /\ ResponseTurns(mem[c]) < MaxTurns
    /\ mem' = [mem EXCEPT ![c].pending = TRUE]
    /\ pc' = [pc EXCEPT ![c] = "reserved"]
    /\ UNCHANGED <<era, supported, changed, job, lock>> /\ Unpaid

ReserveTurn(c) ==
    /\ Ready(c) /\ ~changed /\ mem[c].cursor = 0
    /\ ResponseTurns(mem[c]) < MaxTurns
    /\ Checkpoint(c, [mem[c] EXCEPT !.pending = TRUE], "reserved")
    /\ Unpaid

\* LiveFolderPlannerProvider.exchange pays first and calls once, without retry.
CallProvider(c) ==
    /\ pc[c] = "reserved" /\ CanReserve(ledger)
    /\ ledger' = Reserved(ledger)
    /\ asked' = [asked EXCEPT ![ResponseTurns(mem[c])] = @ + 1]
    /\ pc' = [pc EXCEPT ![c] = "calling"]
    /\ UNCHANGED <<era, supported, changed, job, lock, mem, spent>>

\* The ledger refuses (a cap, or its lock is busy), the call times out or fails
\* in transit, or its cost cannot be recorded: the turn is closed as failed.
\* A blocker in the answer closes the turn the same way.
FailTurn(c) ==
    /\ pc[c] \in {"reserved", "calling"}
    /\ Checkpoint(c, FailedTurn(mem[c]), "loop")
    /\ Billed(c)
    /\ UNCHANGED <<ledger, asked>>

\* The answer arrives with its usage, is paid for and saved.
RecordResponse(c) == \E reply \in Replies, cost \in 0..PerCall :
    /\ pc[c] = "calling" /\ CanReport(ledger, cost)
    /\ ledger' = Reported(ledger, cost)
    /\ spent' = spent + cost
    /\ Checkpoint(c, Answered(mem[c], reply), "loop")
    /\ UNCHANGED asked

\* An evidence call is counted and saved before it runs; past the limit it
\* blocks the job.
ReserveEvidence(c) ==
    /\ Ready(c) /\ mem[c].cursor # 0 /\ NextCall(mem[c]) = "evidence"
    /\ IF EvidenceCalls(mem[c]) >= MaxEvidence
         THEN Checkpoint(c, Blocked(mem[c]), "loop")
         ELSE Checkpoint(c, [mem[c] EXCEPT !.reserved = TRUE], "evidence")
    /\ Unpaid

\* Its result joins the ledger and the cursor moves; a result over the byte
\* limits blocks the job, and so does a source that changed meanwhile.
RecordEvidence(c) ==
    /\ pc[c] = "evidence"
    /\ LET p == mem[c]
           last == p.cursor = LastTurn(p).calls
           done == [p EXCEPT !.reserved = FALSE, !.records = @ + 1,
                             !.cursor = IF last THEN 0 ELSE @ + 1]
       IN  \/ Checkpoint(c, Blocked(p), "loop")
           \/ Checkpoint(c, done, IF changed THEN "moved" ELSE "loop")
    /\ Unpaid

SourceMoved(c) ==
    /\ pc[c] = "moved"
    /\ Checkpoint(c, Blocked(mem[c]), "loop")
    /\ Unpaid

AtPlan(c) == /\ Ready(c) /\ ~changed
             /\ mem[c].cursor # 0 /\ NextCall(mem[c]) = "plan"

\* A submitted plan compiles and is accepted, or counts against its limit.
RejectPlan(c) ==
    /\ AtPlan(c) /\ Submissions(mem[c]) < MaxSubmissions
    /\ LET p == [mem[c] EXCEPT !.failures = @ + 1, !.cursor = 0]
       IN  Checkpoint(c, p, IF Submissions(p) >= MaxSubmissions THEN "moved" ELSE "loop")
    /\ Unpaid

AcceptPlan(c) ==
    /\ AtPlan(c) /\ Submissions(mem[c]) < MaxSubmissions
    /\ Checkpoint(c, [mem[c] EXCEPT !.status = "accepted", !.plan = c, !.cursor = 0],
                  "loop")
    /\ Unpaid

\* A record saved between the last rejection and its block is resumed as if more
\* were allowed; the progress model refuses one submission too many and the
\* caller raises, with the plan still at the cursor.
PlanTooMany(c) ==
    /\ AtPlan(c) /\ Submissions(mem[c]) >= MaxSubmissions
    /\ Leave(c)
    /\ UNCHANGED <<era, supported, changed, job>> /\ Unpaid

\* One question per job and none after a submission; it may also name evidence
\* the job does not have.
AskUser(c) ==
    /\ Ready(c) /\ ~changed /\ mem[c].cursor # 0 /\ NextCall(mem[c]) = "question"
    /\ LET p == mem[c] IN
       \/ Checkpoint(c, Blocked(p), "loop")
       \/ /\ ~p.question /\ Submissions(p) = 0
          /\ Checkpoint(c, [p EXCEPT !.status = "awaiting", !.question = TRUE,
                                     !.cursor = 0], "loop")
    /\ Unpaid
-----------------------------------------------------------------------------
Continue(c) ==
    \/ SaveAnswer(c) \/ Unresumable(c) \/ OutOfBudget(c)
    \/ ReserveTurn(c) \/ CallProvider(c) \/ FailTurn(c) \/ RecordResponse(c)
    \/ ReserveEvidence(c) \/ RecordEvidence(c) \/ SourceMoved(c)
    \/ RejectPlan(c) \/ AcceptPlan(c) \/ PlanTooMany(c) \/ AskUser(c)

Next ==
    \/ \E c \in Callers : \/ Resume(c) \/ BeginAnswer(c) \/ PersistAnswer(c)
                          \/ Abandon(c) \/ Continue(c)
    \/ EditSource

\* A running caller is scheduled and its provider call ends, by the answer or by
\* the client's timeout.
Spec == Init /\ [][Next]_vars /\ \A c \in Callers : WF_vars(Continue(c))
-----------------------------------------------------------------------------
(* Properties *)

\* Types, and every progress in a record or in a caller's memory passes its
\* validator, which is where the limits on turns, evidence and submissions are.
TypeOK ==
    /\ era \in {"v2", "v3"} /\ supported \in BOOLEAN /\ changed \in BOOLEAN
    /\ job \in [life : Lives, progress : Progress]
    /\ job.life # "stale" => job.life = LifeOf(job.progress)
    /\ lock \in Callers \cup {None}
    /\ pc \in [Callers -> {"idle", "answer", "loop", "reserved",
                           "calling", "evidence", "moved"}]
    /\ mem \in [Callers -> Progress]
    /\ \A p \in {job.progress} \cup {mem[c] : c \in Callers} : Consistent(p)
    /\ ledger \in Snapshot
    /\ spent \in 0..CostCap
    /\ asked \in [1..MaxTurns -> 0..CallCap]

\* With the v2 service a response turn is put to the provider at most once, over
\* every interleaving, crash and resumption, and the record counts every turn
\* that was ever asked (_continue_planner holds the writer lock throughout and
\* run() saves the reservation first).
AskedOnce == era = "v2" =>
    \A n \in 1..MaxTurns :
        /\ asked[n] <= 1
        /\ asked[n] = 1 => n <= ResponseTurns(job.progress)

\* What calls cost, and may still cost while in flight, is always committed in
\* the ledger: a crash, a timeout or a lost report never frees budget
\* (reserve_microusd before the call, record_reported_cost_microusd after it);
\* and every progress keeps within its limits.
SpendCovered ==
    /\ spent + PerCall * Cardinality({c \in Callers : pc[c] = "calling"})
          <= ledger.committed
    /\ TypeOK

\* Once planning has ended, in a preview, a block or staleness, no checkpoint of
\* a caller still running changes the progress; a preview may only go stale.
PlanningEndsOnce ==
    [][job.life \in {"reviewing", "blocked", "stale"} =>
         /\ job'.progress = job.progress
         /\ job'.life \in {job.life, "stale"}]_job

\* A caller always comes back: with an answer for the user, a block or an error.
\* In v3 this includes one whose job another caller has ended.
CallerReturns == \A c \in Callers : pc[c] # "idle" ~> pc[c] = "idle"
=============================================================================
