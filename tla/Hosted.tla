-------------------------------- MODULE Hosted --------------------------------
(***************************************************************************)
(* One job planned by a hosted model: FoldweaveHostService                 *)
(* (foldweave_host_service.py).  The model and the review card are         *)
(* sessions on the other side of a tool channel that may deliver a call    *)
(* late, twice, or not at all, and may lose its answer; several sessions   *)
(* may be open on one job.  Every call runs under the job's writer lock,   *)
(* so it is one step here; what can go wrong is the order in which calls   *)
(* arrive and how often.  Any call that some session could have formed     *)
(* from a record it was once shown may therefore arrive at any time.       *)
(***************************************************************************)
EXTENDS Integers, Sequences, FiniteSets, SequencesExt

CONSTANTS Keys,            \* idempotency keys the sessions choose
          Calls,           \* call identifiers of evidence calls and plans
          Texts,           \* revision instructions
          None,
          MaxEvidence,     \* MAX_EVIDENCE_CALLS
          MaxSubmissions,  \* MAX_HOST_PLAN_SUBMISSIONS
          MaxRevisions     \* revision attempts of one job

VARIABLES job,      \* the durable record
          changed,  \* the source differs from the job's inventory
          shown,    \* reviews the sessions were shown: revision and candidate
          log       \* history: the calls that took effect, in order

vars == <<job, changed, shown, log>>
-----------------------------------------------------------------------------
(* The record *)

Lives == {"planning", "awaiting", "reviewing", "revising", "failed",
          "executing", "blocked", "stale"}
Terminal == {"blocked", "stale"}
Verdicts == {"good", "bad"}   \* whether the compiler takes a plan or revision

\* One element of FolderHostPlanningStateV1.events: what it is, the response
\* turn it belongs to, the call or key that brought it and what it said.
Events == [kind : {"evidence", "question", "answer", "accepted", "rejected"},
           turn : Nat, id : Keys \cup Calls]

\* A reserved revision (pending_revision with its instruction).
Reviews == [rev : Nat, candidate : Nat]
Reservations == [id : Keys, at : Reviews, body : Texts]

\* A settled one: the retry binding and the turn record in the evidence ledger,
\* which names the submission that settled it.
Settled == [id : Keys, at : Reviews, body : Texts, call : Nat,
            outcome : {"replaced", "rejected"}]

Records == [life : Lives, rev : Nat,
         events : Seq(Events), turns : Nat,
         preview : Nat,          \* expected_job_revision of the preview, 0: none
         candidate : Nat,        \* proposal_revision of the candidate
         attempts : Nat,         \* revision_attempt_count
         pending : Reservations \cup {None},
         settled : Seq(Settled),
         mutations : SUBSET Keys,   \* keys of the clarification's bindings
         kept : SUBSET Keys]        \* keys of keep_previous_actions

\* What recover_hosted_revision answers: the submission's name and the
\* instruction of a turn that waits, or neither.
Turns == [call : Nat \cup {None}, body : Texts \cup {None}]

\* What is assumed of the constants; MCHostService, which instantiates this
\* module, has it evaluated.
HostedAssumption ==
    /\ {MaxEvidence, MaxSubmissions, MaxRevisions} \subseteq Nat
    /\ None \notin Keys \cup Calls \cup Texts
    /\ None \notin Reservations /\ None \notin Turns

NewJob == [life |-> "planning", rev |-> 0, events |-> <<>>, turns |-> 0,
           preview |-> 0, candidate |-> 0, attempts |-> 0, pending |-> None,
           settled |-> <<>>, mutations |-> {}, kept |-> {}]

\* The positions of the transcript's events of some kinds.
EventsOf(kinds) == {i \in DOMAIN job.events : job.events[i].kind \in kinds}
Evidence == EventsOf({"evidence"})
Submissions == EventsOf({"accepted", "rejected"})
IsSubmission(e) == e.kind \in {"accepted", "rejected"}

\* An event after a plan submission opens the next response turn.
\* Mutant: an event joins the last response turn, whatever closed it.
SameTurn(turns, events) == IF turns > 1 THEN turns ELSE 1
NextTurn(turns, events) ==
    IF events # <<>> /\ IsSubmission(Last(events)) THEN turns + 1
                                                  ELSE SameTurn(turns, events)

\* The record with one more event.
WithEvent(kind, turn, id) ==
    [job EXCEPT !.rev = @ + 1, !.turns = IF @ > turn THEN @ ELSE turn,
                !.events = Append(@, [kind |-> kind, turn |-> turn, id |-> id])]
-----------------------------------------------------------------------------
(* Calls *)

Request(op, id, at, body) == [op |-> op, id |-> id, at |-> at, body |-> body]

\* The review on display, if there is one.
Review(j) == [rev |-> j.preview, candidate |-> j.candidate]

\* Revisions reserved so far, as their sessions know them.
Reserved == {r \in Range(log) : r.op = "revise"}

\* writer.rehydrate(): inputs that changed make the record stale before the call
\* is looked at.  A record with a pending revision cannot be stale: the validator
\* refuses it, the call fails and nothing is written.
Readable == changed => job.life \in Terminal
GoStale == IF job.life = "revising" THEN job
                                    ELSE [job EXCEPT !.life = "stale", !.rev = @ + 1]

\* A call that finds the inputs changed leaves the record stale; the others are
\* decided by `outcome`, the record itself when the call is refused or repeated.
Handle(r, outcome) ==
    /\ job' = IF Readable THEN outcome ELSE GoStale
    /\ log' = IF Readable /\ outcome # job THEN Append(log, r) ELSE log
    /\ shown' = IF job'.life \in {"reviewing", "failed"}
                  THEN shown \cup {Review(job')} ELSE shown
    /\ UNCHANGED changed

\* _execute_evidence.  A call identifier seen before is answered with what it
\* found then, or refused if it asks for something else.
Fresh(id, positions) == \A i \in positions : job.events[i].id # id
EvidenceCall(id) ==
    Handle(Request("evidence", id, None, None),
           IF /\ Fresh(id, Evidence)
              /\ job.life = "planning"
              /\ Cardinality(Evidence) < MaxEvidence
             THEN WithEvent("evidence", NextTurn(job.turns, job.events), id)
             ELSE job)

\* request_clarification: one question for the life of the job.  A key that was
\* used is bound for good, to one exact request.
RequestClarification(id, at) ==
    Handle(Request("ask", id, None, None),
           IF /\ id \notin job.mutations
              /\ at = job.rev
              /\ EventsOf({"question"}) = {}
              /\ job.life = "planning"
             THEN [WithEvent("question", NextTurn(job.turns, job.events), id)
                     EXCEPT !.life = "awaiting", !.mutations = @ \cup {id}]
             ELSE job)

\* answer_clarification: the user's sole answer opens a response turn.
AnswerTurn(turns) == turns + 1
AnswerClarification(id, at) ==
    Handle(Request("answer", id, None, None),
           IF /\ id \notin job.mutations
              /\ at = job.rev
              /\ EventsOf({"answer"}) = {}
              /\ job.life = "awaiting"
             THEN [WithEvent("answer", AnswerTurn(job.turns), id)
                     EXCEPT !.life = "planning", !.mutations = @ \cup {id}]
             ELSE job)

\* submit_plan: a plan the compiler refuses is counted, and the last refusal ends
\* the job; an accepted one becomes the first reviewable proposal.
Rejected(id) ==
    [WithEvent("rejected", NextTurn(job.turns, job.events), id)
       EXCEPT !.life = IF Cardinality(Submissions) + 1 = MaxSubmissions THEN "blocked" ELSE @]
Accepted(id) ==
    [WithEvent("accepted", NextTurn(job.turns, job.events), id)
       EXCEPT !.life = "reviewing", !.preview = job.rev + 1]
SubmitPlan(id, verdict) ==
    Handle(Request("plan", id, None, verdict),
           IF ~(/\ Fresh(id, Submissions)
                /\ job.life = "planning"
                /\ Cardinality(Submissions) < MaxSubmissions) THEN job
           ELSE IF verdict = "good" THEN Accepted(id) ELSE Rejected(id))

\* A call names the review it was formed from: revision, preview and candidate.
Exact(at) == at = Review(job) /\ at.rev = job.rev

\* begin_revision: reserve a turn before the card tells the model.  A repeated
\* call is looked for before the inputs.
\* Mutant: only the pending turn's key is compared.
BoundToPending(id) == job.pending # None /\ job.pending.id = id
Bound(id) == BoundToPending(id) \/ \E i \in DOMAIN job.settled : job.settled[i].id = id
BeginRevision(id, at, body) ==
    /\ ~Bound(id)
    /\ Handle(Request("revise", id, at, body),
              IF /\ job.life \in {"reviewing", "failed"}
                 /\ job.attempts < MaxRevisions
                 /\ Exact(at)
                THEN [job EXCEPT !.life = "revising", !.rev = @ + 1, !.attempts = @ + 1,
                                 !.pending = [id |-> id, at |-> at, body |-> body]]
                ELSE job)

\* submit_plan_revision for the reservation a session made from review `at`,
\* under the call identifier the card derives from the record it reserved.
CallId(at) == at.rev + 1
Recorded(at) == \E i \in DOMAIN job.settled : job.settled[i].call = CallId(at)
Settle(at, outcome) ==
    Append(job.settled, [id |-> job.pending.id, at |-> job.pending.at,
                         body |-> job.pending.body, call |-> CallId(at),
                         outcome |-> outcome])
\* A refused revision keeps the candidate, under a preview of the new revision.
SubmitRevision(at, verdict) ==
    LET compiled == verdict = "good" /\ at.candidate = job.candidate
        settled(outcome) == [job EXCEPT !.rev = @ + 1, !.preview = job.rev + 1,
                                        !.pending = None,
                                        !.settled = Settle(at, outcome)]
    IN /\ ~Recorded(at)
       /\ Handle(Request("submit", CallId(at), at, verdict),
                 IF job.life # "revising" THEN job
                 ELSE IF compiled
                   THEN [settled("replaced") EXCEPT !.life = "reviewing",
                                                    !.candidate = @ + 1]
                   ELSE [settled("rejected") EXCEPT !.life = "failed"])

\* keep_previous_proposal: a failed revision is dismissed.
KeepPrevious(id, at) ==
    Handle(Request("keep", id, at, None),
           IF id \notin job.kept /\ job.life = "failed" /\ Exact(at)
             THEN [job EXCEPT !.life = "reviewing", !.rev = @ + 1,
                              !.preview = job.rev + 1, !.kept = @ \cup {id}]
             ELSE job)

\* accept_plan_and_create_copy, up to the authorization; ReviewJob has the rest.
Accept(at) ==
    Handle(Request("accept", None, at, None),
           IF job.life = "reviewing" /\ Exact(at)
             THEN [job EXCEPT !.life = "executing", !.rev = @ + 1]
             ELSE job)

\* The user edits the source folder, or puts it back (external).
ChangeInputs ==
    /\ changed' = ~changed
    /\ UNCHANGED <<job, shown, log>>

\* recover_hosted_revision, asked by a card that only knows the review it shows:
\* the turn reserved from exactly that review, or how that turn ended.
\* Mutant: the reservation is matched by its candidate alone.
FromCandidate(at) == job.pending # None
FromReview(at) == job.pending # None /\ job.pending.at = at
Recovered(at) ==
    CASE job.life = "revising" /\ FromReview(at) ->
           [call |-> job.rev, body |-> job.pending.body]
      [] /\ job.life \in {"reviewing", "failed", "executing"}
         /\ \E i \in DOMAIN job.settled : job.settled[i].at = at ->
           [call |-> None, body |-> None]
      [] OTHER -> None
-----------------------------------------------------------------------------
Init == job = NewJob /\ changed = FALSE /\ shown = {} /\ log = <<>>

Next ==
    \/ \E id \in Calls : EvidenceCall(id)
    \/ \E id \in Calls, verdict \in Verdicts : SubmitPlan(id, verdict)
    \/ \E id \in Keys, at \in {job.rev, job.rev - 1} :
         RequestClarification(id, at) \/ AnswerClarification(id, at)
    \/ \E id \in Keys, at \in shown, body \in Texts : BeginRevision(id, at, body)
    \/ \E r \in Reserved, verdict \in Verdicts : SubmitRevision(r.at, verdict)
    \/ \E id \in Keys, at \in shown : KeepPrevious(id, at)
    \/ \E at \in shown : Accept(at)
    \/ ChangeInputs

Spec == Init /\ [][Next]_vars
-----------------------------------------------------------------------------
(* Properties *)

\* The record has its fields' values, and the reserved turn and its revision
\* count agree with the lifecycle.
TypeOK ==
    /\ job \in Records
    /\ changed \in BOOLEAN /\ shown \subseteq Reviews
    /\ (job.life = "revising") <=> (job.pending # None)
    /\ job.attempts = Len(job.settled) + (IF job.pending = None THEN 0 ELSE 1)
    /\ job.attempts <= MaxRevisions /\ Cardinality(Submissions) <= MaxSubmissions
    /\ Cardinality(Evidence) <= MaxEvidence

\* Calls of one kind under one identifier take effect once at most, however often
\* and however late they are delivered, and whatever else happened between: a
\* retry after a lost answer never asks, submits, reserves or dismisses again.
EffectOnce ==
    \A i, j \in DOMAIN log :
      i # j => log[i].op # log[j].op \/ log[i].id # log[j].id

\* The transcript a sequence of admitted calls leaves is one the record's own
\* validator reads: turns start at one and are contiguous, only a plan or an
\* answer to a question opens a turn, and the count is the last one.  Otherwise
\* the next call would be refused for good.
OpensTurn(before, after) ==
    \/ IsSubmission(before)
    \/ before.kind = "question" /\ after.kind = "answer"
Contiguous ==
    LET events == job.events
    IN /\ events # <<>> => events[1].turn = 1
       /\ job.turns = (IF events = <<>> THEN 0 ELSE events[Len(events)].turn)
       /\ \A i \in 1..(Len(events) - 1) :
            LET before == events[i]
                after == events[i + 1]
            IN IF after.turn = before.turn + 1 THEN OpensTurn(before, after)
               ELSE after.turn = before.turn /\ ~IsSubmission(before)

\* ... with every field of the record in its type and limits.
TranscriptIsReadable == TypeOK /\ Contiguous

\* Each settled turn was settled by the submission written for its reservation,
\* and a turn that waits was reserved from the candidate that is still there.
AnswersItsReservation ==
    /\ \A i \in DOMAIN job.settled :
         job.settled[i].call = CallId(job.settled[i].at)
    /\ job.pending # None => job.pending.at = Review(job)

\* A card that lost the answer to its request finds the turn again from the
\* review it still shows, with the name of its submission and its own exact
\* instruction; a card that shows another review never gets hold of that turn.
FoundAgain ==
    job.life \in {"reviewing", "revising", "failed", "executing"} =>
      \A at \in shown :
        LET mine == {r \in Reserved : r.at = at}
            open == {r \in mine : ~Recorded(at)}
            found == Recovered(at)
        IN IF job.life = "revising"
             THEN /\ (found # None) <=> (open # {})
                  /\ found # None => /\ found.call = CallId(at)
                                     /\ \E r \in open : r.body = found.body
             ELSE (found # None) <=> (mine # {})

\* A revision turn belongs to one review from its reservation to its answer,
\* whichever session asks, submits or comes back for it (begin_revision,
\* submit_plan_revision, recover_hosted_revision).
TurnKeepsItsReview == AnswersItsReservation /\ FoundAgain
==============================================================================
