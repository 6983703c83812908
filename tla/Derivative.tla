------------------------------ MODULE Derivative ------------------------------
(***************************************************************************)
(* The proposals derived from a receiver's review                          *)
(* (connected_change/review_service.py, derivative.py).  A user who wants  *)
(* another change than the imported one gets a child job with one reserved *)
(* turn of a model: a provider that the surface asks, or a hosted model    *)
(* that looks at evidence and then submits.  While a first turn is under   *)
(* way the child's record is not locked, only its provider-call lock is    *)
(* held; one follow-up turn is reserved in the record like any revision.   *)
(* The creation of children among other jobs is in JobsDirectory.          *)
(***************************************************************************)
EXTENDS Naturals

CONSTANTS Agents,        \* threads and processes of surfaces and services
          Requests,      \* requests for a change, each with its key, text and transport
          HostRequests,  \* those that a hosted model is to answer
          CallIds,       \* identifiers of a hosted model's submissions
          MaxFound,      \* evidence calls of one turn
          MaxLeases,     \* renewals of a child's public lease
          Nobody

VARIABLES parentOpen,  \* whether the receiver's job is still in review
          altered,     \* whether its source or Change File differ from the bound ones
          child,       \* the child made for each request
          holder,      \* who holds the provider-call lock of each child
          work,        \* what each agent is doing
          asked        \* how often each turn of a child was put to a provider

derivative == <<parentOpen, altered, child, holder, work, asked>>
-----------------------------------------------------------------------------
(* The child's record *)

ChildLives == {"revising", "reviewing", "revision_failed", "executing", "stale"}

\* state is the authority's; pending the reserved follow-up; ended the turns in
\* the evidence ledger; plan the candidate; found the evidence on record and
\* cites the evidence that the first proposal was compiled against; first and
\* second the submissions that ended a hosted turn.
Children == [state : {"awaiting", "completed", "failed"}, life : ChildLives, rev : Nat,
             attempts : Nat, ended : Nat, pending : BOOLEAN, failure : BOOLEAN,
             plan : {"none", "parent", "first", "second"},
             found : Nat, cites : Nat, lease : Nat,
             first : CallIds \cup {Nobody}, second : CallIds \cup {Nobody}]

NewChild == [state |-> "awaiting", life |-> "revising", rev |-> 0, attempts |-> 1,
             ended |-> 0, pending |-> FALSE, failure |-> FALSE, plan |-> "none",
             found |-> 0, cites |-> 0, lease |-> 0, first |-> Nobody, second |-> Nobody]

ASSUME DerivativeAssumption ==
    /\ HostRequests \subseteq Requests
    /\ MaxFound \in Nat /\ MaxLeases \in Nat
    /\ Nobody \notin Agents \cup Requests \cup CallIds \cup Children

\* What the validator asks of a derivative in each state of its authority.
AwaitsItsTurn(r) ==
    /\ r.life \in {"revising", "stale"}
    /\ r.plan = "none" /\ r.attempts = 1 /\ r.ended = 0 /\ ~r.pending
KeepsItsParent(r) ==
    /\ r.life \in {"revision_failed", "reviewing"}
    /\ r.plan = "parent" /\ r.attempts = 1 /\ r.ended = 0 /\ ~r.pending
\* A follow-up waits exactly in a turn under way: it was reserved by the revision
\* before the record's.
FollowupAuthority(r) == r.pending <=> r.life = "revising"
HasItsLedger(r) ==
    /\ r.plan \in {"first", "second"}
    /\ r.ended + (IF r.pending THEN 1 ELSE 0) = r.attempts
    /\ FollowupAuthority(r)

Admissible(r) ==
    /\ r.state = "awaiting" => AwaitsItsTurn(r)
    /\ r.state = "failed" => KeepsItsParent(r)
    /\ r.state = "completed" => HasItsLedger(r)
    /\ r.failure <=> r.life = "revision_failed"

\* _require_fresh_derivative_child: the source, the Change File and the match
\* are proved again to be those the child is bound to.
Unaltered == ~altered

Moved(r, life) == [r EXCEPT !.life = life, !.rev = @ + 1]

\* A reload sets a record stale whose inputs changed, or raises when the stale
\* record is not one the validator admits.
Reloaded(r) ==
    IF altered /\ r.life # "stale" /\ Admissible(Moved(r, "stale"))
    THEN Moved(r, "stale") ELSE r

\* What a handler leaves that builds s from the record r and saves it: building
\* or saving may raise, and a save that finds changed inputs reloads.
SavedOver(r, s) ==
    IF ~Admissible(s) THEN r ELSE IF altered THEN Reloaded(r) ELSE s

Put(k, s) == child' = [child EXCEPT ![k] = s]

\* _persist_derivative_success: the first complete proposal, compiled against
\* the evidence found so far.
Completed(r, evidence, call) ==
    [Moved(r, "reviewing") EXCEPT !.state = "completed", !.plan = "first", !.ended = 1,
                                  !.cites = evidence, !.first = call]

\* _persist_derivative_failure: the parent's proposal stays on display.
Failed(r, call) ==
    [Moved(r, "revision_failed") EXCEPT !.state = "failed", !.plan = "parent",
                                        !.failure = TRUE, !.first = call]

\* The follow-up: reserved, answered by a plan, rejected by the compiler, or
\* without an answer (which no turn of the ledger records).
FollowupReserved(r) ==
    [Moved(r, "revising") EXCEPT !.pending = TRUE, !.attempts = @ + 1, !.failure = FALSE]
FollowupAccepted(r, call) ==
    [Moved(r, "reviewing") EXCEPT !.pending = FALSE, !.ended = @ + 1, !.plan = "second",
                                  !.second = call]
FollowupRejected(r, call) ==
    [Moved(r, "revision_failed") EXCEPT !.pending = FALSE, !.ended = @ + 1,
                                        !.failure = TRUE, !.second = call]
FollowupUnanswered(r) ==
    [Moved(r, "revision_failed") EXCEPT !.pending = FALSE, !.failure = TRUE]
-----------------------------------------------------------------------------
(* Agents *)

Works == [step : {"idle", "created", "asking", "submitting", "following"},
          request : Requests \cup {Nobody}, record : Children \cup {Nobody},
          call : CallIds \cup {Nobody}]
Idle == [step |-> "idle", request |-> Nobody, record |-> Nobody, call |-> Nobody]

Doing(a, step) == work[a].step = step
Child(k) == child[k]
AboutTo(a) == work[a].request
Turn(k) == Child(k) # Nobody /\ Child(k).state = "awaiting" /\ Child(k).life = "revising"
Starts(a, step, k, r, call) ==
    work' = [work EXCEPT ![a] = [step |-> step, request |-> k, record |-> r, call |-> call]]
Stops(a) == work' = [work EXCEPT ![a] = Idle]

\* A turn's input goes to the provider: what the turn may depend on is fixed then.
Asks(k, turn) == asked' = [asked EXCEPT ![k][turn] = @ + 1]

\* The provider-call lock is waited for, and lost with its process.
Holds(a, k) == holder[k] = Nobody /\ holder' = [holder EXCEPT ![k] = a]
Lets(a) == holder' = [k \in Requests |-> IF holder[k] = a THEN Nobody ELSE holder[k]]

\* An agent dies, gives up on a busy lock, or its call raises.
Quit(a) ==
    /\ ~Doing(a, "idle")
    /\ Stops(a) /\ Lets(a)
    /\ UNCHANGED <<parentOpen, altered, child, asked>>

\* _block_if_current reloads first.  (Inputs that are back by then leave a record
\* to block, which the validator refuses of a child without a proposal: the call
\* raises and changes nothing.)
BlocksIfCurrent(k) == altered /\ Put(k, Reloaded(Child(k)))
-----------------------------------------------------------------------------
(* Creation *)

\* The review that the request was made on is still the parent's.
ParentShown == parentOpen

\* A child is bound to its parent's review, and to inputs that are still the bound ones.
BindsParent == ParentShown /\ Unaltered

\* Mutation: a request repeated while its turn waits asks for it like the first.
DerivesAgain(a, k) ==
    /\ Doing(a, "idle") /\ k \notin HostRequests
    /\ IF Child(k) = Nobody
       THEN BindsParent /\ Put(k, NewChild)
       ELSE Turn(k) /\ UNCHANGED child
    /\ Starts(a, "created", k, Nobody, Nobody)
    /\ UNCHANGED <<parentOpen, altered, holder, asked>>

\* revise_review: only the surface that made the child goes on to ask for its turn.
DeriveDirect(a, k) ==
    /\ Doing(a, "idle") /\ k \notin HostRequests
    /\ Child(k) = Nobody /\ BindsParent
    /\ Put(k, NewChild)
    /\ Starts(a, "created", k, Nobody, Nobody)
    /\ UNCHANGED <<parentOpen, altered, holder, asked>>

\* begin_revision: the hosted model is told that it may look and submit.
DeriveHosted(k) ==
    /\ k \in HostRequests
    /\ Child(k) = Nobody /\ BindsParent
    /\ Put(k, NewChild)
    /\ UNCHANGED <<parentOpen, altered, holder, work, asked>>

\* The parent is accepted, or otherwise leaves its review.
ParentLeaves ==
    /\ parentOpen /\ parentOpen' = FALSE
    /\ UNCHANGED <<altered, child, holder, work, asked>>

\* Somebody edits the source or the Change File, or undoes it.
Alter ==
    /\ altered' = ~altered
    /\ UNCHANGED <<parentOpen, child, holder, work, asked>>
-----------------------------------------------------------------------------
(* The first turn of a provider: submit_direct_derivative_revision *)

\* What the compiler says of a model's first answer, set against the parent's plan.
Compilations == {"compiled", "refused"}

AskFirst(a) ==
    LET k == AboutTo(a) IN
    /\ Doing(a, "created") /\ Turn(k) /\ Unaltered
    /\ Holds(a, k)
    /\ Asks(k, "first")
    /\ Starts(a, "asking", k, Child(k), Nobody)
    /\ UNCHANGED <<parentOpen, altered, child>>

\* The inputs are no longer those of the child.
RefuseFirst(a) ==
    LET k == AboutTo(a) IN
    /\ Doing(a, "created") /\ Turn(k) /\ holder[k] = Nobody
    /\ BlocksIfCurrent(k)
    /\ Stops(a)
    /\ UNCHANGED <<parentOpen, altered, holder, asked>>

\* A turn that somebody closed in between is returned as it is.
FindClosed(a) ==
    /\ Doing(a, "created") /\ ~Turn(AboutTo(a)) /\ holder[AboutTo(a)] = Nobody
    /\ Stops(a)
    /\ UNCHANGED <<parentOpen, altered, child, holder, asked>>

\* The provider answered, or failed; an answer the compiler refuses is a failure.
\* It is filed only with the record it was asked for.
AnswerFirst(a, says) ==
    LET k == AboutTo(a)
        r == Child(k)
    IN
    /\ Doing(a, "asking")
    /\ Put(k, IF r # work[a].record THEN r
              ELSE SavedOver(r, IF says = "compiled" THEN Completed(r, r.found, Nobody)
                                ELSE Failed(r, Nobody)))
    /\ Stops(a) /\ Lets(a)
    /\ UNCHANGED <<parentOpen, altered, asked>>

\* recover_interrupted_direct_derivative: any surface that meets a turn without
\* an answer closes it without asking again, whoever was to answer.
RecoverFirst(k) ==
    /\ Turn(k) /\ holder[k] = Nobody
    /\ \/ Unaltered /\ Put(k, Failed(Child(k), Nobody))
       \/ BlocksIfCurrent(k)
    /\ UNCHANGED <<parentOpen, altered, holder, work, asked>>
-----------------------------------------------------------------------------
(* The first turn of a hosted model *)

\* _execute_evidence, for a call that is new.
FindEvidence(k) ==
    /\ k \in HostRequests /\ Turn(k) /\ Unaltered
    /\ Child(k).found < MaxFound
    /\ Put(k, [Moved(Child(k), "revising") EXCEPT !.found = @ + 1])
    /\ UNCHANGED <<parentOpen, altered, holder, work, asked>>

\* A renewal moves the lease on and leaves everything else, the revision too.
Renewed(r) == [r EXCEPT !.lease = @ + 1]

\* _renew_public_job_capability
RenewLease(k) ==
    /\ k \in HostRequests /\ Child(k) # Nobody
    /\ Child(k).lease < MaxLeases
    /\ Put(k, Renewed(Child(k)))
    /\ UNCHANGED <<parentOpen, altered, holder, work, asked>>

\* submit_host_derivative_revision: the submission is compiled against the
\* record as it was read, under the call lock alone.
BeginSubmission(a, k, call) ==
    /\ Doing(a, "idle") /\ k \in HostRequests /\ Turn(k) /\ Unaltered
    /\ Holds(a, k)
    /\ Starts(a, "submitting", k, Child(k), call)
    /\ UNCHANGED <<parentOpen, altered, child, asked>>

RefuseSubmission(a, k) ==
    /\ Doing(a, "idle") /\ k \in HostRequests /\ Turn(k) /\ holder[k] = Nobody
    /\ BlocksIfCurrent(k)
    /\ UNCHANGED <<parentOpen, altered, holder, work, asked>>

\* Mutation: the record that a submission was compiled against is not compared
\* with the one it is filed with.
EndsAnySubmission(a, says) ==
    LET k == AboutTo(a)
        r == Child(k)
        seen == work[a].record
    IN
    /\ Doing(a, "submitting")
    /\ Put(k, IF ~Turn(k) \/ (says = "compiled" /\ altered) THEN r
              ELSE SavedOver(r, IF says = "compiled"
                                THEN Completed(r, seen.found, work[a].call)
                                ELSE Failed(r, work[a].call)))
    /\ Stops(a) /\ Lets(a)
    /\ UNCHANGED <<parentOpen, altered, asked>>

\* A record that was written meanwhile keeps its turn, and the submission is
\* dropped.  A usable one whose inputs changed raises, an unusable one is saved
\* and so sets the record stale.
EndSubmission(a, says) ==
    LET k == AboutTo(a)
        r == Child(k)
        seen == work[a].record
    IN
    /\ Doing(a, "submitting")
    /\ Put(k, IF r # seen \/ (says = "compiled" /\ altered) THEN r
              ELSE SavedOver(r, IF says = "compiled"
                                THEN Completed(r, seen.found, work[a].call)
                                ELSE Failed(r, work[a].call)))
    /\ Stops(a) /\ Lets(a)
    /\ UNCHANGED <<parentOpen, altered, asked>>
-----------------------------------------------------------------------------
(* The follow-up turn *)

CanFollow(r) ==
    /\ r.state = "completed" /\ r.life \in {"reviewing", "revision_failed"}
    /\ r.attempts < 2

\* _revise_direct_derivative_followup: reserved under the writer lock, asked for
\* without any.
ReserveFollowup(a, k) ==
    /\ Doing(a, "idle") /\ k \notin HostRequests /\ Unaltered
    /\ Child(k) # Nobody /\ CanFollow(Child(k))
    /\ Put(k, FollowupReserved(Child(k)))
    /\ Asks(k, "second")
    /\ Starts(a, "following", k, FollowupReserved(Child(k)), Nobody)
    /\ UNCHANGED <<parentOpen, altered, holder>>

\* The answer made s of the record; it is saved over the record it was reserved in.
AnswerFollowup(a, s) ==
    LET k == AboutTo(a)
        r == Child(k)
    IN
    /\ Doing(a, "following")
    /\ Put(k, IF r # work[a].record THEN Reloaded(r) ELSE SavedOver(r, s))
    /\ Stops(a)
    /\ UNCHANGED <<parentOpen, altered, holder, asked>>

AnswersFollowup(a) ==
    LET r == Child(AboutTo(a)) IN
    \/ AnswerFollowup(a, FollowupAccepted(r, Nobody))
    \/ AnswerFollowup(a, FollowupRejected(r, Nobody))
    \/ AnswerFollowup(a, FollowupUnanswered(r))

\* A call that ended the first turn is a retry of it, and nothing else.
SubmittedFirst(r, call) == r.first = call

\* _begin_host_derivative_followup and _submit_host_derivative_followup, each
\* under the writer lock.
BeginHostFollowup(k) ==
    /\ k \in HostRequests /\ Unaltered
    /\ Child(k) # Nobody /\ CanFollow(Child(k))
    /\ Put(k, FollowupReserved(Child(k)))
    /\ UNCHANGED <<parentOpen, altered, holder, work, asked>>

SubmitHostFollowup(k, call, usable) ==
    /\ k \in HostRequests /\ Unaltered
    /\ Child(k) # Nobody /\ Child(k).pending /\ ~SubmittedFirst(Child(k), call)
    /\ Put(k, IF usable THEN FollowupAccepted(Child(k), call)
              ELSE FollowupRejected(Child(k), call))
    /\ UNCHANGED <<parentOpen, altered, holder, work, asked>>
-----------------------------------------------------------------------------
(* What any surface may do with a child *)

\* keep_previous_proposal: a failed turn is dismissed; of a failed child the
\* parent's review is what the user gets back.
KeepPreviousOf(k) ==
    /\ Child(k) # Nobody /\ Unaltered
    /\ Child(k).life = "revision_failed"
    /\ Put(k, [Moved(Child(k), "reviewing") EXCEPT !.failure = FALSE])
    /\ UNCHANGED <<parentOpen, altered, holder, work, asked>>

\* _prepare_derivative_execution: only a complete proposal is executed.
Executable(r) == r.life = "reviewing" /\ r.state = "completed"

\* _prepare_derivative_execution, on acceptance.
AcceptChild(k) ==
    /\ Child(k) # Nobody /\ Unaltered
    /\ Executable(Child(k))
    /\ Put(k, Moved(Child(k), "executing"))
    /\ UNCHANGED <<parentOpen, altered, holder, work, asked>>

\* A start of the application: reload, then close a follow-up without an answer.
Reopen(k) ==
    LET r == Reloaded(Child(k)) IN
    /\ Child(k) # Nobody
    /\ Put(k, IF r.pending /\ k \notin HostRequests
              THEN SavedOver(r, FollowupUnanswered(r)) ELSE r)
    /\ UNCHANGED <<parentOpen, altered, holder, work, asked>>
-----------------------------------------------------------------------------
DerivativeInit ==
    /\ parentOpen = TRUE /\ altered = FALSE
    /\ child = [k \in Requests |-> Nobody]
    /\ holder = [k \in Requests |-> Nobody]
    /\ work = [a \in Agents |-> Idle]
    /\ asked = [k \in Requests |-> [first |-> 0, second |-> 0]]

DerivativeNext ==
    \/ ParentLeaves \/ Alter
    \/ \E a \in Agents :
         \/ Quit(a) \/ AskFirst(a) \/ RefuseFirst(a) \/ FindClosed(a) \/ AnswersFollowup(a)
         \/ \E says \in Compilations : AnswerFirst(a, says) \/ EndSubmission(a, says)
         \/ \E k \in Requests :
              DeriveDirect(a, k) \/ ReserveFollowup(a, k) \/ RefuseSubmission(a, k)
         \/ \E k \in Requests, call \in CallIds : BeginSubmission(a, k, call)
    \/ \E k \in Requests :
         \/ DeriveHosted(k) \/ RecoverFirst(k) \/ FindEvidence(k) \/ RenewLease(k)
         \/ BeginHostFollowup(k) \/ KeepPreviousOf(k) \/ AcceptChild(k) \/ Reopen(k)
         \/ \E call \in CallIds, usable \in BOOLEAN : SubmitHostFollowup(k, call, usable)

DerivativeSpec == DerivativeInit /\ [][DerivativeNext]_derivative
-----------------------------------------------------------------------------
DerivativeTypes ==
    /\ parentOpen \in BOOLEAN /\ altered \in BOOLEAN
    /\ child \in [Requests -> Children \cup {Nobody}]
    /\ holder \in [Requests -> Agents \cup {Nobody}]
    /\ work \in [Agents -> Works]
    /\ asked \in [Requests -> [first : Nat, second : Nat]]

\* No turn of a child is put to a provider twice, whichever agents create,
\* retry, interrupt, recover or reopen it: the reserved turn is asked for by the
\* surface that made the child alone, the follow-up by the call that reserved it.
NoTurnAskedTwice ==
    /\ DerivativeTypes
    /\ \A k \in Requests : asked[k].first <= 1 /\ asked[k].second <= 1

\* What comes back is filed with the record it was made for: while a provider is
\* asked nobody writes the child but to set it stale, a hosted proposal cites the
\* very evidence on record, and no submission ends two turns.
AnswersAreKept ==
    /\ \A a \in Agents : Doing(a, "asking") =>
         /\ holder[AboutTo(a)] = a
         /\ \/ Child(AboutTo(a)) = work[a].record
            \/ Child(AboutTo(a)).life = "stale"
    /\ \A k \in Requests : Child(k) # Nobody =>
         /\ Child(k).state = "completed" => Child(k).cites = Child(k).found
         /\ Child(k).second # Nobody => Child(k).second # Child(k).first
==============================================================================
