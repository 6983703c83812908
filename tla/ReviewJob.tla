-------------------------------- MODULE ReviewJob --------------------------------
(***************************************************************************)
(* One review-era job from its first proposal to its verified copy.        *)
(*                                                                         *)
(* Callers are the threads and processes that serve one job file: the      *)
(* browser or native app, the MCP servers, the CLI.  Each runs one handler *)
(* of FoldweaveReviewService at a time.  A handler is atomic while it      *)
(* holds the job's writer lock, except where the directories it writes are *)
(* visible to others; it does not hold the lock while it waits for the     *)
(* planning provider.  A crash drops what a caller held in memory and its  *)
(* lock, and nothing on disk.                                              *)
(*                                                                         *)
(* A handler that refuses its request after reloading the job does what    *)
(* Load does and is not repeated under its own name.                       *)
(***************************************************************************)
EXTENDS JobV3, FiniteSets

CONSTANTS
    Callers,
    Authorities,    \* the kinds of job that may be created
    MaxCrashes,     \* bounds on the environment's steps
    MaxFailures,
    MaxChanges

ASSUME CallersAssumption == Callers # {} /\ None \notin Callers
ASSUME AuthoritiesAssumption ==
    Authorities # {} /\ Authorities \subseteq {"planned", "receiver"}
ASSUME BoundsAssumption == MaxCrashes \in Nat /\ MaxFailures \in Nat /\ MaxChanges \in Nat

VARIABLES
    job,            \* the durable record
    lock,           \* the caller that holds the writer lock, or None
    pc,             \* where each caller is in its handler
    seen,           \* the record a caller compares the current one with later
    req,            \* the revision request a caller is about to reserve
    pending,        \* the job's hidden pending tree
    final,          \* what is at the final result path
    source,         \* the source folder still is the one the job was made for
    changeFile,     \* so does the imported Change File
    calls,          \* how often the provider was called, by idempotency key
    crashes, failures, changes

disk == <<pending, final>>
inputs == <<source, changeFile>>
bounds == <<crashes, failures, changes>>
vars == <<job, lock, pc, seen, req, disk, inputs, calls, bounds>>

\* Where a caller holds the lock, and where it also runs the copy transaction.
Executing == {"starting", "copying", "finalized", "promoting", "checking", "failing"}
Locked == Executing \cup {"reserving"}
Step == Locked \cup {"idle", "preparing", "exchanging", "recovering"}

NoTree == [state |-> "absent", plan |-> 0]
NoResult == [owner |-> "nobody", plan |-> 0]

TypeOK ==
    /\ job \in Job
    /\ lock \in Callers \cup {None}
    /\ pc \in [Callers -> Step]
    /\ seen \in [Callers -> Job \cup {None}]
    /\ req \in [Callers -> Instruction \cup {None}]
    /\ pending \in [state: {"absent", "partial", "complete"}, plan: Plan]
    /\ final \in [owner: {"nobody", "stranger", "job"}, plan: Plan]
    /\ source \in BOOLEAN
    /\ changeFile \in BOOLEAN
    /\ calls \in [Keys -> Nat]
    /\ crashes \in 0 .. MaxCrashes
    /\ failures \in 0 .. MaxFailures
    /\ changes \in 0 .. MaxChanges

Init ==
    /\ job = NewJob("planned", "absent")
    /\ lock = None
    /\ pc = [c \in Callers |-> "idle"]
    /\ seen = [c \in Callers |-> None]
    /\ req = [c \in Callers |-> None]
    /\ pending = NoTree
    /\ final = NoResult
    /\ source = TRUE
    /\ changeFile = TRUE
    /\ calls = [k \in Keys |-> 0]
    /\ crashes = 0
    /\ failures = 0
    /\ changes = 0
----------------------------------------------------------------------------
Changed == ~source \/ (job.authority = "receiver" /\ ~changeFile)
Promoted == final.owner # "nobody"

Loads == Rehydrates(job, Changed, Promoted)
Reload == Rehydrated(job, Changed, Promoted)
Fresh == StillCurrent(job, Changed, Promoted)

\* A save that raises leaves the record alone.
Save(s) ==
    job' = IF Saves(job, s, Changed, Promoted)
           THEN Saved(job, s, Changed, Promoted)
           ELSE job

Free(c) == pc[c] = "idle" /\ lock = None
At(c, step) == pc[c] = step
Goto(c, step) == pc' = [pc EXCEPT ![c] = step]

Return(c) ==
    /\ Goto(c, "idle")
    /\ seen' = [seen EXCEPT ![c] = None]
    /\ req' = [req EXCEPT ![c] = None]

\* Something the model does not look into goes wrong: a full disk, a failed check.
Fault ==
    /\ failures < MaxFailures
    /\ failures' = failures + 1
    /\ UNCHANGED <<crashes, changes>>

\* Previews are superseded only by requests that name them, so every preview a
\* surface has ever shown is still in the record.
Shown ==
    LET b == job.revision_mutation_bindings
        k == job.keep_previous_actions
    IN  { b[i].request.base : i \in DOMAIN b } \cup { k[i].base : i \in DOMAIN k }
            \cup ({ job.preview } \ { None })

\* The request names the current revision and the preview that belongs to it.
ExactReviewRequest(rev, preview) ==
    /\ job.preview # None
    /\ rev = job.revision
    /\ preview = job.preview
----------------------------------------------------------------------------
(***************************************************************************)
(* Making the first proposal.                                              *)
(***************************************************************************)
PrepareStart(c) ==
    /\ Free(c)
    /\ \/ /\ job.lifecycle = "absent"
          /\ \E a \in Authorities :
                job' = NewJob(a, IF a = "planned" THEN "planning" ELSE "matching")
       \/ job.lifecycle \in PreReview /\ UNCHANGED job
    /\ Goto(c, "preparing")
    /\ seen' = [seen EXCEPT ![c] = job']
    /\ UNCHANGED <<lock, req, disk, inputs, calls, bounds>>

FirstReview(j) ==
    [Evolved(j, "reviewing") EXCEPT
        !.candidate_plan = 0,
        !.preview = [plan |-> 0, proposal |-> 0, rev |-> j.revision + 1]]

PrepareFinish(c) ==
    /\ At(c, "preparing") /\ lock = None /\ Loads
    /\ IF Fresh /\ job.lifecycle \in PreReview
       THEN Save(FirstReview(job))
       ELSE job' = Reload
    /\ Return(c)
    /\ UNCHANGED <<lock, disk, inputs, calls, bounds>>

PrepareFail(c) ==
    /\ At(c, "preparing") /\ lock = None /\ Loads
    /\ IF Fresh /\ job = seen[c]
       THEN Save(Evolved(job, "blocked"))
       ELSE job' = Reload
    /\ Fault
    /\ Return(c)
    /\ UNCHANGED <<lock, disk, inputs, calls>>
----------------------------------------------------------------------------
(***************************************************************************)
(* Revising.  The turn is reserved under the lock; the provider is called  *)
(* and its answer is applied in separate steps.                            *)
(***************************************************************************)
BoundKey(key) ==
    \/ \E i \in DOMAIN job.revision_mutation_bindings :
            job.revision_mutation_bindings[i].request.key = key
    \/ job.revision_instruction # None /\ job.revision_instruction.key = key

CanRevise(rev, request) ==
    /\ ~BoundKey(request.key)
    /\ job.lifecycle \in {"reviewing", "revision_failed"}
    /\ ExactReviewRequest(rev, request.base)
    /\ job.authority = "planned"
    /\ job.revision_attempt_count < MaxRevisions
    /\ job.proposal_revision < MaxRevisions

Revise(c, rev, request) ==
    /\ Free(c) /\ Fresh
    /\ CanRevise(rev, request)
    /\ lock' = c
    /\ Goto(c, "reserving")
    /\ req' = [req EXCEPT ![c] = request]
    /\ UNCHANGED <<job, seen, disk, inputs, calls, bounds>>

\* Mutation: the attempt is counted before and again after it is written.
ReservedTwice(j, request) ==
    [Evolved(j, "revising") EXCEPT
        !.revision_attempt_count = @ + 1,
        !.pending_revision_turn = [attempt |-> j.revision_attempt_count + 2,
                                   text |-> request.text,
                                   base |-> request.base],
        !.revision_instruction = request,
        !.revision_failure = FALSE]

Reserved(j, request) ==
    [Evolved(j, "revising") EXCEPT
        !.revision_attempt_count = @ + 1,
        !.pending_revision_turn = [attempt |-> j.revision_attempt_count + 1,
                                   text |-> request.text,
                                   base |-> request.base],
        !.revision_instruction = request,
        !.revision_failure = FALSE]

\* The inputs may have changed since Revise looked: then the record goes stale,
\* and the provider is called all the same.
ReserveTurn(c) ==
    /\ At(c, "reserving")
    /\ Saves(job, Reserved(job, req[c]), Changed, Promoted)
    /\ Save(Reserved(job, req[c]))
    /\ lock' = None
    /\ Goto(c, "exchanging")
    /\ seen' = [seen EXCEPT ![c] = job']
    /\ req' = [req EXCEPT ![c] = None]
    /\ calls' = [calls EXCEPT ![req[c].key] = @ + 1]
    /\ UNCHANGED <<disk, inputs, bounds>>

ReserveRaises(c) ==
    /\ At(c, "reserving")
    /\ ~Saves(job, Reserved(job, req[c]), Changed, Promoted)
    /\ lock' = None
    /\ Return(c)
    /\ UNCHANGED <<job, disk, inputs, calls, bounds>>

\* The record after the turn ended: answered with a plan of its own, or not.
Resolved(j, turn, outcome) ==
    LET replaced == outcome = "proposal_replaced"
        plan == IF replaced THEN turn.attempt ELSE j.candidate_plan
        proposal == IF replaced THEN j.proposal_revision + 1 ELSE j.proposal_revision
    IN  [Evolved(j, IF replaced THEN "reviewing" ELSE "revision_failed") EXCEPT
            !.proposal_revision = proposal,
            !.candidate_plan = plan,
            !.preview = [plan |-> plan, proposal |-> proposal, rev |-> j.revision + 1],
            !.pending_revision_turn = None,
            !.revision_failure = ~replaced,
            !.revision_mutation_bindings =
                Append(@, [request |-> j.revision_instruction, outcome |-> outcome,
                           terminal |-> j.revision + 1, proposal |-> proposal])]

\* Mutation: any record in the same phase will do.
SamePhase(c) ==
    Fresh /\ job.lifecycle = seen[c].lifecycle /\ job.lifecycle \notin Terminal

\* The record is still the one that was saved before the lock was let go.
Unmoved(c) == Fresh /\ job = seen[c] /\ job.lifecycle \notin Terminal

ProviderAnswers(c, outcome) ==
    /\ At(c, "exchanging") /\ lock = None /\ Loads
    /\ IF Unmoved(c)
       THEN Save(Resolved(job, seen[c].pending_revision_turn, outcome))
       ELSE job' = Reload
    /\ Return(c)
    /\ UNCHANGED <<lock, disk, inputs, calls, bounds>>

\* The lock is not waited for: a busy lock, or a record that cannot be reloaded,
\* loses the answer.  A handler that is one step here also holds the lock while
\* it rescans the inputs; meeting one of those is a fault of its own.
AnswerLost(c) ==
    /\ pc[c] \in {"preparing", "exchanging", "recovering"}
    /\ ((lock # None \/ ~Loads) /\ UNCHANGED bounds) \/ Fault
    /\ Return(c)
    /\ UNCHANGED <<job, lock, disk, inputs, calls>>

RecoverInspect(c) ==
    /\ pc[c] = "idle"
    /\ job.lifecycle = "revising"
    /\ Goto(c, "recovering")
    /\ seen' = [seen EXCEPT ![c] = job]
    /\ UNCHANGED <<job, lock, req, disk, inputs, calls, bounds>>

RecoverRevision(c) ==
    /\ At(c, "recovering") /\ lock = None /\ Loads
    /\ IF Unmoved(c)
       THEN Save(Resolved(job, job.pending_revision_turn, "provider_failed"))
       ELSE job' = Reload
    /\ Return(c)
    /\ UNCHANGED <<lock, disk, inputs, calls, bounds>>

KeepPrevious(c, rev, preview, key) ==
    /\ Free(c) /\ Fresh
    /\ \A i \in DOMAIN job.keep_previous_actions :
            job.keep_previous_actions[i].key # key
    /\ job.lifecycle = "revision_failed"
    /\ ExactReviewRequest(rev, preview)
    /\ Save([Evolved(job, "reviewing") EXCEPT
                !.preview = [@ EXCEPT !.rev = job.revision + 1],
                !.revision_failure = FALSE,
                !.keep_previous_actions =
                    Append(@, [key |-> key, rev |-> rev, base |-> preview])])
    /\ UNCHANGED <<lock, pc, seen, req, disk, inputs, calls, bounds>>

\* Every entry point reloads the record under the lock; so do Load and refusals.
Load(c) ==
    /\ Free(c) /\ job.lifecycle # "absent" /\ Loads
    /\ job' = Reload
    /\ UNCHANGED <<lock, pc, seen, req, disk, inputs, calls, bounds>>
----------------------------------------------------------------------------
(***************************************************************************)
(* Accepting and executing, under one uninterrupted hold of the lock.      *)
(***************************************************************************)
\* build_destination_reservation: the result is reserved for the review it is in.
ReservationOf(j) == [rev |-> j.revision, preview |-> j.preview]

Authorized(j, rev, preview, key) ==
    [Evolved(j, "executing") EXCEPT
        !.execution_authorization = [key |-> key, rev |-> rev, preview |-> preview],
        !.destination_reservation = ReservationOf(j),
        !.pending_result_path = TRUE,
        !.final_result_path = TRUE,
        !.revision_failure = FALSE]

Accept(c, rev, preview, key) ==
    /\ Free(c) /\ Fresh
    /\ job.lifecycle = "reviewing"
    /\ ExactReviewRequest(rev, preview)
    /\ pending = NoTree
    /\ ~Promoted
    /\ Saves(job, Authorized(job, rev, preview, key), Changed, Promoted)
    /\ Save(Authorized(job, rev, preview, key))
    /\ lock' = c
    /\ Goto(c, "starting")
    /\ UNCHANGED <<seen, req, disk, inputs, calls, bounds>>

\* Mutation: the execution is resumed without the writer lock.
TakeOverUnlocked(c) ==
    /\ pc[c] = "idle" /\ Fresh
    /\ job.lifecycle = "executing"
    /\ lock' = c
    /\ Goto(c, "starting")
    /\ UNCHANGED <<job, seen, req, disk, inputs, calls, bounds>>

\* Mutation: a blocked job may be resumed as well.
TakeOverBlocked(c) ==
    /\ Free(c) /\ Fresh
    /\ job.lifecycle \in {"executing", "blocked"}
    /\ lock' = c
    /\ Goto(c, "starting")
    /\ UNCHANGED <<job, seen, req, disk, inputs, calls, bounds>>

TakeOverExecution(c) ==
    /\ Free(c) /\ Fresh
    /\ job.lifecycle = "executing"
    /\ lock' = c
    /\ Goto(c, "starting")
    /\ UNCHANGED <<job, seen, req, disk, inputs, calls, bounds>>

\* An exact retry of the recorded acceptance.
AcceptAgain(c, rev, preview, key) ==
    /\ job.execution_authorization = [key |-> key, rev |-> rev, preview |-> preview]
    /\ TakeOverExecution(c)

\* A restart continues what the record authorizes.
ResumeExecution(c) == TakeOverExecution(c)

BeginCopy(c) ==
    /\ At(c, "starting")
    /\ ~Promoted /\ pending = NoTree /\ ~Changed
    /\ pending' = [state |-> "partial", plan |-> job.candidate_plan]
    /\ Goto(c, "copying")
    /\ UNCHANGED <<job, lock, seen, req, final, inputs, calls, bounds>>

\* Mutation: whatever lies at the final path counts as the result.
AdoptPromoted(c) ==
    /\ At(c, "starting")
    /\ Promoted /\ pending = NoTree
    /\ Goto(c, "checking")
    /\ UNCHANGED <<job, lock, seen, req, disk, inputs, calls, bounds>>

\* Only the checkpoint was lost: the result is verified where it lies.
RecoverPromoted(c) ==
    /\ At(c, "starting")
    /\ final.owner = "job" /\ pending = NoTree
    /\ Goto(c, "checking")
    /\ UNCHANGED <<job, lock, seen, req, disk, inputs, calls, bounds>>

CannotStart(c) ==
    /\ At(c, "starting")
    /\ \/ /\ pending # NoTree \/ final.owner = "stranger" \/ (~Promoted /\ Changed)
          /\ UNCHANGED bounds
       \/ Fault
    /\ Goto(c, "failing")
    /\ UNCHANGED <<job, lock, seen, req, disk, inputs, calls>>

\* Every file is checked against the reviewed inventory while it is copied, and
\* the source is scanned once more before the proof is written.
FinishStaging(c) ==
    /\ At(c, "copying") /\ source
    /\ pending' = [pending EXCEPT !.state = "complete"]
    /\ Goto(c, "finalized")
    /\ UNCHANGED <<job, lock, seen, req, final, inputs, calls, bounds>>

\* Before the receipt is written a failed copy is removed again ...
StagingFails(c) ==
    /\ At(c, "copying")
    /\ (~source /\ UNCHANGED bounds) \/ Fault
    /\ pending' = NoTree
    /\ Goto(c, "failing")
    /\ UNCHANGED <<job, lock, seen, req, final, inputs, calls>>

FinalChecks(c) ==
    /\ At(c, "finalized") /\ ~Changed
    /\ Goto(c, "promoting")
    /\ UNCHANGED <<job, lock, seen, req, disk, inputs, calls, bounds>>

\* ... and after it the tree is kept.
FinalChecksFail(c) ==
    /\ At(c, "finalized")
    /\ (Changed /\ UNCHANGED bounds) \/ Fault
    /\ Goto(c, "failing")
    /\ UNCHANGED <<job, lock, seen, req, disk, inputs, calls>>

Promote(c) ==
    /\ At(c, "promoting") /\ ~Promoted
    /\ final' = [owner |-> "job", plan |-> pending.plan]
    /\ pending' = NoTree
    /\ Goto(c, "checking")
    /\ UNCHANGED <<job, lock, seen, req, inputs, calls, bounds>>

PromotionRefused(c) ==
    /\ At(c, "promoting") /\ Promoted
    /\ Goto(c, "failing")
    /\ UNCHANGED <<job, lock, seen, req, disk, inputs, calls, bounds>>

RecordVerified(c) ==
    /\ At(c, "checking")
    /\ Save([Evolved(job, "verified") EXCEPT !.pending_result_path = FALSE,
                                             !.verified_artifacts = TRUE])
    /\ lock' = None
    /\ Return(c)
    /\ UNCHANGED <<disk, inputs, calls, bounds>>

VerificationFails(c) ==
    /\ At(c, "checking") /\ Fault
    /\ Goto(c, "failing")
    /\ UNCHANGED <<job, lock, seen, req, disk, inputs, calls>>

RecordFailure(c) ==
    /\ At(c, "failing")
    /\ Save(Evolved(job, "blocked"))
    /\ lock' = None
    /\ Return(c)
    /\ UNCHANGED <<disk, inputs, calls, bounds>>
----------------------------------------------------------------------------
Crash(c) ==
    /\ pc[c] # "idle"
    /\ crashes < MaxCrashes
    /\ crashes' = crashes + 1
    /\ lock' = IF lock = c THEN None ELSE lock
    /\ Return(c)
    /\ UNCHANGED <<job, disk, inputs, calls, failures, changes>>

\* The world outside: inputs are edited, unmounted or put back, and somebody
\* else creates the folder the result was to have.
InputChanges ==
    /\ job.lifecycle # "absent"
    /\ changes < MaxChanges
    /\ changes' = changes + 1
    /\ \/ source' = ~source /\ UNCHANGED changeFile
       \/ job.authority = "receiver" /\ changeFile' = ~changeFile /\ UNCHANGED source
    /\ UNCHANGED <<job, lock, pc, seen, req, disk, calls, crashes, failures>>

StrangerTakesFinal ==
    /\ job.lifecycle # "absent"
    /\ ~Promoted
    /\ changes < MaxChanges
    /\ changes' = changes + 1
    /\ final' = [NoResult EXCEPT !.owner = "stranger"]
    /\ UNCHANGED <<job, lock, pc, seen, req, pending, inputs, calls, crashes, failures>>

\* What a caller does by itself once it is inside a handler.
Continue(c) ==
    \/ PrepareFinish(c)
    \/ PrepareFail(c)
    \/ ReserveTurn(c)
    \/ ReserveRaises(c)
    \/ \E outcome \in Outcome : ProviderAnswers(c, outcome)
    \/ AnswerLost(c)
    \/ RecoverRevision(c)
    \/ BeginCopy(c)
    \/ RecoverPromoted(c)
    \/ CannotStart(c)
    \/ FinishStaging(c)
    \/ StagingFails(c)
    \/ FinalChecks(c)
    \/ FinalChecksFail(c)
    \/ Promote(c)
    \/ PromotionRefused(c)
    \/ RecordVerified(c)
    \/ VerificationFails(c)
    \/ RecordFailure(c)

\* What users ask for: any revision and preview they have seen, under any key.
Request(c) ==
    \/ PrepareStart(c)
    \/ \E shown \in Shown, key \in Keys :
        \/ \E rev \in { p.rev : p \in Shown } :
            \/ \E text \in Texts :
                Revise(c, rev, [key |-> key, text |-> text, base |-> shown])
            \/ KeepPrevious(c, rev, shown, key)
            \/ Accept(c, rev, shown, key)
            \/ AcceptAgain(c, rev, shown, key)

\* What a start of the application does with a job it finds.
Restart(c) ==
    \/ Load(c)
    \/ RecoverInspect(c)
    \/ ResumeExecution(c)

Next ==
    \/ \E c \in Callers : Continue(c) \/ Request(c) \/ Restart(c) \/ Crash(c)
    \/ InputChanges
    \/ StrangerTakesFinal

Spec == Init /\ [][Next]_vars

\* A handler that was entered runs on: the lock is never waited for, and the
\* provider answers or fails.  An application that starts again reloads its job
\* and continues or closes what it finds.  Users ask when they like.
Fairness ==
    \A c \in Callers :
        /\ WF_vars(Continue(c))
        /\ WF_vars(Load(c))
        /\ WF_vars(RecoverInspect(c))
        /\ WF_vars(ResumeExecution(c))

FairSpec == Spec /\ Fairness
----------------------------------------------------------------------------
(***************************************************************************)
(* Safety.                                                                 *)
(***************************************************************************)

\* Whoever is inside the copy transaction holds the one lock, and the record
\* still says executing: nobody moved the job under a running copy.
ExecutionIsExclusive ==
    \A c \in Callers : pc[c] \in Executing =>
        /\ lock = c
        /\ job.lifecycle = "executing"

\* A copy that was promoted is the one the record authorizes: through crashes,
\* takeovers, input changes and failed checks the authorization that led to it
\* stays in the record, names the preview on record, and that preview's plan is
\* the one that was copied.
ResultIsAuthorized ==
    final.owner = "job" =>
        /\ job.lifecycle \in {"executing", "verified", "blocked"}
        /\ job.execution_authorization # None
        /\ job.execution_authorization.preview = job.preview
        /\ final.plan = job.preview.plan

\* A hidden pending tree, finished or abandoned, always belongs to a
\* destination the user accepted, even after the job went stale or was blocked.
OutputNeedsAcceptance ==
    pending # NoTree =>
        /\ job.destination_reservation # None
        /\ pending.plan = job.destination_reservation.preview.plan

\* A job is verified only over its own promoted result, with nothing left in
\* the pending tree: a folder somebody else put there is never adopted.
VerifiedHasItsResult ==
    job.lifecycle = "verified" => final.owner = "job" /\ pending = NoTree

\* A revised plan on record is the answer to the revision it is filed under:
\* an answer that arrives after its turn was closed is never taken for the
\* answer to a later turn.
ProposalAnswersItsTurn ==
    LET b == job.revision_mutation_bindings
    IN  job.candidate_plan \notin {None, 0} =>
            /\ job.candidate_plan \in DOMAIN b
            /\ b[job.candidate_plan].outcome = "proposal_replaced"
            /\ \A i \in DOMAIN b :
                    i > job.candidate_plan => b[i].outcome # "proposal_replaced"

\* However often a request is repeated, and whatever was lost in between, the
\* provider is asked at most once for it, and for no more revisions than a job
\* may have.
ProviderSpend ==
    LET Called == { k \in Keys : calls[k] > 0 }
    IN  /\ \A k \in Keys : calls[k] <= 1
        /\ Cardinality(Called) <= MaxRevisions

\* Both: a revision turn is paid for once, and its answer is filed under it.
RevisionTurns == ProposalAnswersItsTurn /\ ProviderSpend

\* What holds between the record, the directories and the step a handler has
\* reached.  The safety properties above rest on it: a copy runs on an accepted
\* destination, its pending tree survives until it is promoted or removed, and
\* only the job's own result is verified.
CopyInProgress ==
    /\ job.lifecycle = "absent" =>
            job.preview = None /\ job.destination_reservation = None
    /\ job.preview # None => job.preview.rev <= job.revision
    /\ job.lifecycle = "executing" => job.destination_reservation # None
    /\ \A c \in Callers :
            /\ pc[c] \in {"copying", "finalized", "promoting"} => pending # NoTree
            /\ pc[c] = "checking" => final.owner = "job" /\ pending = NoTree

\* A verified, stale or blocked record is never written again.
TerminalIsFinal ==
    [][job.lifecycle \in Terminal => job' = job]_vars
----------------------------------------------------------------------------
(***************************************************************************)
(* What the user is promised: see ExactAcceptance.                         *)
(***************************************************************************)
Promise ==
    INSTANCE ExactAcceptance WITH
        Offers <- Preview,
        offer <- job.preview,
        chosen <- IF job.destination_reservation = None
                    THEN None
                    ELSE job.destination_reservation.preview,
        delivered <- IF final.owner = "job" THEN final.plan ELSE None,
        closed <- job.lifecycle \in Terminal

\* The service implements the promise.
KeepsPromise == Promise!Spec
----------------------------------------------------------------------------
(***************************************************************************)
(* Liveness, under FairSpec.                                               *)
(***************************************************************************)

\* An accepted copy is always brought to an end, whoever has to finish it.  The
\* exception is a job whose inputs changed and whose result path somebody else
\* took: it can neither be promoted nor closed.
ExecutionSettles ==
    job.lifecycle = "executing" ~>
        job.lifecycle \in Terminal \/ (Changed /\ final.owner = "stranger")

\* A reserved revision is answered, or closed by a restart, unless the inputs
\* changed under it.
RevisionSettles ==
    job.lifecycle = "revising" ~> job.lifecycle # "revising" \/ Changed
----------------------------------------------------------------------------
(***************************************************************************)
(* What the build specification says and the code does not do.             *)
(***************************************************************************)

\* BUILD_SPEC: any nonterminal operational state may transition to stale when
\* a committed input changes.  So a reload of such a record must succeed.
ChangedInputSetsStale ==
    job.lifecycle # "absent" => Loads

\* BUILD_SPEC CASE-016: restart must recover executing.  If nothing but a crash
\* goes wrong, an execution is not given up.
RestartRecoversExecution ==
    [][job.lifecycle = "executing" => job'.lifecycle \in {"executing", "verified"}]_vars
=============================================================================
