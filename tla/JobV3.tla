---------------------------------- MODULE JobV3 ----------------------------------
(***************************************************************************)
(* The durable job record of the review era (FolderRefactorJobV3) and the  *)
(* checks its one writer applies: which records are valid, what a reload   *)
(* makes of a record whose inputs changed, and which successor may be      *)
(* saved over which current record.  The module has no variables: the      *)
(* modules that EXTEND it own the file, the lock and the directories.      *)
(*                                                                         *)
(* Fingerprints are modelled by what they bind: two fingerprints are equal *)
(* exactly when the values they were computed from are.                    *)
(***************************************************************************)
EXTENDS Naturals, Sequences

CONSTANTS
    Keys,           \* idempotency keys that callers choose
    Texts,          \* revision instructions that users type
    MaxRevisions,   \* user revisions one job admits (2 in the code)
    None            \* an absent optional field

ASSUME MaxRevisionsAssumption == MaxRevisions \in Nat \ {0}

(***************************************************************************)
(* "absent" stands for a job file that does not exist yet.                 *)
(***************************************************************************)
PreReview == {"matching", "planning", "awaiting_clarification"}
Terminal  == {"verified", "stale", "blocked"}
Lifecycle == PreReview \cup Terminal \cup
             {"absent", "reviewing", "revising", "revision_failed", "executing"}

(***************************************************************************)
(* A candidate plan is named by where it came from: 0 is the first         *)
(* proposal, n the provider's answer to revision attempt n.  A preview     *)
(* (and its fingerprint) binds the plan, the proposal number and the job   *)
(* revision it may be acted on.                                            *)
(***************************************************************************)
Plan == 0 .. MaxRevisions
Preview == [plan: Plan, proposal: Plan, rev: Nat]
Instruction == [key: Keys, text: Texts, base: Preview]
Turn == [attempt: Plan, text: Texts, base: Preview]
Outcome == {"proposal_replaced", "provider_failed", "mechanically_rejected"}
Binding == [request: Instruction, outcome: Outcome, terminal: Nat, proposal: Plan]
KeepAction == [key: Keys, rev: Nat, base: Preview]
Authorization == [key: Keys, rev: Nat, preview: Preview]
Reservation == [rev: Nat, preview: Preview]

(***************************************************************************)
(* The mutable fields of the record, under their names in the source.  The *)
(* provider-failure, rejection and ledger histories are one entry each per *)
(* finished attempt, so revision_mutation_bindings carries all of them.    *)
(***************************************************************************)
Job == [ authority: {"planned", "receiver"},
         lifecycle: Lifecycle,
         revision: Nat,
         proposal_revision: Plan,
         revision_attempt_count: Plan,
         candidate_plan: Plan \cup {None},
         preview: Preview \cup {None},
         pending_revision_turn: Turn \cup {None},
         revision_instruction: Instruction \cup {None},
         revision_failure: BOOLEAN,
         revision_mutation_bindings: Seq(Binding),
         keep_previous_actions: Seq(KeepAction),
         execution_authorization: Authorization \cup {None},
         destination_reservation: Reservation \cup {None},
         pending_result_path: BOOLEAN,
         final_result_path: BOOLEAN,
         verified_artifacts: BOOLEAN ]

NewJob(authority, lifecycle) ==
    [ authority |-> authority,
      lifecycle |-> lifecycle,
      revision |-> 0,
      proposal_revision |-> 0,
      revision_attempt_count |-> 0,
      candidate_plan |-> None,
      preview |-> None,
      pending_revision_turn |-> None,
      revision_instruction |-> None,
      revision_failure |-> FALSE,
      revision_mutation_bindings |-> << >>,
      keep_previous_actions |-> << >>,
      execution_authorization |-> None,
      destination_reservation |-> None,
      pending_result_path |-> FALSE,
      final_result_path |-> FALSE,
      verified_artifacts |-> FALSE ]

Distinct(s, Field(_)) ==
    \A i, k \in DOMAIN s : Field(s[i]) = Field(s[k]) => i = k
----------------------------------------------------------------------------
(***************************************************************************)
(* The record validator, one operator per part of it.  Every record that   *)
(* is built, loaded or saved passes it or raises.                          *)
(***************************************************************************)
PreviewAuthority(j) ==
    j.preview # None =>
        /\ j.candidate_plan # None
        /\ j.preview.plan = j.candidate_plan
        /\ j.preview.proposal = j.proposal_revision

\* Each attempt is pending or ended, and the selected proposal is the one the
\* ended attempts left.
RevisionLedger(j) ==
    (j.authority = "planned" /\ j.candidate_plan # None) =>
        j.revision_attempt_count =
            Len(j.revision_mutation_bindings)
                + (IF j.pending_revision_turn # None THEN 1 ELSE 0)

PendingTurn(j, delta) ==
    /\ j.pending_revision_turn # None
    /\ j.revision_instruction # None
    /\ j.preview # None
    /\ j.pending_revision_turn.base = j.preview
    /\ j.pending_revision_turn.text = j.revision_instruction.text
    /\ j.preview.rev + delta = j.revision

RevisionTurnAuthority(j) ==
    /\ j.lifecycle = "revising" => PendingTurn(j, 1)
    /\ (j.lifecycle # "revising" /\ j.pending_revision_turn # None)
           => j.lifecycle = "blocked" /\ PendingTurn(j, 2)

NoOutput(j) ==
    /\ j.execution_authorization = None
    /\ ~j.pending_result_path
    /\ ~j.final_result_path
    /\ ~j.verified_artifacts

AuthorizedExecution(j) ==
    /\ j.candidate_plan # None
    /\ j.preview # None
    /\ j.execution_authorization # None
    /\ j.final_result_path
    /\ j.execution_authorization.rev = j.preview.rev
    /\ j.execution_authorization.preview = j.preview

LifecycleAuthority(j) ==
    /\ j.lifecycle \in PreReview =>
           j.candidate_plan = None /\ j.preview = None /\ NoOutput(j)
    /\ j.lifecycle \in {"reviewing", "revision_failed"} =>
           j.preview # None /\ j.preview.rev = j.revision /\ NoOutput(j)
    /\ j.lifecycle = "revising" => NoOutput(j)
    /\ j.lifecycle = "executing" =>
           AuthorizedExecution(j) /\ j.pending_result_path /\ ~j.verified_artifacts
    /\ j.lifecycle = "verified" =>
           AuthorizedExecution(j) /\ ~j.pending_result_path /\ j.verified_artifacts
    /\ j.revision_failure <=> j.lifecycle = "revision_failed"

RetryHistories(j) ==
    /\ Len(j.revision_mutation_bindings) <= MaxRevisions
    /\ Len(j.keep_previous_actions) <= MaxRevisions
    /\ Distinct(j.revision_mutation_bindings, LAMBDA b : b.request.key)
    /\ Distinct(j.keep_previous_actions, LAMBDA k : k.key)
    /\ \A i, k \in DOMAIN j.revision_mutation_bindings :
            i < k => j.revision_mutation_bindings[i].terminal
                        < j.revision_mutation_bindings[k].terminal
    /\ j.authority = "receiver" => j.revision_mutation_bindings = << >>

ReservationAuthority(j) ==
    j.destination_reservation # None =>
        /\ j.preview # None
        /\ j.destination_reservation.preview = j.preview
        /\ \/ j.lifecycle \in {"stale", "blocked"} /\ j.execution_authorization = None
           \/ /\ j.execution_authorization # None
              /\ j.destination_reservation.rev = j.execution_authorization.rev

CompleteAuthority(j) ==
    /\ j.proposal_revision <= MaxRevisions
    /\ j.revision_attempt_count <= MaxRevisions
    /\ PreviewAuthority(j)
    /\ RevisionLedger(j)
    /\ RevisionTurnAuthority(j)
    /\ LifecycleAuthority(j)
    /\ RetryHistories(j)
    /\ ReservationAuthority(j)
----------------------------------------------------------------------------
(***************************************************************************)
(* Reloading.  changed: the rescanned source or Change File differs from   *)
(* the one the job was made for.  promoted: a directory entry exists at    *)
(* the final result path.                                                  *)
(***************************************************************************)
Evolved(j, lifecycle) ==
    [j EXCEPT !.lifecycle = lifecycle, !.revision = @ + 1]

\* Mutation: the stale record forgets which destination was accepted.
StaleWithoutReservation(j) ==
    [Evolved(j, "stale") EXCEPT !.execution_authorization = None,
                                !.destination_reservation = None,
                                !.pending_result_path = FALSE,
                                !.final_result_path = FALSE]

StaleSuccessor(j) ==
    [Evolved(j, "stale") EXCEPT !.execution_authorization = None,
                                !.pending_result_path = FALSE,
                                !.final_result_path = FALSE]

\* Mutation: a promoted result does not protect its job yet.
CurrentUntilChanged(j, changed, promoted) ==
    \/ j.lifecycle \in Terminal
    \/ ~changed

\* Mutation: finished jobs are rescanned like any other.
RescannedWhenFinished(j, changed, promoted) ==
    \/ j.lifecycle = "executing" /\ j.final_result_path /\ promoted
    \/ ~changed

\* Promotion is the commit point: from then on a changed input is too late.
StillCurrent(j, changed, promoted) ==
    \/ j.lifecycle \in Terminal
    \/ j.lifecycle = "executing" /\ j.final_result_path /\ promoted
    \/ ~changed

\* Whether a reload returns at all: the stale successor must itself be valid.
Rehydrates(j, changed, promoted) ==
    StillCurrent(j, changed, promoted) \/ CompleteAuthority(StaleSuccessor(j))

Rehydrated(j, changed, promoted) ==
    IF StillCurrent(j, changed, promoted) THEN j ELSE StaleSuccessor(j)
----------------------------------------------------------------------------
(***************************************************************************)
(* Saving a successor over the current record.                             *)
(***************************************************************************)
Transitions ==
    { <<"matching", "reviewing">>, <<"matching", "stale">>, <<"matching", "blocked">>,
      <<"planning", "planning">>, <<"planning", "awaiting_clarification">>,
      <<"planning", "reviewing">>, <<"planning", "stale">>, <<"planning", "blocked">>,
      <<"awaiting_clarification", "awaiting_clarification">>,
      <<"awaiting_clarification", "planning">>,
      <<"awaiting_clarification", "reviewing">>,
      <<"awaiting_clarification", "stale">>, <<"awaiting_clarification", "blocked">>,
      <<"reviewing", "revising">>, <<"reviewing", "executing">>,
      <<"reviewing", "stale">>, <<"reviewing", "blocked">>,
      <<"revising", "revising">>, <<"revising", "reviewing">>,
      <<"revising", "revision_failed">>, <<"revising", "stale">>,
      <<"revising", "blocked">>,
      <<"revision_failed", "revising">>, <<"revision_failed", "reviewing">>,
      <<"revision_failed", "stale">>, <<"revision_failed", "blocked">>,
      <<"executing", "verified">>, <<"executing", "stale">>,
      <<"executing", "blocked">> }

\* Authorizing an execution changes nothing the user reviewed.
TransitionPayload(j, s) ==
    (j.lifecycle = "reviewing" /\ s.lifecycle = "executing") =>
        s = [j EXCEPT !.revision = s.revision,
                      !.lifecycle = s.lifecycle,
                      !.execution_authorization = s.execution_authorization,
                      !.destination_reservation = s.destination_reservation,
                      !.pending_result_path = s.pending_result_path,
                      !.final_result_path = s.final_result_path]

\* A history grows by at most one entry, and only where More allows it.
Appends(old, new, More(_)) ==
    new = old \/ (Len(new) = Len(old) + 1 /\ SubSeq(new, 1, Len(old)) = old
                    /\ More(new[Len(new)]))

KeepHistory(j, s) ==
    Appends(j.keep_previous_actions, s.keep_previous_actions,
            LAMBDA k : /\ j.lifecycle = "revision_failed"
                       /\ s.lifecycle = "reviewing"
                       /\ k.rev = j.revision
                       /\ k.base = j.preview)

\* Where a revision ends, and so the only place where the histories of provider
\* failures and of rejections grow.
EndsRevision(j, s) ==
    j.lifecycle = "revising" /\ s.lifecycle \in {"reviewing", "revision_failed"}

BindingHistory(j, s) ==
    /\ Appends(j.revision_mutation_bindings, s.revision_mutation_bindings,
               LAMBDA b : /\ j.pending_revision_turn # None
                          /\ b.request = j.revision_instruction
                          /\ b.request.base = j.pending_revision_turn.base
                          /\ EndsRevision(j, s)
                          /\ b.terminal = s.revision
                          /\ b.proposal = s.proposal_revision
                          /\ (b.outcome = "proposal_replaced"
                                <=> s.lifecycle = "reviewing"))
    /\ EndsRevision(j, s) =>
           s.revision_mutation_bindings # j.revision_mutation_bindings

ReservationHistory(j, s) ==
    IF j.lifecycle = "reviewing" /\ s.lifecycle = "executing"
    THEN /\ j.destination_reservation = None
         /\ s.destination_reservation # None
         /\ s.destination_reservation.rev = j.revision
    ELSE s.destination_reservation = j.destination_reservation

\* The reference graph is recorded with the first candidate and never leaves
\* the record again.
ImmutableIdentity(j, s) ==
    /\ s.authority = j.authority
    /\ j.candidate_plan # None => s.candidate_plan # None

WriterAdmits(j, s) ==
    /\ j.lifecycle \notin Terminal
    /\ s.revision = j.revision + 1
    /\ ImmutableIdentity(j, s)
    /\ <<j.lifecycle, s.lifecycle>> \in Transitions
    /\ TransitionPayload(j, s)
    /\ KeepHistory(j, s)
    /\ BindingHistory(j, s)
    /\ ReservationHistory(j, s)

\* Mutation: every checkpoint is rescanned.
NoPromotedExecution(j, s, promoted) == FALSE

\* A verified checkpoint after promotion skips the staleness rescan.
PromotedExecution(j, s, promoted) ==
    /\ j.lifecycle = "executing"
    /\ j.final_result_path
    /\ promoted
    /\ s.lifecycle = "verified"

Overtaken(j, s, changed, promoted) ==
    changed /\ ~PromotedExecution(j, s, promoted)

\* Whether building and saving s over j returns instead of raising ...
Saves(j, s, changed, promoted) ==
    /\ CompleteAuthority(s)
    /\ WriterAdmits(j, s)
    /\ Overtaken(j, s, changed, promoted) => Rehydrates(j, changed, promoted)

\* ... and the record it leaves, which is s unless the inputs changed meanwhile.
Saved(j, s, changed, promoted) ==
    IF Overtaken(j, s, changed, promoted)
    THEN Rehydrated(j, changed, promoted)
    ELSE s
=============================================================================
