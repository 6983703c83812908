---------------------------- MODULE ReviewProofs ----------------------------
(***************************************************************************)
(* Theorems of the review and of the copy it starts.                       *)
(*                                                                         *)
(* ReviewJob: for every set of callers, keys and texts, every revision     *)
(* limit and every number of crashes, failures and changes.                *)
(*                                                                         *)
(* CopyTransaction: for any files, folders, roles and bounds, what is      *)
(* promoted is the accepted copy of the source, what is altered in it is   *)
(* found, and what is restored from it is the source.                      *)
(***************************************************************************)
EXTENDS ReviewJob, CopyTransaction, SequenceTheorems, FiniteSetTheorems, TLAPS

----------------------------------------------------------------------------
(***************************************************************************)
(* The record and its writer (JobV3).                                      *)
(***************************************************************************)
\* A new record is a valid one, whichever proposal it waits for.
LEMMA NewJobValid ==
    ASSUME NEW a \in {"planned", "receiver"},
           NEW l \in {"absent", "planning", "matching"}
    PROVE  NewJob(a, l) \in Job /\ CompleteAuthority(NewJob(a, l))
<1> DEFINE n == NewJob(a, l)
<1>1. n \in Job
  BY MaxRevisionsAssumption DEF NewJob, Job, Lifecycle, PreReview, Terminal, Plan
<1>2. /\ n.proposal_revision <= MaxRevisions
      /\ n.revision_attempt_count <= MaxRevisions
  BY MaxRevisionsAssumption DEF NewJob
<1>3. PreviewAuthority(n) /\ RevisionLedger(n) /\ ReservationAuthority(n)
  BY DEF NewJob, PreviewAuthority, RevisionLedger, ReservationAuthority
<1>4. RevisionTurnAuthority(n)
  BY DEF NewJob, RevisionTurnAuthority
<1>5. LifecycleAuthority(n)
  BY DEF NewJob, LifecycleAuthority, NoOutput, PreReview
<1>6. RetryHistories(n)
  BY MaxRevisionsAssumption DEF NewJob, RetryHistories, Distinct
<1> QED
  BY <1>1, <1>2, <1>3, <1>4, <1>5, <1>6 DEF CompleteAuthority

\* Moving a record on keeps it a record.
LEMMA EvolvedType ==
    ASSUME NEW j \in Job, NEW l \in Lifecycle
    PROVE  Evolved(j, l) \in Job
<1>1. j.revision + 1 \in Nat
  BY DEF Job
<1>2. ASSUME NEW n \in Nat
      PROVE  [j EXCEPT !.lifecycle = l, !.revision = n] \in Job
  BY ZenonT(60) DEF Job
<1> QED
  BY <1>1, <1>2, Zenon DEF Evolved

\* So does giving it an output: an authorization and the two paths.
LEMMA OutputType ==
    ASSUME NEW j \in Job, NEW a \in Authorization \cup {None},
           NEW p \in BOOLEAN, NEW f \in BOOLEAN
    PROVE  [j EXCEPT !.execution_authorization = a,
                     !.pending_result_path = p,
                     !.final_result_path = f] \in Job
BY ZenonT(60) DEF Job

LEMMA StaleSuccessorType ==
    ASSUME NEW j \in Job
    PROVE  StaleSuccessor(j) \in Job
<1>1. "stale" \in Lifecycle
  BY DEF Lifecycle, Terminal
<1>2. Evolved(j, "stale") \in Job
  BY <1>1, EvolvedType
<1>3. None \in Authorization \cup {None} /\ FALSE \in BOOLEAN
  OBVIOUS
<1> QED
  BY <1>2, <1>3, OutputType, Zenon DEF StaleSuccessor

\* What saving leaves is the current record, its stale successor or the record
\* that was offered, and it is valid when the current record is.
LEMMA RehydratedValid ==
    ASSUME NEW j \in Job, CompleteAuthority(j),
           NEW changed \in BOOLEAN, NEW promoted \in BOOLEAN,
           Rehydrates(j, changed, promoted)
    PROVE  /\ Rehydrated(j, changed, promoted) \in Job
           /\ CompleteAuthority(Rehydrated(j, changed, promoted))
BY StaleSuccessorType DEF Rehydrated, Rehydrates

----------------------------------------------------------------------------
(***************************************************************************)
(* What one step can make of the record.                                   *)
(***************************************************************************)
JobOK == job \in Job /\ CompleteAuthority(job)

GoesStale == job' = StaleSuccessor(job) /\ ~Fresh /\ CompleteAuthority(job')

Goes(s) ==
    \/ job' = job
    \/ GoesStale
    \/ job' = s /\ WriterAdmits(job, s) /\ CompleteAuthority(s)

LEMMA SaveGoes ==
    ASSUME NEW s, Save(s)
    PROVE  Goes(s)
<1>1. CASE ~Saves(job, s, Changed, Promoted)
  BY <1>1 DEF Save, Goes
<1>2. CASE Saves(job, s, Changed, Promoted) /\ ~Overtaken(job, s, Changed, Promoted)
  BY <1>2 DEF Save, Goes, Saves, Saved
<1>3. CASE Saves(job, s, Changed, Promoted) /\ Overtaken(job, s, Changed, Promoted)
  BY <1>3 DEF Save, Goes, GoesStale, Saves, Saved, Rehydrates, Rehydrated, Fresh
<1> QED
  BY <1>1, <1>2, <1>3

LEMMA ReloadGoes ==
    ASSUME Loads, job' = Reload
    PROVE  job' = job \/ GoesStale
BY DEF Loads, Reload, Rehydrates, Rehydrated, Fresh, GoesStale

\* Every record a handler offers for saving is typed if it can be saved at all.
LEMMA FirstReviewType ==
    ASSUME NEW j \in Job
    PROVE  FirstReview(j) \in Job
<1> DEFINE p == [plan |-> 0, proposal |-> 0, rev |-> j.revision + 1]
           e == Evolved(j, "reviewing")
<1>1. e \in Job
  BY EvolvedType DEF Lifecycle
<1>2. 0 \in Plan \cup {None} /\ p \in Preview \cup {None}
  BY MaxRevisionsAssumption DEF Plan, Preview, Job
<1> HIDE DEF e, p
<1>3. ASSUME NEW a \in Plan \cup {None}, NEW b \in Preview \cup {None}
      PROVE  [e EXCEPT !.candidate_plan = a, !.preview = b] \in Job
  BY <1>1, ZenonT(60) DEF Job
<1>4. [e EXCEPT !.candidate_plan = 0, !.preview = p] \in Job
  BY <1>2, <1>3, Zenon
<1> QED
  BY <1>4 DEF FirstReview, e, p

LEMMA ReservedType ==
    ASSUME NEW j \in Job, NEW request \in Instruction \cup {None},
           CompleteAuthority(Reserved(j, request))
    PROVE  Reserved(j, request) \in Job
<1> DEFINE t == [attempt |-> j.revision_attempt_count + 1,
                 text |-> request.text,
                 base |-> request.base]
           e == Evolved(j, "revising")
           n == j.revision_attempt_count + 1
           r == [e EXCEPT !.revision_attempt_count = n,
                          !.pending_revision_turn = t,
                          !.revision_instruction = request,
                          !.revision_failure = FALSE]
<1>1. e \in Job
  BY EvolvedType DEF Lifecycle
<1>2. e.revision_attempt_count = j.revision_attempt_count
  BY DEF Evolved, Job
<1>3. Reserved(j, request) = r
  BY <1>2 DEF Reserved
<1>4. j.revision_attempt_count \in Nat
  BY MaxRevisionsAssumption DEF Job, Plan
<1> HIDE DEF e, t, n
<1>5. /\ r.revision_attempt_count = n
      /\ r.revision_instruction = request
      /\ r.lifecycle = e.lifecycle
  BY <1>1 DEF Job
<1>6. e.lifecycle = "revising"
  BY DEF e, Evolved, Job
<1>7. n <= MaxRevisions /\ request # None
  BY <1>3, <1>5, <1>6 DEF CompleteAuthority, RevisionTurnAuthority, PendingTurn
<1>8. n \in Plan /\ request \in Instruction
  BY <1>4, <1>7, MaxRevisionsAssumption DEF n, Plan
<1>9. t \in Turn \cup {None}
  BY <1>8 DEF t, n, Turn, Instruction
<1>10. ASSUME NEW x \in Job, NEW a \in Plan, NEW b \in Turn \cup {None}
       PROVE  [x EXCEPT !.revision_attempt_count = a,
                        !.pending_revision_turn = b] \in Job
  BY ZenonT(60) DEF Job
<1>11. ASSUME NEW x \in Job, NEW a \in Instruction \cup {None}, NEW b \in BOOLEAN
       PROVE  [x EXCEPT !.revision_instruction = a,
                        !.revision_failure = b] \in Job
  BY ZenonT(60) DEF Job
<1>12. [[e EXCEPT !.revision_attempt_count = n,
                  !.pending_revision_turn = t]
           EXCEPT !.revision_instruction = request,
                  !.revision_failure = FALSE] \in Job
  BY <1>1, <1>8, <1>9, <1>10, <1>11, Zenon
<1>13. r \in Job
  BY <1>12
<1> QED
  BY <1>3, <1>13

LEMMA ResolvedType ==
    ASSUME NEW j \in Job, CompleteAuthority(j),
           NEW turn \in Turn, NEW outcome \in Outcome,
           WriterAdmits(j, Resolved(j, turn, outcome)),
           CompleteAuthority(Resolved(j, turn, outcome))
    PROVE  Resolved(j, turn, outcome) \in Job
<1> DEFINE replaced == outcome = "proposal_replaced"
           l == IF replaced THEN "reviewing" ELSE "revision_failed"
           plan == IF replaced THEN turn.attempt ELSE j.candidate_plan
           n == IF replaced THEN j.proposal_revision + 1 ELSE j.proposal_revision
           p == [plan |-> plan, proposal |-> n, rev |-> j.revision + 1]
           b == [request |-> j.revision_instruction, outcome |-> outcome,
                 terminal |-> j.revision + 1, proposal |-> n]
           e == Evolved(j, l)
           h == Append(j.revision_mutation_bindings, b)
           r == [e EXCEPT !.proposal_revision = n,
                          !.candidate_plan = plan,
                          !.preview = p,
                          !.pending_revision_turn = None,
                          !.revision_failure = ~replaced,
                          !.revision_mutation_bindings = h]
<1>1. /\ e \in Job
      /\ e.lifecycle = l
      /\ e.proposal_revision = j.proposal_revision
      /\ e.candidate_plan = j.candidate_plan
      /\ e.revision_mutation_bindings = j.revision_mutation_bindings
  <2>1. l \in Lifecycle
    BY DEF Lifecycle
  <2>2. e \in Job
    BY <2>1, EvolvedType
  <2> QED
    BY <2>2 DEF Evolved, Job
<1>2. Resolved(j, turn, outcome) = r
  BY <1>1 DEF Resolved
<1>3. j.proposal_revision \in Nat /\ j.revision \in Nat
  BY MaxRevisionsAssumption DEF Job, Plan
<1>4. n \in Nat
  BY <1>3
<1> HIDE DEF e, n, h
<1>5. /\ r.proposal_revision = n
      /\ r.lifecycle = l
      /\ r.revision_mutation_bindings = h
      /\ r.candidate_plan = plan
      /\ r.preview = p
  BY <1>1 DEF Job
<1>6. n \in Plan
  BY <1>2, <1>4, <1>5, MaxRevisionsAssumption DEF CompleteAuthority, Plan
<1>7. h \in Seq(Binding) => Len(h) = Len(j.revision_mutation_bindings) + 1
  BY DEF h, Job
<1>8. h # j.revision_mutation_bindings
  BY DEF h, Job
<1>9. EndsRevision(j, r)
  BY <1>2, <1>5, <1>8 DEF WriterAdmits, BindingHistory, Appends
<1>10. PendingTurn(j, 1)
  BY <1>9 DEF EndsRevision, CompleteAuthority, RevisionTurnAuthority
<1>11. j.revision_instruction \in Instruction /\ j.candidate_plan \in Plan
  BY <1>10 DEF PendingTurn, CompleteAuthority, PreviewAuthority, Job
<1>12. plan \in Plan /\ turn.attempt \in Plan
  BY <1>11 DEF Turn
<1>13. p \in Preview
  BY <1>3, <1>6, <1>12 DEF Preview
<1>14. b \in Binding
  BY <1>3, <1>6, <1>11 DEF Binding
<1>15. h \in Seq(Binding)
  BY <1>14 DEF h, Job
<1> HIDE DEF p, b, plan, l
<1>16. ASSUME NEW x \in Job, NEW v \in Plan, NEW w \in Plan \cup {None}
       PROVE  [x EXCEPT !.proposal_revision = v, !.candidate_plan = w] \in Job
  BY ZenonT(60) DEF Job
<1>17. ASSUME NEW x \in Job, NEW v \in Preview \cup {None}, NEW w \in Turn \cup {None}
       PROVE  [x EXCEPT !.preview = v, !.pending_revision_turn = w] \in Job
  BY ZenonT(60) DEF Job
<1>18. ASSUME NEW x \in Job, NEW v \in BOOLEAN, NEW w \in Seq(Binding)
       PROVE  [x EXCEPT !.revision_failure = v, !.revision_mutation_bindings = w] \in Job
  BY ZenonT(60) DEF Job
<1>19. [[[e EXCEPT !.proposal_revision = n, !.candidate_plan = plan]
            EXCEPT !.preview = p, !.pending_revision_turn = None]
            EXCEPT !.revision_failure = ~replaced,
                   !.revision_mutation_bindings = h] \in Job
  <2>1. plan \in Plan \cup {None} /\ p \in Preview \cup {None}
    BY <1>12, <1>13
  <2>2. None \in Turn \cup {None} /\ (~replaced) \in BOOLEAN
    OBVIOUS
  <2> QED
    BY <1>1, <1>6, <1>15, <1>16, <1>17, <1>18, <2>1, <2>2, Zenon
<1>20. r \in Job
  BY <1>19
<1> QED
  BY <1>2, <1>20

LEMMA KeptType ==
    ASSUME NEW j \in Job, NEW key \in Keys, NEW rev \in Nat, NEW base \in Preview,
           j.preview # None
    PROVE  [Evolved(j, "reviewing") EXCEPT
                !.preview = [@ EXCEPT !.rev = j.revision + 1],
                !.revision_failure = FALSE,
                !.keep_previous_actions =
                    Append(@, [key |-> key, rev |-> rev, base |-> base])] \in Job
<1> DEFINE e == Evolved(j, "reviewing")
           p == [j.preview EXCEPT !.rev = j.revision + 1]
           k == [key |-> key, rev |-> rev, base |-> base]
           h == Append(j.keep_previous_actions, k)
<1>1. /\ e \in Job
      /\ e.preview = j.preview
      /\ e.keep_previous_actions = j.keep_previous_actions
  <2>1. e \in Job
    BY EvolvedType DEF Lifecycle, Terminal
  <2>2. e.preview = j.preview /\ e.keep_previous_actions = j.keep_previous_actions
    BY DEF Evolved, Job
  <2> QED  BY <2>1, <2>2
<1>2. p \in Preview \cup {None}
  BY DEF Job, Preview
<1>3. h \in Seq(KeepAction)
  BY DEF Job, KeepAction
<1> HIDE DEF e, p, h
<1>4. ASSUME NEW x \in Job, NEW v \in Preview \cup {None}
      PROVE  [x EXCEPT !.preview = v] \in Job
  BY ZenonT(60) DEF Job
<1>5. ASSUME NEW x \in Job, NEW v \in BOOLEAN, NEW w \in Seq(KeepAction)
      PROVE  [x EXCEPT !.revision_failure = v, !.keep_previous_actions = w] \in Job
  BY ZenonT(60) DEF Job
<1>6. FALSE \in BOOLEAN
  OBVIOUS
<1>7. [[e EXCEPT !.preview = p]
          EXCEPT !.revision_failure = FALSE, !.keep_previous_actions = h] \in Job
  BY <1>1, <1>2, <1>3, <1>4, <1>5, <1>6, Zenon
<1>8. [e EXCEPT !.preview = p, !.revision_failure = FALSE,
                !.keep_previous_actions = h] \in Job
  BY <1>7
<1>9. [e EXCEPT !.preview = [@ EXCEPT !.rev = j.revision + 1],
                !.revision_failure = FALSE,
                !.keep_previous_actions = Append(@, k)]
        = [e EXCEPT !.preview = p, !.revision_failure = FALSE,
                    !.keep_previous_actions = h]
  BY <1>1 DEF p, h
<1> QED
  BY <1>8, <1>9 DEF e

LEMMA AuthorizedType ==
    ASSUME NEW j \in Job, NEW rev \in Nat, NEW preview \in Preview, NEW key \in Keys,
           j.preview # None
    PROVE  Authorized(j, rev, preview, key) \in Job
<1> DEFINE e == Evolved(j, "executing")
           a == [key |-> key, rev |-> rev, preview |-> preview]
           d == [rev |-> j.revision, preview |-> j.preview]
<1>1. e \in Job
  BY EvolvedType DEF Lifecycle
<1>2. a \in Authorization \cup {None}
  BY DEF Authorization
<1>3. d \in Reservation \cup {None}
  BY DEF Reservation, Job
<1> HIDE DEF e, a, d
<1>4. ASSUME NEW x \in Job, NEW v \in Reservation \cup {None}, NEW w \in BOOLEAN
      PROVE  [x EXCEPT !.destination_reservation = v, !.revision_failure = w] \in Job
  BY ZenonT(60) DEF Job
<1>5. TRUE \in BOOLEAN /\ FALSE \in BOOLEAN
  OBVIOUS
<1>6. [[e EXCEPT !.execution_authorization = a, !.pending_result_path = TRUE,
                 !.final_result_path = TRUE]
          EXCEPT !.destination_reservation = d, !.revision_failure = FALSE] \in Job
  BY <1>1, <1>2, <1>3, <1>4, <1>5, OutputType, Zenon
<1> QED
  BY <1>6 DEF Authorized, ReservationOf, e, a, d

LEMMA ConcludedType ==
    ASSUME NEW j \in Job
    PROVE  [Evolved(j, "verified") EXCEPT !.pending_result_path = FALSE,
                                          !.verified_artifacts = TRUE] \in Job
<1>1. Evolved(j, "verified") \in Job
  BY EvolvedType DEF Lifecycle, Terminal
<1> DEFINE e == Evolved(j, "verified")
<1> HIDE DEF e
<1>2. ASSUME NEW x \in Job, NEW v \in BOOLEAN
      PROVE  [x EXCEPT !.pending_result_path = v] \in Job
  BY ZenonT(60) DEF Job
<1>3. ASSUME NEW x \in Job, NEW v \in BOOLEAN
      PROVE  [x EXCEPT !.verified_artifacts = v] \in Job
  BY ZenonT(60) DEF Job
<1>4. TRUE \in BOOLEAN /\ FALSE \in BOOLEAN
  OBVIOUS
<1>5. [[e EXCEPT !.pending_result_path = FALSE]
          EXCEPT !.verified_artifacts = TRUE] \in Job
  BY <1>1, <1>2, <1>3, <1>4, Zenon DEF e
<1>6. [e EXCEPT !.pending_result_path = FALSE, !.verified_artifacts = TRUE] \in Job
  BY <1>5
<1> QED
  BY <1>6 DEF e
----------------------------------------------------------------------------
(***************************************************************************)
(* The record moves in four ways only: it goes stale, it is created, it    *)
(* moves on in its review, or its execution settles.                       *)
(***************************************************************************)
Concluded(j) ==
    [Evolved(j, "verified") EXCEPT !.pending_result_path = FALSE,
                                   !.verified_artifacts = TRUE]

Creates ==
    /\ job.lifecycle = "absent"
    /\ \E a \in {"planned", "receiver"}, l \in {"planning", "matching"} :
            job' = NewJob(a, l)

Reviews ==
    /\ job.lifecycle # "executing"
    /\ job' \in Job
    /\ WriterAdmits(job, job')
    /\ CompleteAuthority(job')
    /\ job'.lifecycle \in
            {"reviewing", "revising", "revision_failed", "executing", "blocked"}
    /\ job'.lifecycle = "revising" => job'.preview = job.preview
    /\ job'.lifecycle = "blocked" => job' = Evolved(job, "blocked")

Settles ==
    /\ job.lifecycle = "executing"
    /\ job' \in Job
    /\ CompleteAuthority(job')
    /\ \/ job' = Evolved(job, "blocked")
       \/ job' = Concluded(job) /\ \E c \in Callers : pc[c] = "checking"

JobMoves == job' = job \/ GoesStale \/ Creates \/ Reviews \/ Settles

LEMMA EvolvedFields ==
    ASSUME NEW j \in Job, NEW l
    PROVE  /\ Evolved(j, l).lifecycle = l
           /\ Evolved(j, l).revision = j.revision + 1
           /\ Evolved(j, l).candidate_plan = j.candidate_plan
           /\ Evolved(j, l).preview = j.preview
           /\ Evolved(j, l).execution_authorization = j.execution_authorization
           /\ Evolved(j, l).destination_reservation = j.destination_reservation
BY DEF Evolved, Job

LEMMA FirstReviewFields ==
    ASSUME NEW j \in Job
    PROVE  FirstReview(j).lifecycle = "reviewing"
BY DEF FirstReview, Evolved, Job

LEMMA ReservedFields ==
    ASSUME NEW j \in Job, NEW request
    PROVE  /\ Reserved(j, request).lifecycle = "revising"
           /\ Reserved(j, request).preview = j.preview
BY DEF Reserved, Evolved, Job

LEMMA ResolvedFields ==
    ASSUME NEW j \in Job, NEW turn, NEW outcome
    PROVE  Resolved(j, turn, outcome).lifecycle \in {"reviewing", "revision_failed"}
BY DEF Resolved, Evolved, Job

LEMMA AuthorizedFields ==
    ASSUME NEW j \in Job, NEW rev, NEW preview, NEW key
    PROVE  Authorized(j, rev, preview, key).lifecycle = "executing"
BY DEF Authorized, ReservationOf, Evolved, Job

LEMMA ConcludedFields ==
    ASSUME NEW j \in Job
    PROVE  /\ Concluded(j).lifecycle = "verified"
           /\ Concluded(j).revision = j.revision + 1
           /\ Concluded(j).preview = j.preview
           /\ Concluded(j).execution_authorization = j.execution_authorization
           /\ Concluded(j).destination_reservation = j.destination_reservation
BY DEF Concluded, Evolved, Job

LEMMA StaleFields ==
    ASSUME NEW j \in Job
    PROVE  /\ StaleSuccessor(j).lifecycle = "stale"
           /\ StaleSuccessor(j).revision = j.revision + 1
           /\ StaleSuccessor(j).preview = j.preview
           /\ StaleSuccessor(j).destination_reservation = j.destination_reservation
BY DEF StaleSuccessor, Evolved, Job

\* Where an execution cannot be left for the review again.
LEMMA NoWayBack ==
    ASSUME NEW j, NEW s, WriterAdmits(j, s)
    PROVE  /\ j.lifecycle = "executing" => s.lifecycle \in {"verified", "stale", "blocked"}
           /\ s.lifecycle = "executing" => j.lifecycle = "reviewing"
           /\ s.lifecycle = "verified" => j.lifecycle = "executing"
           /\ j.lifecycle \notin Terminal \cup {"absent"}
BY DEF WriterAdmits, Transitions, Terminal

LEMMA ShownTyped ==
    ASSUME TypeOK
    PROVE  Shown \subseteq Preview
<1> DEFINE b == job.revision_mutation_bindings
           k == job.keep_previous_actions
<1>1. b \in Seq(Binding) /\ k \in Seq(KeepAction) /\ job.preview \in Preview \cup {None}
  BY DEF TypeOK, Job
<1> HIDE DEF b, k
<1>2. ASSUME NEW i \in DOMAIN b
      PROVE  b[i].request.base \in Preview
  <2>1. b[i] \in Binding
    BY <1>1
  <2> QED
    BY <2>1 DEF Binding, Instruction
<1>3. ASSUME NEW i \in DOMAIN k
      PROVE  k[i].base \in Preview
  <2>1. k[i] \in KeepAction
    BY <1>1
  <2> QED
    BY <2>1 DEF KeepAction
<1> QED
  BY <1>1, <1>2, <1>3 DEF Shown, b, k

LEMMA SaveMoves ==
    ASSUME JobOK, NEW s, Save(s),
           WriterAdmits(job, s) /\ CompleteAuthority(s) =>
               /\ s \in Job
               /\ s.lifecycle \in
                    {"reviewing", "revising", "revision_failed", "executing", "blocked"}
               /\ s.lifecycle = "revising" => s.preview = job.preview
               /\ s.lifecycle = "blocked" => s = Evolved(job, "blocked"),
           job.lifecycle = "executing" => s = Evolved(job, "blocked")
    PROVE  JobMoves
<1>1. Goes(s)
  BY SaveGoes
<1>2. CASE job' = job \/ GoesStale
  BY <1>2 DEF JobMoves
<1>3. CASE job' = s /\ WriterAdmits(job, s) /\ CompleteAuthority(s)
  <2>1. CASE job.lifecycle = "executing"
    BY <1>3, <2>1 DEF JobMoves, Settles
  <2>2. CASE job.lifecycle # "executing"
    BY <1>3, <2>2 DEF JobMoves, Reviews
  <2> QED
    BY <2>1, <2>2
<1> QED
  BY <1>1, <1>2, <1>3 DEF Goes

LEMMA PrepareStartMoves ==
    ASSUME NEW c \in Callers, PrepareStart(c)
    PROVE  JobMoves
BY AuthoritiesAssumption DEF PrepareStart, JobMoves, Creates

LEMMA PrepareFinishMoves ==
    ASSUME JobOK, NEW c \in Callers, PrepareFinish(c)
    PROVE  JobMoves
<1>1. CASE Fresh /\ job.lifecycle \in PreReview
  <2>1. Save(FirstReview(job)) /\ job.lifecycle # "executing"
    BY <1>1 DEF PrepareFinish, PreReview
  <2>2. FirstReview(job) \in Job /\ FirstReview(job).lifecycle = "reviewing"
    BY FirstReviewType, FirstReviewFields DEF JobOK
  <2> QED
    BY <2>1, <2>2, SaveMoves
<1>2. CASE ~(Fresh /\ job.lifecycle \in PreReview)
  BY <1>2, ReloadGoes DEF PrepareFinish, JobMoves
<1> QED
  BY <1>1, <1>2

LEMMA PrepareFailMoves ==
    ASSUME JobOK, NEW c \in Callers, PrepareFail(c)
    PROVE  JobMoves
<1>1. CASE Fresh /\ job = seen[c]
  <2>1. Save(Evolved(job, "blocked"))
    BY <1>1 DEF PrepareFail
  <2>2. Evolved(job, "blocked") \in Job /\ Evolved(job, "blocked").lifecycle = "blocked"
    BY EvolvedType, EvolvedFields DEF JobOK, Lifecycle, Terminal
  <2> QED
    BY <2>1, <2>2, SaveMoves
<1>2. CASE ~(Fresh /\ job = seen[c])
  BY <1>2, ReloadGoes DEF PrepareFail, JobMoves
<1> QED
  BY <1>1, <1>2

LEMMA ReserveTurnMoves ==
    ASSUME TypeOK, JobOK, NEW c \in Callers, ReserveTurn(c)
    PROVE  JobMoves
<1> DEFINE s == Reserved(job, req[c])
<1>1. req[c] \in Instruction \cup {None}
  BY DEF TypeOK
<1>2. Save(s) /\ Saves(job, s, Changed, Promoted)
  BY DEF ReserveTurn
<1>3. CompleteAuthority(s) /\ WriterAdmits(job, s)
  BY <1>2 DEF Saves
<1>4. s \in Job
  BY <1>1, <1>3, ReservedType DEF JobOK
<1>5. s.lifecycle = "revising" /\ s.preview = job.preview
  BY ReservedFields DEF JobOK
<1>6. job.lifecycle # "executing"
  BY <1>3, <1>5, NoWayBack
<1> HIDE DEF s
<1> QED
  BY <1>2, <1>4, <1>5, <1>6, SaveMoves

LEMMA ResolveMoves ==
    ASSUME JobOK, NEW turn, NEW outcome \in Outcome,
           job.pending_revision_turn # None => turn = job.pending_revision_turn,
           Save(Resolved(job, turn, outcome))
    PROVE  JobMoves
<1> DEFINE s == Resolved(job, turn, outcome)
<1>1. s.lifecycle \in {"reviewing", "revision_failed"}
  BY ResolvedFields DEF JobOK
<1>2. ASSUME WriterAdmits(job, s), CompleteAuthority(s)
      PROVE  s \in Job
  <2>1. job.pending_revision_turn # None
    <3>1. s.revision_mutation_bindings # job.revision_mutation_bindings
      BY DEF Resolved, Evolved, JobOK, Job
    <3> QED
      BY <1>2, <3>1 DEF WriterAdmits, BindingHistory, Appends
  <2>2. turn \in Turn
    BY <2>1 DEF JobOK, Job
  <2> QED
    BY <1>2, <2>2, ResolvedType DEF JobOK
<1>3. job.lifecycle = "executing" => ~WriterAdmits(job, s)
  BY <1>1, NoWayBack
<1> HIDE DEF s
<1>4. Goes(s)
  BY SaveGoes DEF s
<1>5. CASE job' = job \/ GoesStale
  BY <1>5 DEF JobMoves
<1>6. CASE job' = s /\ WriterAdmits(job, s) /\ CompleteAuthority(s)
  BY <1>1, <1>2, <1>3, <1>6 DEF JobMoves, Reviews
<1> QED
  BY <1>4, <1>5, <1>6 DEF Goes

LEMMA ProviderAnswersMoves ==
    ASSUME JobOK, NEW c \in Callers, NEW outcome \in Outcome, ProviderAnswers(c, outcome)
    PROVE  JobMoves
<1>1. CASE Unmoved(c)
  BY <1>1, ResolveMoves DEF ProviderAnswers, Unmoved
<1>2. CASE ~Unmoved(c)
  BY <1>2, ReloadGoes DEF ProviderAnswers, JobMoves
<1> QED
  BY <1>1, <1>2

LEMMA RecoverRevisionMoves ==
    ASSUME JobOK, NEW c \in Callers, RecoverRevision(c)
    PROVE  JobMoves
<1>1. CASE Unmoved(c)
  BY <1>1, ResolveMoves DEF RecoverRevision, Outcome
<1>2. CASE ~Unmoved(c)
  BY <1>2, ReloadGoes DEF RecoverRevision, JobMoves
<1> QED
  BY <1>1, <1>2

LEMMA KeepPreviousMoves ==
    ASSUME TypeOK, JobOK, NEW c \in Callers, NEW rev \in Nat, NEW preview \in Preview,
           NEW key \in Keys, KeepPrevious(c, rev, preview, key)
    PROVE  JobMoves
<1> DEFINE s == [Evolved(job, "reviewing") EXCEPT
                    !.preview = [@ EXCEPT !.rev = job.revision + 1],
                    !.revision_failure = FALSE,
                    !.keep_previous_actions =
                        Append(@, [key |-> key, rev |-> rev, base |-> preview])]
<1>1. Save(s) /\ job.preview # None /\ job.lifecycle = "revision_failed"
  BY DEF KeepPrevious, ExactReviewRequest
<1>2. s \in Job
  BY <1>1, KeptType DEF JobOK
<1>3. s.lifecycle = "reviewing"
  BY DEF JobOK, Evolved, Job
<1> HIDE DEF s
<1> QED
  BY <1>1, <1>2, <1>3, SaveMoves

LEMMA AcceptMoves ==
    ASSUME JobOK, NEW c \in Callers, NEW rev \in Nat, NEW preview \in Preview,
           NEW key \in Keys, Accept(c, rev, preview, key)
    PROVE  JobMoves
<1> DEFINE s == Authorized(job, rev, preview, key)
<1>1. Save(s) /\ job.preview # None /\ job.lifecycle = "reviewing"
  BY DEF Accept, ExactReviewRequest
<1>2. s \in Job /\ s.lifecycle = "executing"
  BY <1>1, AuthorizedType, AuthorizedFields DEF JobOK
<1> HIDE DEF s
<1> QED
  BY <1>1, <1>2, SaveMoves

LEMMA RecordVerifiedMoves ==
    ASSUME JobOK, NEW c \in Callers, RecordVerified(c)
    PROVE  JobMoves
<1>1. Save(Concluded(job))
  BY DEF RecordVerified, Concluded
<1>2. Concluded(job) \in Job /\ Concluded(job).lifecycle = "verified"
  BY ConcludedType, ConcludedFields DEF JobOK, Concluded
<1>3. Goes(Concluded(job))
  BY <1>1, SaveGoes
<1>4. WriterAdmits(job, Concluded(job)) => job.lifecycle = "executing"
  BY <1>2, NoWayBack
<1>5. pc[c] = "checking"
  BY DEF RecordVerified, At
<1> QED
  BY <1>2, <1>3, <1>4, <1>5 DEF Goes, JobMoves, Settles

LEMMA RecordFailureMoves ==
    ASSUME JobOK, NEW c \in Callers, RecordFailure(c)
    PROVE  JobMoves
<1>1. Save(Evolved(job, "blocked"))
  BY DEF RecordFailure
<1>2. Evolved(job, "blocked") \in Job /\ Evolved(job, "blocked").lifecycle = "blocked"
  BY EvolvedType, EvolvedFields DEF JobOK, Lifecycle, Terminal
<1> QED
  BY <1>1, <1>2, SaveMoves

LEMMA LoadMoves ==
    ASSUME NEW c \in Callers, Load(c)
    PROVE  JobMoves
BY ReloadGoes DEF Load, JobMoves

\* Every other step leaves the record alone.
LEMMA StepMoves ==
    ASSUME TypeOK, JobOK, [Next]_vars
    PROVE  JobMoves
<1>1. CASE \E c \in Callers : Continue(c)
  <2> PICK c \in Callers : Continue(c)
    BY <1>1
  <2>1. CASE PrepareFinish(c) \/ PrepareFail(c) \/ ReserveTurn(c)
    BY <2>1, PrepareFinishMoves, PrepareFailMoves, ReserveTurnMoves
  <2>2. CASE (\E outcome \in Outcome : ProviderAnswers(c, outcome)) \/ RecoverRevision(c)
    BY <2>2, ProviderAnswersMoves, RecoverRevisionMoves
  <2>3. CASE RecordVerified(c) \/ RecordFailure(c)
    BY <2>3, RecordVerifiedMoves, RecordFailureMoves
  <2>4. CASE ReserveRaises(c) \/ AnswerLost(c) \/ BeginCopy(c) \/ RecoverPromoted(c)
              \/ CannotStart(c) \/ FinishStaging(c) \/ StagingFails(c)
    BY <2>4 DEF JobMoves, ReserveRaises, AnswerLost, BeginCopy, RecoverPromoted,
                CannotStart, FinishStaging, StagingFails
  <2>5. CASE FinalChecks(c) \/ FinalChecksFail(c) \/ Promote(c) \/ PromotionRefused(c)
              \/ VerificationFails(c)
    BY <2>5 DEF JobMoves, FinalChecks, FinalChecksFail, Promote, PromotionRefused,
                VerificationFails
  <2> QED
    BY <2>1, <2>2, <2>3, <2>4, <2>5 DEF Continue
<1>2. CASE \E c \in Callers : Request(c)
  <2> PICK c \in Callers : Request(c)
    BY <1>2
  <2>1. CASE PrepareStart(c)
    BY <2>1, PrepareStartMoves
  <2>2. CASE \E shown \in Shown, key \in Keys :
                \E rev \in { p.rev : p \in Shown } :
                    \/ \E text \in Texts :
                        Revise(c, rev, [key |-> key, text |-> text, base |-> shown])
                    \/ KeepPrevious(c, rev, shown, key)
                    \/ Accept(c, rev, shown, key)
                    \/ AcceptAgain(c, rev, shown, key)
    <3> PICK shown \in Shown, key \in Keys, rev \in { p.rev : p \in Shown } :
                    \/ \E text \in Texts :
                        Revise(c, rev, [key |-> key, text |-> text, base |-> shown])
                    \/ KeepPrevious(c, rev, shown, key)
                    \/ Accept(c, rev, shown, key)
                    \/ AcceptAgain(c, rev, shown, key)
      BY <2>2
    <3>1. shown \in Preview /\ rev \in Nat
      BY ShownTyped DEF Preview
    <3>2. CASE \E text \in Texts :
                Revise(c, rev, [key |-> key, text |-> text, base |-> shown])
      BY <3>2 DEF Revise, JobMoves
    <3>3. CASE KeepPrevious(c, rev, shown, key)
      BY <3>1, <3>3, KeepPreviousMoves
    <3>4. CASE Accept(c, rev, shown, key)
      BY <3>1, <3>4, AcceptMoves
    <3>5. CASE AcceptAgain(c, rev, shown, key)
      BY <3>5 DEF AcceptAgain, TakeOverExecution, JobMoves
    <3> QED
      BY <3>2, <3>3, <3>4, <3>5
  <2> QED
    BY <2>1, <2>2 DEF Request
<1>3. CASE \E c \in Callers : Restart(c) \/ Crash(c)
  <2> PICK c \in Callers : Restart(c) \/ Crash(c)
    BY <1>3
  <2>1. CASE Load(c)
    BY <2>1, LoadMoves
  <2>2. CASE RecoverInspect(c) \/ ResumeExecution(c) \/ Crash(c)
    BY <2>2 DEF JobMoves, RecoverInspect, ResumeExecution, TakeOverExecution, Crash
  <2> QED
    BY <2>1, <2>2 DEF Restart
<1>4. CASE InputChanges \/ StrangerTakesFinal
  BY <1>4 DEF JobMoves, InputChanges, StrangerTakesFinal
<1>5. CASE UNCHANGED vars
  BY <1>5 DEF JobMoves, vars
<1> QED
  BY <1>1, <1>2, <1>3, <1>4, <1>5 DEF Next
----------------------------------------------------------------------------
(***************************************************************************)
(* Type correctness, together with the validity of the record.             *)
(***************************************************************************)
LEMMA JobMovesOK ==
    ASSUME JobOK, JobMoves
    PROVE  JobOK'
<1>1. CASE job' = job
  BY <1>1 DEF JobOK
<1>2. CASE GoesStale
  BY <1>2, StaleSuccessorType DEF GoesStale, JobOK
<1>3. CASE Creates
  BY <1>3, NewJobValid DEF Creates, JobOK
<1>4. CASE Reviews \/ Settles
  BY <1>4 DEF Reviews, Settles, JobOK
<1> QED
  BY <1>1, <1>2, <1>3, <1>4 DEF JobMoves

\* Everything but the record.
ControlOK ==
    /\ lock \in Callers \cup {None}
    /\ pc \in [Callers -> Step]
    /\ seen \in [Callers -> Job \cup {None}]
    /\ req \in [Callers -> Instruction \cup {None}]
    /\ pending \in [state: {"absent", "partial", "complete"}, plan: Plan]
    /\ final \in [owner: {"nobody", "stranger", "job"}, plan: Plan]
    /\ source \in BOOLEAN
    /\ changeFile \in BOOLEAN
    /\ calls \in [Keys -> Nat]
    /\ crashes \in 0 .. MaxCrashes
    /\ failures \in 0 .. MaxFailures
    /\ changes \in 0 .. MaxChanges

LEMMA ReturnTyped ==
    ASSUME ControlOK, NEW c \in Callers, Return(c)
    PROVE  /\ pc' \in [Callers -> Step]
           /\ seen' \in [Callers -> Job \cup {None}]
           /\ req' \in [Callers -> Instruction \cup {None}]
BY DEF ControlOK, Return, Goto, Step

LEMMA FaultTyped ==
    ASSUME ControlOK, Fault
    PROVE  /\ crashes' \in 0 .. MaxCrashes
           /\ failures' \in 0 .. MaxFailures
           /\ changes' \in 0 .. MaxChanges
BY BoundsAssumption DEF ControlOK, Fault

\* Handlers that end with this step and write no directory.
LEMMA EndingTyped ==
    ASSUME ControlOK, NEW c \in Callers, Return(c),
           lock' = lock \/ lock' = None,
           UNCHANGED <<disk, inputs, calls>>,
           UNCHANGED bounds \/ Fault
    PROVE  ControlOK'
BY ReturnTyped, FaultTyped DEF ControlOK, disk, inputs, bounds

\* Handlers that go on, and keep the record they compare with.
LEMMA GoingTyped ==
    ASSUME ControlOK, NEW c \in Callers, NEW s \in Step, Goto(c, s),
           lock' = lock \/ lock' = c,
           UNCHANGED <<seen, req, inputs, calls>>,
           pending' \in [state: {"absent", "partial", "complete"}, plan: Plan],
           final' \in [owner: {"nobody", "stranger", "job"}, plan: Plan],
           UNCHANGED bounds \/ Fault
    PROVE  ControlOK'
BY FaultTyped DEF ControlOK, Goto, inputs, bounds

----------------------------------------------------------------------------
(***************************************************************************)
(* The lock: whoever is inside holds it, and while a copy runs the record  *)
(* says executing.                                                         *)
(***************************************************************************)
LockHeld == \A c \in Callers : pc[c] \in Locked => lock = c

LEMMA NobodyInside ==
    ASSUME LockHeld, lock = None
    PROVE  \A c \in Callers : pc[c] \notin Locked
BY CallersAssumption DEF LockHeld

LEMMA OneInside ==
    ASSUME LockHeld, NEW c \in Callers, pc[c] \in Locked, NEW d \in Callers, d # c
    PROVE  pc[d] \notin Locked /\ lock = c
BY DEF LockHeld

\* The four ways a step can move its caller with respect to the lock.
Outside(c) ==
    /\ lock' = lock
    /\ pc[c] \notin Locked
    /\ \E s \in Step : Goto(c, s) /\ s \notin Locked
    /\ job' = job \/ lock = None

Enters(c) ==
    /\ lock = None
    /\ lock' = c
    /\ \E s \in Step : Goto(c, s) /\ (s \in Executing => job'.lifecycle = "executing")

Within(c) ==
    /\ lock' = lock
    /\ pc[c] \in Executing
    /\ \E s \in Step : Goto(c, s) /\ s \in Executing
    /\ job' = job

Leaves(c) ==
    /\ pc[c] \in Locked
    /\ lock' = None
    /\ \E s \in Step : Goto(c, s) /\ s \notin Locked

Stays == lock' = lock /\ pc' = pc /\ (job' = job \/ lock = None)

LockMoves == Stays \/ \E c \in Callers : Outside(c) \/ Enters(c) \/ Within(c) \/ Leaves(c)

LEMMA ContinueLocks ==
    ASSUME ControlOK, LockHeld, NEW c \in Callers, Continue(c)
    PROVE  LockMoves
<1> USE DEF At, Step, Locked, Executing
<1>1. CASE PrepareFinish(c) \/ PrepareFail(c) \/ AnswerLost(c) \/ RecoverRevision(c)
            \/ \E outcome \in Outcome : ProviderAnswers(c, outcome)
  BY <1>1 DEF PrepareFinish, PrepareFail, AnswerLost, RecoverRevision, ProviderAnswers,
              LockMoves, Outside, Return
<1>2. CASE ReserveTurn(c) \/ ReserveRaises(c) \/ RecordVerified(c) \/ RecordFailure(c)
  BY <1>2 DEF ReserveTurn, ReserveRaises, RecordVerified, RecordFailure,
              LockMoves, Leaves, Return
<1>3. CASE BeginCopy(c) \/ RecoverPromoted(c) \/ CannotStart(c) \/ FinishStaging(c)
            \/ StagingFails(c)
  BY <1>3 DEF BeginCopy, RecoverPromoted, CannotStart, FinishStaging, StagingFails,
              LockMoves, Within
<1>4. CASE FinalChecks(c) \/ FinalChecksFail(c) \/ Promote(c) \/ PromotionRefused(c)
            \/ VerificationFails(c)
  BY <1>4 DEF FinalChecks, FinalChecksFail, Promote, PromotionRefused, VerificationFails,
              LockMoves, Within
<1> QED
  BY <1>1, <1>2, <1>3, <1>4 DEF Continue

LEMMA AcceptLocks ==
    ASSUME JobOK, NEW c \in Callers, NEW rev, NEW preview, NEW key,
           Accept(c, rev, preview, key)
    PROVE  Enters(c)
<1>1. ~Changed
  BY DEF Accept, Fresh, StillCurrent, Terminal
<1>2. job' = Authorized(job, rev, preview, key)
  BY <1>1 DEF Accept, Save, Saved, Overtaken
<1>3. job'.lifecycle = "executing"
  BY <1>2, AuthorizedFields DEF JobOK
<1> QED
  BY <1>3 DEF Accept, Enters, Free, Step, Locked, Executing

LEMMA TakeOverLocks ==
    ASSUME NEW c \in Callers, TakeOverExecution(c)
    PROVE  Enters(c)
BY DEF TakeOverExecution, Enters, Free, Step, Locked, Executing

LEMMA RequestLocks ==
    ASSUME ControlOK, JobOK, NEW c \in Callers, Request(c)
    PROVE  LockMoves
<1>1. CASE PrepareStart(c)
  BY <1>1 DEF PrepareStart, LockMoves, Outside, Free, Step, Locked, Executing
<1>2. ASSUME NEW rev, NEW shown, NEW key, NEW text,
             Revise(c, rev, [key |-> key, text |-> text, base |-> shown])
      PROVE  LockMoves
  BY <1>2 DEF Revise, LockMoves, Enters, Free, Step, Locked, Executing
<1>3. ASSUME NEW rev, NEW shown, NEW key, KeepPrevious(c, rev, shown, key)
      PROVE  LockMoves
  BY <1>3 DEF KeepPrevious, LockMoves, Stays, Free
<1>4. ASSUME NEW rev, NEW shown, NEW key,
             Accept(c, rev, shown, key) \/ AcceptAgain(c, rev, shown, key)
      PROVE  LockMoves
  BY <1>4, AcceptLocks, TakeOverLocks DEF AcceptAgain, LockMoves
<1> QED
  BY <1>1, <1>2, <1>3, <1>4 DEF Request

LEMMA RestartLocks ==
    ASSUME ControlOK, NEW c \in Callers, Restart(c)
    PROVE  LockMoves
<1>1. CASE Load(c)
  BY <1>1 DEF Load, LockMoves, Stays, Free
<1>2. CASE RecoverInspect(c)
  BY <1>2 DEF RecoverInspect, LockMoves, Outside, Step, Locked, Executing
<1>3. CASE ResumeExecution(c)
  BY <1>3, TakeOverLocks DEF ResumeExecution, LockMoves
<1> QED
  BY <1>1, <1>2, <1>3 DEF Restart

LEMMA LockMovesKeep ==
    ASSUME ControlOK, LockHeld, ExecutionIsExclusive, LockMoves
    PROVE  LockHeld' /\ ExecutionIsExclusive'
<1>1. CASE Stays
  <2>1. LockHeld'
    BY <1>1 DEF Stays, LockHeld
  <2>2. ExecutionIsExclusive'
    BY <1>1, NobodyInside DEF Stays, ExecutionIsExclusive, Locked
  <2> QED
    BY <2>1, <2>2
<1>2. ASSUME NEW c \in Callers, Outside(c)
      PROVE  LockHeld' /\ ExecutionIsExclusive'
  <2> PICK s \in Step : Goto(c, s) /\ s \notin Locked
    BY <1>2 DEF Outside
  <2>1. pc' = [pc EXCEPT ![c] = s]
    BY DEF Goto
  <2>2. LockHeld'
    BY <1>2, <2>1 DEF Outside, LockHeld, ControlOK
  <2>3. ExecutionIsExclusive'
    BY <1>2, <2>1, NobodyInside DEF Outside, ExecutionIsExclusive, ControlOK, Locked
  <2> QED
    BY <2>2, <2>3
<1>3. ASSUME NEW c \in Callers, Enters(c)
      PROVE  LockHeld' /\ ExecutionIsExclusive'
  <2> PICK s \in Step : Goto(c, s) /\ (s \in Executing => job'.lifecycle = "executing")
    BY <1>3 DEF Enters
  <2>1. pc' = [pc EXCEPT ![c] = s]
    BY DEF Goto
  <2>2. \A d \in Callers : pc[d] \notin Locked
    BY <1>3, NobodyInside DEF Enters
  <2> QED
    BY <1>3, <2>1, <2>2 DEF Enters, LockHeld, ExecutionIsExclusive, ControlOK, Locked
<1>4. ASSUME NEW c \in Callers, Within(c)
      PROVE  LockHeld' /\ ExecutionIsExclusive'
  <2> PICK s \in Step : Goto(c, s) /\ s \in Executing
    BY <1>4 DEF Within
  <2>1. pc' = [pc EXCEPT ![c] = s]
    BY DEF Goto
  <2> QED
    BY <1>4, <2>1 DEF Within, LockHeld, ExecutionIsExclusive, ControlOK, Locked
<1>5. ASSUME NEW c \in Callers, Leaves(c)
      PROVE  LockHeld' /\ ExecutionIsExclusive'
  <2> PICK s \in Step : Goto(c, s) /\ s \notin Locked
    BY <1>5 DEF Leaves
  <2>1. pc' = [pc EXCEPT ![c] = s]
    BY DEF Goto
  <2>2. \A d \in Callers : d # c => pc[d] \notin Locked
    BY <1>5, OneInside DEF Leaves
  <2>3. \A d \in Callers : pc'[d] \notin Locked
    BY <2>1, <2>2 DEF ControlOK
  <2> QED
    BY <2>3 DEF LockHeld, ExecutionIsExclusive, Locked
<1> QED
  BY <1>1, <1>2, <1>3, <1>4, <1>5 DEF LockMoves

LEMMA LockStep ==
    ASSUME ControlOK, JobOK, LockHeld, ExecutionIsExclusive, [Next]_vars
    PROVE  LockHeld' /\ ExecutionIsExclusive'
<1>1. CASE \E c \in Callers : Continue(c) \/ Request(c) \/ Restart(c)
  BY <1>1, ContinueLocks, RequestLocks, RestartLocks, LockMovesKeep
<1>2. ASSUME NEW c \in Callers, Crash(c)
      PROVE  LockHeld' /\ ExecutionIsExclusive'
  <2>1. pc' = [pc EXCEPT ![c] = "idle"] /\ job' = job
    BY <1>2 DEF Crash, Return, Goto
  <2>2. \A d \in Callers : d # c /\ lock = d => lock' = d
    BY <1>2 DEF Crash
  <2> QED
    BY <2>1, <2>2 DEF LockHeld, ExecutionIsExclusive, ControlOK, Locked, Executing
<1>3. CASE InputChanges \/ StrangerTakesFinal \/ UNCHANGED vars
  BY <1>3 DEF InputChanges, StrangerTakesFinal, vars, LockHeld, ExecutionIsExclusive
<1> QED
  BY <1>1, <1>2, <1>3 DEF Next
----------------------------------------------------------------------------
(***************************************************************************)
(* Every step keeps everything typed.                                      *)
(***************************************************************************)
LEMMA ControlStep ==
    ASSUME TypeOK, JobOK, ExecutionIsExclusive, [Next]_vars
    PROVE  ControlOK'
<1> ControlOK
  BY DEF TypeOK, ControlOK
<1>1. job' \in Job
  BY StepMoves, JobMovesOK DEF JobOK
<1>2. ASSUME NEW c \in Callers, Continue(c)
      PROVE  ControlOK'
  <2>1. CASE PrepareFinish(c) \/ PrepareFail(c) \/ ReserveRaises(c) \/ AnswerLost(c)
              \/ RecoverRevision(c) \/ RecordVerified(c) \/ RecordFailure(c)
    BY <2>1, EndingTyped DEF PrepareFinish, PrepareFail, ReserveRaises, AnswerLost,
       RecoverRevision, RecordVerified, RecordFailure, disk, inputs, bounds
  <2>2. CASE \E outcome \in Outcome : ProviderAnswers(c, outcome)
    BY <2>2, EndingTyped DEF ProviderAnswers, disk, inputs, bounds
  <2>3. CASE ReserveTurn(c)
    <3>1. req[c] \in Instruction
      <4>1. CompleteAuthority(Reserved(job, req[c]))
        BY <2>3 DEF ReserveTurn, Saves
      <4>2. Reserved(job, req[c]).lifecycle = "revising"
        BY ReservedFields DEF JobOK
      <4>3. Reserved(job, req[c]).revision_instruction = req[c]
        BY DEF Reserved, Evolved, JobOK, Job
      <4>4. req[c] # None
        BY <4>1, <4>2, <4>3 DEF CompleteAuthority, RevisionTurnAuthority, PendingTurn
      <4> QED
        BY <4>4 DEF ControlOK
    <3>2. calls' \in [Keys -> Nat]
      BY <2>3, <3>1 DEF ReserveTurn, ControlOK, Instruction
    <3> QED
      BY <1>1, <2>3, <3>2 DEF ReserveTurn, ControlOK, Goto, Step, disk, inputs, bounds
  <2>4. CASE BeginCopy(c)
    <3>1. job.lifecycle = "executing"
      BY <2>4 DEF BeginCopy, At, ExecutionIsExclusive, Executing
    <3>2. job.candidate_plan \in Plan
      BY <3>1 DEF JobOK, CompleteAuthority, LifecycleAuthority, AuthorizedExecution, Job
    <3>3. pending' \in [state: {"absent", "partial", "complete"}, plan: Plan]
      BY <2>4, <3>2 DEF BeginCopy
    <3>4. final' \in [owner: {"nobody", "stranger", "job"}, plan: Plan]
      BY <2>4 DEF BeginCopy, ControlOK
    <3>5. "copying" \in Step
      BY DEF Step, Locked, Executing
    <3> QED
      BY <2>4, <3>3, <3>4, <3>5, GoingTyped DEF BeginCopy, inputs, bounds
  <2>5. CASE RecoverPromoted(c) \/ CannotStart(c) \/ FinalChecks(c) \/ FinalChecksFail(c)
              \/ PromotionRefused(c) \/ VerificationFails(c)
    <3>1. /\ pending' \in [state: {"absent", "partial", "complete"}, plan: Plan]
          /\ final' \in [owner: {"nobody", "stranger", "job"}, plan: Plan]
      BY <2>5 DEF RecoverPromoted, CannotStart, FinalChecks, FinalChecksFail,
         PromotionRefused, VerificationFails, disk, ControlOK
    <3>2. {"checking", "failing", "promoting"} \subseteq Step
      BY DEF Step, Locked, Executing
    <3> QED
      BY <2>5, <3>1, <3>2, GoingTyped DEF RecoverPromoted, CannotStart, FinalChecks,
         FinalChecksFail, PromotionRefused, VerificationFails, disk, inputs, bounds
  <2>6. CASE FinishStaging(c) \/ StagingFails(c) \/ Promote(c)
    <3>1. /\ pending' \in [state: {"absent", "partial", "complete"}, plan: Plan]
          /\ final' \in [owner: {"nobody", "stranger", "job"}, plan: Plan]
      BY <2>6, MaxRevisionsAssumption DEF FinishStaging, StagingFails, Promote,
         NoTree, ControlOK, Plan
    <3>2. {"checking", "failing", "finalized"} \subseteq Step
      BY DEF Step, Locked, Executing
    <3> QED
      BY <2>6, <3>1, <3>2, GoingTyped DEF FinishStaging, StagingFails, Promote,
         disk, inputs, bounds
  <2> QED
    BY <1>2, <2>1, <2>2, <2>3, <2>4, <2>5, <2>6 DEF Continue
<1>3. ASSUME NEW c \in Callers, Request(c)
      PROVE  ControlOK'
  <2>1. CASE PrepareStart(c)
    BY <1>1, <2>1 DEF PrepareStart, ControlOK, Goto, Step, disk, inputs, bounds
  <2>2. ASSUME NEW shown \in Shown, NEW key \in Keys, NEW text \in Texts, NEW rev,
               Revise(c, rev, [key |-> key, text |-> text, base |-> shown])
        PROVE  ControlOK'
    <3>1. [key |-> key, text |-> text, base |-> shown] \in Instruction
      BY ShownTyped DEF Instruction
    <3>2. req' \in [Callers -> Instruction \cup {None}]
      BY <2>2, <3>1 DEF Revise, ControlOK
    <3> QED
      BY <2>2, <3>2 DEF Revise, ControlOK, Goto, Step, Locked, disk, inputs, bounds
  <2>3. ASSUME NEW shown, NEW key, NEW rev, KeepPrevious(c, rev, shown, key)
        PROVE  ControlOK'
    BY <2>3 DEF KeepPrevious, ControlOK, disk, inputs, bounds
  <2>4. ASSUME NEW shown, NEW key, NEW rev, Accept(c, rev, shown, key)
        PROVE  ControlOK'
    BY <2>4 DEF Accept, ControlOK, Goto, Step, Locked, Executing, disk, inputs, bounds
  <2>5. ASSUME NEW shown, NEW key, NEW rev, AcceptAgain(c, rev, shown, key)
        PROVE  ControlOK'
    BY <2>5 DEF AcceptAgain, TakeOverExecution, ControlOK, Goto, Step, Locked, Executing,
                disk, inputs, bounds
  <2> QED
    BY <1>3, <2>1, <2>2, <2>3, <2>4, <2>5 DEF Request
<1>4. ASSUME NEW c \in Callers, Restart(c)
      PROVE  ControlOK'
  <2>1. CASE Load(c)
    BY <2>1 DEF Load, ControlOK, disk, inputs, bounds
  <2>2. CASE RecoverInspect(c)
    BY <2>2 DEF RecoverInspect, TypeOK, ControlOK, Goto, Step, disk, inputs, bounds
  <2>3. CASE ResumeExecution(c)
    BY <2>3 DEF ResumeExecution, TakeOverExecution, ControlOK, Goto, Step, Locked, Executing,
                disk, inputs, bounds
  <2> QED
    BY <1>4, <2>1, <2>2, <2>3 DEF Restart
<1>5. ASSUME NEW c \in Callers, Crash(c)
      PROVE  ControlOK'
  <2>1. crashes' \in 0 .. MaxCrashes
    BY <1>5, BoundsAssumption DEF Crash, ControlOK
  <2> QED
    BY <1>5, <2>1, ReturnTyped DEF Crash, ControlOK, disk, inputs
<1>6. CASE InputChanges \/ StrangerTakesFinal
  <2>1. changes' \in 0 .. MaxChanges
    BY <1>6, BoundsAssumption DEF InputChanges, StrangerTakesFinal, ControlOK
  <2>2. final' \in [owner: {"nobody", "stranger", "job"}, plan: Plan]
    BY <1>6, MaxRevisionsAssumption DEF InputChanges, StrangerTakesFinal, ControlOK,
       NoResult, Plan, disk
  <2> QED
    BY <1>6, <2>1, <2>2 DEF InputChanges, StrangerTakesFinal, ControlOK, disk, inputs
<1>7. CASE UNCHANGED vars
  BY <1>7 DEF vars, ControlOK, disk, inputs, bounds
<1> QED
  BY <1>2, <1>3, <1>4, <1>5, <1>6, <1>7 DEF Next

TypeInv == TypeOK /\ JobOK /\ LockHeld /\ ExecutionIsExclusive

LEMMA TypeInvInit ==
    ASSUME Init
    PROVE  TypeInv
<1>1. JobOK
  BY NewJobValid DEF Init, JobOK
<1>2. TypeOK
  BY <1>1, MaxRevisionsAssumption, BoundsAssumption DEF Init, TypeOK, JobOK, Step, NoTree,
     NoResult, Plan
<1>3. LockHeld /\ ExecutionIsExclusive
  BY DEF Init, LockHeld, ExecutionIsExclusive, Locked, Executing
<1> QED
  BY <1>1, <1>2, <1>3 DEF TypeInv

LEMMA TypeInvNext ==
    ASSUME TypeInv, [Next]_vars
    PROVE  TypeInv'
<1>1. ControlOK
  BY DEF TypeInv, TypeOK, ControlOK
<1>2. JobOK' /\ ControlOK'
  BY StepMoves, JobMovesOK, ControlStep DEF TypeInv
<1>3. TypeOK'
  BY <1>2 DEF TypeOK, ControlOK, JobOK
<1>4. LockHeld' /\ ExecutionIsExclusive'
  BY <1>1, LockStep DEF TypeInv
<1> QED
  BY <1>2, <1>3, <1>4 DEF TypeInv

\* Every variable keeps its type and the record on disk is always one that the
\* validator accepts, so that a reload never meets a record it cannot read.
THEOREM TypeCorrect == Spec => [](TypeOK /\ CompleteAuthority(job))
<1>1. TypeInv => TypeOK /\ CompleteAuthority(job)
  BY DEF TypeInv, JobOK
<1> QED
  BY <1>1, TypeInvInit, TypeInvNext, PTL DEF Spec

\* Two callers are never inside the copy transaction of one job, and nobody
\* moves its record while one is.
THEOREM Exclusive == Spec => []ExecutionIsExclusive
<1>1. TypeInv => ExecutionIsExclusive
  BY DEF TypeInv
<1> QED
  BY <1>1, TypeInvInit, TypeInvNext, PTL DEF Spec
-----------------------------------------------------------------------------
(***************************************************************************)
(* The safety properties that relate the record to the directories, the    *)
(* refinement of ExactAcceptance, and the revision turns.                  *)
(***************************************************************************)
SafeInv ==
    /\ TypeInv
    /\ CopyInProgress
    /\ OutputNeedsAcceptance
    /\ ResultIsAuthorized
    /\ VerifiedHasItsResult
----------------------------------------------------------------------------
(***************************************************************************)
(* Who changes what: the directories, a caller's step, a verified record.  *)
(***************************************************************************)
Copies(c) == BeginCopy(c) \/ FinishStaging(c) \/ StagingFails(c) \/ Promote(c)

DiskMoves ==
    \/ UNCHANGED disk
    \/ StrangerTakesFinal
    \/ \E c \in Callers : Copies(c)

LEMMA DiskStep ==
    ASSUME [Next]_vars
    PROVE  DiskMoves
<1>1. ASSUME NEW c \in Callers, Continue(c)
      PROVE  DiskMoves
  <2>1. CASE Copies(c)
    BY <2>1 DEF DiskMoves
  <2>2. CASE PrepareFinish(c) \/ PrepareFail(c) \/ ReserveTurn(c) \/ ReserveRaises(c)
              \/ AnswerLost(c) \/ RecoverRevision(c)
              \/ \E outcome \in Outcome : ProviderAnswers(c, outcome)
    BY <2>2 DEF PrepareFinish, PrepareFail, ReserveTurn, ReserveRaises, AnswerLost,
                RecoverRevision, ProviderAnswers, DiskMoves
  <2>3. CASE RecoverPromoted(c) \/ CannotStart(c) \/ FinalChecks(c) \/ FinalChecksFail(c)
              \/ PromotionRefused(c) \/ RecordVerified(c) \/ VerificationFails(c)
              \/ RecordFailure(c)
    BY <2>3 DEF RecoverPromoted, CannotStart, FinalChecks, FinalChecksFail,
                PromotionRefused, RecordVerified, VerificationFails, RecordFailure,
                DiskMoves
  <2> QED
    BY <1>1, <2>1, <2>2, <2>3 DEF Continue, Copies
<1>2. ASSUME NEW c \in Callers, Request(c)
      PROVE  UNCHANGED disk
  BY <1>2 DEF Request, PrepareStart, Revise, KeepPrevious, Accept, AcceptAgain,
              TakeOverExecution
<1>3. ASSUME NEW c \in Callers, Restart(c) \/ Crash(c)
      PROVE  UNCHANGED disk
  BY <1>3 DEF Restart, Load, RecoverInspect, ResumeExecution, TakeOverExecution, Crash
<1>4. CASE InputChanges \/ StrangerTakesFinal \/ UNCHANGED vars
  BY <1>4 DEF InputChanges, vars, DiskMoves
<1> QED
  BY <1>1, <1>2, <1>3, <1>4 DEF Next, DiskMoves

CopySteps == {"copying", "finalized", "promoting", "checking"}

\* The one step that leads to each of the steps of a copy.
Arrives(c) ==
    \/ BeginCopy(c)
    \/ FinishStaging(c)
    \/ FinalChecks(c)
    \/ Promote(c)
    \/ RecoverPromoted(c)

LEMMA CopyStepsEntered ==
    ASSUME ControlOK, [Next]_vars, NEW d \in Callers, pc'[d] \in CopySteps
    PROVE  pc'[d] = pc[d] \/ Arrives(d)
<1> DEFINE Remains == pc'[d] = pc[d] \/ Arrives(d)
<1>1. ASSUME NEW c \in Callers, NEW s, s \notin CopySteps, Goto(c, s)
      PROVE  Remains
  BY <1>1 DEF Goto, ControlOK
<1>2. ASSUME NEW c \in Callers, Arrives(c)
      PROVE  Remains
  <2>1. \E s : Goto(c, s)
    BY <1>2 DEF Arrives, BeginCopy, FinishStaging, FinalChecks, Promote, RecoverPromoted
  <2> QED
    BY <1>2, <2>1 DEF Goto, ControlOK
<1>3. ASSUME NEW c \in Callers, Return(c)
      PROVE  Remains
  BY <1>1, <1>3 DEF Return, CopySteps
<1>4. ASSUME NEW c \in Callers, Continue(c)
      PROVE  Remains
  <2>1. CASE PrepareFinish(c) \/ PrepareFail(c) \/ ReserveRaises(c) \/ AnswerLost(c)
              \/ RecoverRevision(c) \/ RecordVerified(c) \/ RecordFailure(c)
              \/ \E outcome \in Outcome : ProviderAnswers(c, outcome)
    BY <1>3, <2>1 DEF PrepareFinish, PrepareFail, ReserveRaises, AnswerLost,
       RecoverRevision, RecordVerified, RecordFailure, ProviderAnswers
  <2>2. CASE ReserveTurn(c) \/ CannotStart(c) \/ StagingFails(c) \/ FinalChecksFail(c)
              \/ PromotionRefused(c) \/ VerificationFails(c)
    BY <1>1, <2>2 DEF ReserveTurn, CannotStart, StagingFails, FinalChecksFail,
       PromotionRefused, VerificationFails, CopySteps
  <2>3. CASE Arrives(c)
    BY <1>2, <2>3
  <2> QED
    BY <1>4, <2>1, <2>2, <2>3 DEF Continue, Arrives
<1>5. ASSUME NEW c \in Callers, Request(c)
      PROVE  Remains
  <2>1. \/ UNCHANGED pc
        \/ Goto(c, "preparing")
        \/ Goto(c, "reserving")
        \/ Goto(c, "starting")
    BY <1>5 DEF Request, PrepareStart, Revise, KeepPrevious, Accept, AcceptAgain,
                TakeOverExecution
  <2> QED
    BY <1>1, <2>1 DEF CopySteps
<1>6. ASSUME NEW c \in Callers, Restart(c) \/ Crash(c)
      PROVE  Remains
  <2>1. UNCHANGED pc \/ Goto(c, "recovering") \/ Goto(c, "starting") \/ Return(c)
    BY <1>6 DEF Restart, Load, RecoverInspect, ResumeExecution, TakeOverExecution, Crash
  <2> QED
    BY <1>1, <1>3, <2>1 DEF CopySteps
<1>7. CASE InputChanges \/ StrangerTakesFinal \/ UNCHANGED vars
  BY <1>7 DEF InputChanges, StrangerTakesFinal, vars
<1> QED
  BY <1>4, <1>5, <1>6, <1>7 DEF Next

LEMMA CopyKeepsJob ==
    ASSUME [Next]_vars, ~UNCHANGED disk
    PROVE  job' = job
BY DiskStep DEF DiskMoves, StrangerTakesFinal, Copies, BeginCopy, FinishStaging,
   StagingFails, Promote

\* Whoever changes the pending tree is alone in the copy.
LEMMA OneCopies ==
    ASSUME ExecutionIsExclusive, NEW c \in Callers, Copies(c),
           NEW d \in Callers, pc[d] \in Executing
    PROVE  d = c
BY DEF ExecutionIsExclusive, Copies, BeginCopy, FinishStaging, StagingFails, Promote, At,
   Executing
----------------------------------------------------------------------------
(***************************************************************************)
(* Each part of the invariant is kept.                                     *)
(***************************************************************************)
LEMMA UnmadeStep ==
    ASSUME SafeInv, [Next]_vars, job'.lifecycle = "absent"
    PROVE  job' = job
<1>1. JobMoves
  BY StepMoves DEF SafeInv, TypeInv
<1> QED
  BY <1>1, StaleFields, EvolvedFields, ConcludedFields DEF JobMoves, GoesStale, Creates,
     Reviews, Settles, NewJob, SafeInv, TypeInv, JobOK

LEMMA NewestStep ==
    ASSUME SafeInv, [Next]_vars, job'.preview # None
    PROVE  job'.preview.rev <= job'.revision
<1>1. JobMoves /\ JobOK /\ JobOK'
  BY StepMoves, JobMovesOK DEF SafeInv, TypeInv
<1>2. job.preview # None => job.preview.rev <= job.revision
  BY DEF SafeInv, CopyInProgress
<1>3. /\ job.revision \in Nat /\ (job.preview # None => job.preview.rev \in Nat)
      /\ job'.revision \in Nat
  BY <1>1 DEF JobOK, Job, Preview
<1>4. CASE job' = job
  BY <1>2, <1>4
<1>5. CASE GoesStale
  BY <1>1, <1>2, <1>3, <1>5, StaleFields DEF GoesStale, JobOK
<1>6. CASE Creates
  BY <1>6 DEF Creates, NewJob
<1>7. CASE Settles
  BY <1>1, <1>2, <1>3, <1>7, EvolvedFields, ConcludedFields DEF Settles, JobOK
<1>8. CASE Reviews
  <2>1. job'.revision = job.revision + 1
    BY <1>8 DEF Reviews, WriterAdmits
  <2>2. CASE job'.lifecycle \in {"reviewing", "revision_failed"}
    BY <1>1, <1>3, <2>2 DEF JobOK, CompleteAuthority, LifecycleAuthority
  <2>3. CASE job'.lifecycle = "revising" \/ job'.lifecycle = "blocked"
    BY <1>1, <1>2, <1>3, <1>8, <2>1, <2>3, EvolvedFields DEF Reviews, JobOK
  <2>4. CASE job'.lifecycle = "executing"
    <3>1. job'.preview = job.preview
      <4>1. job.lifecycle = "reviewing"
        BY <1>8, <2>4, NoWayBack DEF Reviews
      <4>2. job' = [job EXCEPT !.revision = job'.revision,
                      !.lifecycle = job'.lifecycle,
                      !.execution_authorization = job'.execution_authorization,
                      !.destination_reservation = job'.destination_reservation,
                      !.pending_result_path = job'.pending_result_path,
                      !.final_result_path = job'.final_result_path]
        BY <1>8, <2>4, <4>1 DEF Reviews, WriterAdmits, TransitionPayload
      <4> QED
        BY <1>1, <4>2 DEF JobOK, Job
    <3> QED
      BY <1>2, <1>3, <2>1, <3>1
  <2> QED
    BY <1>8, <2>2, <2>3, <2>4 DEF Reviews
<1> QED
  BY <1>1, <1>4, <1>5, <1>6, <1>7, <1>8 DEF JobMoves

\* The destination is reserved when the execution is authorized and stays so.
LEMMA ReservationStays ==
    ASSUME SafeInv, [Next]_vars
    PROVE  /\ job.destination_reservation # None =>
                job'.destination_reservation = job.destination_reservation
           /\ job'.lifecycle = "executing" => job'.destination_reservation # None
<1>1. JobMoves /\ JobOK /\ JobOK'
  BY StepMoves, JobMovesOK DEF SafeInv, TypeInv
<1>2. /\ job.lifecycle = "absent" => job.destination_reservation = None
      /\ job.lifecycle = "executing" => job.destination_reservation # None
  BY DEF SafeInv, CopyInProgress
<1>3. CASE job' = job
  BY <1>2, <1>3
<1>4. CASE GoesStale
  BY <1>1, <1>4, StaleFields DEF GoesStale, JobOK
<1>5. CASE Creates
  BY <1>2, <1>5 DEF Creates, NewJob
<1>6. CASE Settles
  BY <1>1, <1>6, EvolvedFields, ConcludedFields DEF Settles, JobOK
<1>7. CASE Reviews
  <2>1. ReservationHistory(job, job')
    BY <1>7 DEF Reviews, WriterAdmits
  <2>2. job'.lifecycle = "executing" => job.lifecycle = "reviewing"
    BY <1>7, NoWayBack DEF Reviews
  <2> QED
    BY <2>1, <2>2 DEF ReservationHistory
<1> QED
  BY <1>1, <1>3, <1>4, <1>5, <1>6, <1>7 DEF JobMoves

\* The tree is there while its copy runs, and the result while it is checked.
LEMMA CopyStepsBacked ==
    ASSUME SafeInv, [Next]_vars, NEW d \in Callers, pc'[d] \in CopySteps
    PROVE  /\ pc'[d] \in {"copying", "finalized", "promoting"} => pending' # NoTree
           /\ pc'[d] = "checking" => final'.owner = "job" /\ pending' = NoTree
<1> DEFINE Backed ==
      /\ pc'[d] \in {"copying", "finalized", "promoting"} => pending' # NoTree
      /\ pc'[d] = "checking" => final'.owner = "job" /\ pending' = NoTree
<1>1. TypeOK /\ ControlOK /\ ExecutionIsExclusive
  BY DEF SafeInv, TypeInv, TypeOK, ControlOK
<1>2. /\ pc[d] \in {"copying", "finalized", "promoting"} => pending # NoTree
      /\ pc[d] = "checking" => final.owner = "job" /\ pending = NoTree
  BY DEF SafeInv, CopyInProgress
<1>3. CASE Arrives(d)
  <2>1. CASE BeginCopy(d)
    BY <1>1, <2>1 DEF BeginCopy, Goto, ControlOK, NoTree
  <2>2. CASE FinishStaging(d)
    BY <1>1, <2>2 DEF FinishStaging, Goto, ControlOK, NoTree
  <2>3. CASE FinalChecks(d)
    BY <1>1, <1>2, <2>3 DEF FinalChecks, Goto, At, ControlOK, disk
  <2>4. CASE Promote(d)
    BY <1>1, <2>4 DEF Promote, Goto, ControlOK, NoTree
  <2>5. CASE RecoverPromoted(d)
    BY <1>1, <2>5 DEF RecoverPromoted, Goto, ControlOK, disk
  <2> QED
    BY <1>3, <2>1, <2>2, <2>3, <2>4, <2>5 DEF Arrives
<1>4. CASE pc'[d] = pc[d]
  <2>1. CASE UNCHANGED disk
    BY <1>2, <1>4, <2>1 DEF disk
  <2>2. CASE StrangerTakesFinal
    BY <1>2, <1>4, <2>2 DEF StrangerTakesFinal, Promoted
  <2>3. ASSUME NEW c \in Callers, Copies(c)
        PROVE  FALSE
    <3>1. d = c
      BY <1>1, <1>4, <2>3, OneCopies DEF CopySteps, Executing
    <3> QED
      BY <1>1, <1>4, <2>3, <3>1 DEF Copies, BeginCopy, FinishStaging, StagingFails,
         Promote, At, Goto, ControlOK
  <2> QED
    BY <2>1, <2>2, <2>3, DiskStep DEF DiskMoves
<1>5. pc'[d] = pc[d] \/ Arrives(d)
  BY <1>1, CopyStepsEntered
<1> QED
  BY <1>3, <1>4, <1>5

LEMMA CopyInProgressStep ==
    ASSUME SafeInv, [Next]_vars
    PROVE  CopyInProgress'
<1>1. job'.lifecycle = "absent" =>
          job'.preview = None /\ job'.destination_reservation = None
  BY UnmadeStep DEF SafeInv, CopyInProgress
<1>2. job'.preview # None => job'.preview.rev <= job'.revision
  BY NewestStep
<1>3. job'.lifecycle = "executing" => job'.destination_reservation # None
  BY ReservationStays
<1>4. ASSUME NEW c \in Callers
      PROVE  /\ pc'[c] \in {"copying", "finalized", "promoting"} => pending' # NoTree
             /\ pc'[c] = "checking" => final'.owner = "job" /\ pending' = NoTree
  BY CopyStepsBacked DEF CopySteps
<1> QED
  BY <1>1, <1>2, <1>3, <1>4 DEF CopyInProgress

\* A copy begins with the candidate the destination was reserved for.
LEMMA ReservedCandidate ==
    ASSUME SafeInv, job.lifecycle = "executing"
    PROVE  /\ job.destination_reservation # None
           /\ job.destination_reservation.preview = job.preview
           /\ job.candidate_plan = job.preview.plan
           /\ job.execution_authorization # None
           /\ job.execution_authorization.preview = job.preview
           /\ job.final_result_path
<1>1. CompleteAuthority(job) /\ job.destination_reservation # None
  BY DEF SafeInv, TypeInv, JobOK, CopyInProgress
<1> QED
  BY <1>1 DEF CompleteAuthority, ReservationAuthority, PreviewAuthority,
     LifecycleAuthority, AuthorizedExecution

LEMMA OutputStep ==
    ASSUME SafeInv, [Next]_vars
    PROVE  OutputNeedsAcceptance'
<1>1. OutputNeedsAcceptance /\ ExecutionIsExclusive /\ TypeOK
  BY DEF SafeInv, TypeInv
<1>2. CASE pending' = pending
  BY <1>1, <1>2, ReservationStays DEF OutputNeedsAcceptance
<1>3. ASSUME NEW c \in Callers, Copies(c)
      PROVE  OutputNeedsAcceptance'
  <2>1. job.lifecycle = "executing" /\ job' = job
    BY <1>1, <1>3 DEF ExecutionIsExclusive, Executing, Copies, BeginCopy, FinishStaging,
       StagingFails, Promote, At
  <2>2. CASE BeginCopy(c)
    BY <2>1, <2>2, ReservedCandidate DEF BeginCopy, OutputNeedsAcceptance
  <2>3. CASE FinishStaging(c)
    <3>1. pending # NoTree
      BY <2>3 DEF SafeInv, CopyInProgress, FinishStaging, At
    <3>2. pending'.plan = pending.plan
      BY <1>1, <2>3 DEF FinishStaging, TypeOK
    <3> QED
      BY <1>1, <2>1, <3>1, <3>2 DEF OutputNeedsAcceptance
  <2>4. CASE StagingFails(c) \/ Promote(c)
    BY <2>4 DEF StagingFails, Promote, OutputNeedsAcceptance
  <2> QED
    BY <1>3, <2>2, <2>3, <2>4 DEF Copies
<1> QED
  BY <1>2, <1>3, DiskStep DEF DiskMoves, StrangerTakesFinal, disk

\* Once the result was promoted, the record can only settle.
LEMMA ResultHoldsJob ==
    ASSUME SafeInv, [Next]_vars, final.owner = "job"
    PROVE  job' = job \/ Settles
<1>1. JobMoves /\ JobOK
  BY StepMoves DEF SafeInv, TypeInv
<1>2. job.lifecycle \in {"executing", "verified", "blocked"}
  BY DEF SafeInv, ResultIsAuthorized
<1>3. Fresh
  BY <1>2, ReservedCandidate DEF Fresh, StillCurrent, Promoted, Terminal
<1>4. ~Creates
  BY <1>2 DEF Creates
<1>5. ~Reviews
  BY <1>2, NoWayBack DEF Reviews, Terminal
<1> QED
  BY <1>1, <1>3, <1>4, <1>5 DEF JobMoves, GoesStale

LEMMA ResultStep ==
    ASSUME SafeInv, [Next]_vars
    PROVE  ResultIsAuthorized'
<1>1. ResultIsAuthorized /\ OutputNeedsAcceptance /\ ExecutionIsExclusive /\ JobOK
  BY DEF SafeInv, TypeInv
<1>2. CASE UNCHANGED final
  <2>1. CASE final.owner # "job"
    BY <1>2, <2>1 DEF ResultIsAuthorized
  <2>2. CASE final.owner = "job" /\ job' = job
    BY <1>1, <1>2, <2>2 DEF ResultIsAuthorized
  <2>3. CASE final.owner = "job" /\ Settles
    BY <1>1, <1>2, <2>3, EvolvedFields, ConcludedFields DEF Settles, ResultIsAuthorized, JobOK
  <2> QED
    BY <2>1, <2>2, <2>3, ResultHoldsJob
<1>3. CASE StrangerTakesFinal
  BY <1>3 DEF StrangerTakesFinal, ResultIsAuthorized, NoResult
<1>4. ASSUME NEW c \in Callers, Promote(c)
      PROVE  ResultIsAuthorized'
  <2>1. job.lifecycle = "executing" /\ job' = job
    BY <1>1, <1>4 DEF ExecutionIsExclusive, Executing, Promote, At
  <2>2. pending # NoTree
    BY <1>4 DEF SafeInv, CopyInProgress, Promote, At
  <2>3. pending.plan = job.preview.plan
    BY <1>1, <2>1, <2>2, ReservedCandidate DEF OutputNeedsAcceptance
  <2> QED
    BY <1>4, <2>1, <2>3, ReservedCandidate DEF Promote, ResultIsAuthorized
<1> QED
  BY <1>2, <1>3, <1>4, DiskStep DEF DiskMoves, Copies, BeginCopy, FinishStaging,
     StagingFails, disk

LEMMA VerifiedStep ==
    ASSUME SafeInv, [Next]_vars
    PROVE  VerifiedHasItsResult'
<1>1. JobMoves /\ JobOK /\ ExecutionIsExclusive /\ VerifiedHasItsResult
  BY StepMoves DEF SafeInv, TypeInv
<1>2. CASE job' = job /\ UNCHANGED disk
  BY <1>1, <1>2 DEF VerifiedHasItsResult, disk
<1>3. CASE job' = job /\ StrangerTakesFinal
  BY <1>1, <1>3 DEF VerifiedHasItsResult, StrangerTakesFinal, Promoted
<1>4. ASSUME job' = job, NEW c \in Callers, Copies(c)
      PROVE  VerifiedHasItsResult'
  <2>1. job.lifecycle = "executing"
    BY <1>1, <1>4 DEF ExecutionIsExclusive, Executing, Copies, BeginCopy, FinishStaging,
       StagingFails, Promote, At
  <2> QED
    BY <1>4, <2>1 DEF VerifiedHasItsResult
<1>5. CASE job' # job
  <2>1. UNCHANGED disk
    BY <1>5, CopyKeepsJob
  <2>2. CASE job'.lifecycle # "verified"
    BY <2>2 DEF VerifiedHasItsResult
  <2>3. CASE job'.lifecycle = "verified"
    <3>1. Settles
      BY <1>1, <1>5, <2>3, StaleFields DEF JobMoves, GoesStale, Creates, NewJob, Reviews,
         JobOK
    <3>2. \E c \in Callers : pc[c] = "checking"
      BY <1>1, <2>3, <3>1, EvolvedFields DEF Settles, JobOK
    <3> QED
      BY <2>1, <3>2 DEF SafeInv, CopyInProgress, VerifiedHasItsResult, disk
  <2> QED
    BY <2>2, <2>3
<1> QED
  BY <1>2, <1>3, <1>4, <1>5, DiskStep DEF DiskMoves

LEMMA SafeInvInit ==
    ASSUME Init
    PROVE  SafeInv
<1>1. CopyInProgress
  BY DEF Init, CopyInProgress, NewJob
<1>2. OutputNeedsAcceptance /\ ResultIsAuthorized /\ VerifiedHasItsResult
  BY DEF Init, OutputNeedsAcceptance, ResultIsAuthorized, VerifiedHasItsResult, NewJob,
     NoResult
<1> QED
  BY <1>1, <1>2, TypeInvInit DEF SafeInv

LEMMA SafeInvNext ==
    ASSUME SafeInv, [Next]_vars
    PROVE  SafeInv'
<1>1. TypeInv'
  BY TypeInvNext DEF SafeInv
<1>2. CopyInProgress' /\ OutputNeedsAcceptance' /\ ResultIsAuthorized' /\ VerifiedHasItsResult'
  BY CopyInProgressStep, OutputStep, ResultStep, VerifiedStep
<1> QED
  BY <1>1, <1>2 DEF SafeInv
----------------------------------------------------------------------------
(***************************************************************************)
(* The theorems.                                                           *)
(***************************************************************************)

\* The promoted copy is always the one the record authorizes.
THEOREM AuthorizedResult == Spec => []ResultIsAuthorized
<1>1. SafeInv => ResultIsAuthorized
  BY DEF SafeInv
<1> QED
  BY <1>1, SafeInvInit, SafeInvNext, PTL DEF Spec

\* A pending tree always belongs to a destination the user accepted.
THEOREM AcceptedOutput == Spec => []OutputNeedsAcceptance
<1>1. SafeInv => OutputNeedsAcceptance
  BY DEF SafeInv
<1> QED
  BY <1>1, SafeInvInit, SafeInvNext, PTL DEF Spec

\* A verified record always has its own promoted result.
THEOREM VerifiedResult == Spec => []VerifiedHasItsResult
<1>1. SafeInv => VerifiedHasItsResult
  BY DEF SafeInv
<1> QED
  BY <1>1, SafeInvInit, SafeInvNext, PTL DEF Spec

\* Record, directories and handlers agree on how far a copy got.
THEOREM CopyAgrees == Spec => []CopyInProgress
<1>1. SafeInv => CopyInProgress
  BY DEF SafeInv
<1> QED
  BY <1>1, SafeInvInit, SafeInvNext, PTL DEF Spec

LEMMA TerminalStep ==
    ASSUME TypeInv, [Next]_vars, job.lifecycle \in Terminal
    PROVE  job' = job
<1>1. JobMoves
  BY StepMoves DEF TypeInv
<1>2. Fresh /\ ~Creates /\ ~Reviews /\ ~Settles
  BY NoWayBack DEF Fresh, StillCurrent, Creates, Reviews, Settles, Terminal
<1> QED
  BY <1>1, <1>2 DEF JobMoves, GoesStale

\* A job that was verified, went stale or was blocked is never written again.
THEOREM TerminalStays == Spec => TerminalIsFinal
<1>1. TypeInv /\ [Next]_vars => [job.lifecycle \in Terminal => job' = job]_vars
  BY TerminalStep
<1> QED
  BY <1>1, TypeInvInit, TypeInvNext, PTL DEF Spec, TerminalIsFinal
----------------------------------------------------------------------------
(***************************************************************************)
(* The refinement: what each step of the service is to the user.           *)
(***************************************************************************)
Chosen ==
    IF job.destination_reservation = None
      THEN None
      ELSE job.destination_reservation.preview

Delivered == IF final.owner = "job" THEN final.plan ELSE None

Closed == job.lifecycle \in Terminal

LEMMA JobPromise ==
    ASSUME SafeInv, JobMoves, JobOK', UNCHANGED final
    PROVE  [Promise!Next]_(Promise!promise)
<1> USE DEF Chosen, Delivered, Closed
<1>1. JobOK /\ Delivered' = Delivered
  BY DEF SafeInv, TypeInv
<1>2. CASE job' = job
  BY <1>1, <1>2 DEF Promise!promise
<1>3. CASE GoesStale
  <2>1. ~Closed /\ Closed' /\ job'.preview = job.preview /\ Chosen' = Chosen
    BY <1>1, <1>3, StaleFields DEF GoesStale, Fresh, StillCurrent, Terminal, JobOK
  <2> QED
    BY <1>1, <2>1 DEF Promise!Next, Promise!Close
<1>4. CASE Creates
  <2>1. /\ job.preview = None /\ job'.preview = None
        /\ Chosen = None /\ Chosen' = None
        /\ ~Closed /\ ~Closed'
    BY <1>4 DEF Creates, NewJob, SafeInv, CopyInProgress, Terminal
  <2> QED
    BY <1>1, <2>1 DEF Promise!promise
<1>5. CASE Settles
  <2>1. ~Closed /\ Closed' /\ job'.preview = job.preview /\ Chosen' = Chosen
    BY <1>1, <1>5, EvolvedFields, ConcludedFields DEF Settles, Terminal, JobOK
  <2> QED
    BY <1>1, <2>1 DEF Promise!Next, Promise!Close
<1>6. CASE Reviews
  <2>1. /\ WriterAdmits(job, job')
        /\ job.lifecycle \notin Terminal \cup {"absent", "executing"}
    BY <1>6, NoWayBack DEF Reviews
  <2>2. job.destination_reservation = None
    BY <1>1, <2>1 DEF JobOK, CompleteAuthority, ReservationAuthority, LifecycleAuthority,
       NoOutput, Job, Lifecycle, Terminal
  <2>3. job'.revision = job.revision + 1 /\ ReservationHistory(job, job')
    BY <2>1 DEF WriterAdmits
  <2>4. CASE job'.lifecycle \in {"reviewing", "revision_failed"}
    <3>1. job'.preview # None /\ job'.preview.rev = job'.revision
      BY <1>1, <2>4 DEF JobOK, CompleteAuthority, LifecycleAuthority
    <3>2. job'.preview \in Preview
      BY <1>1, <3>1 DEF JobOK, Job
    <3>3. job.preview # None => job'.preview.rev > job.preview.rev
      <4>1. job.preview # None => job.preview.rev <= job.revision
        BY DEF SafeInv, CopyInProgress
      <4>2. job.revision \in Nat /\ (job.preview # None => job.preview.rev \in Nat)
        BY <1>1 DEF JobOK, Job, Preview
      <4> QED
        BY <2>3, <3>1, <4>1, <4>2
    <3>4. Chosen = None /\ Chosen' = None /\ ~Closed /\ ~Closed'
      BY <2>1, <2>2, <2>3, <2>4 DEF ReservationHistory, Terminal
    <3> QED
      BY <1>1, <3>2, <3>3, <3>4 DEF Promise!Next, Promise!Propose
  <2>5. CASE job'.lifecycle = "revising"
    <3>1. /\ job'.preview = job.preview
          /\ Chosen = None /\ Chosen' = None /\ ~Closed /\ ~Closed'
      BY <1>6, <2>1, <2>2, <2>3, <2>5 DEF Reviews, ReservationHistory, Terminal
    <3> QED
      BY <1>1, <3>1 DEF Promise!promise
  <2>6. CASE job'.lifecycle = "executing"
    <3>1. job.lifecycle = "reviewing"
      BY <2>1, <2>6, NoWayBack
    <3>2. job.preview # None
      BY <1>1, <3>1 DEF JobOK, CompleteAuthority, LifecycleAuthority
    <3>3. job'.preview = job.preview
      <4>1. job' = [job EXCEPT !.revision = job'.revision,
                      !.lifecycle = job'.lifecycle,
                      !.execution_authorization = job'.execution_authorization,
                      !.destination_reservation = job'.destination_reservation,
                      !.pending_result_path = job'.pending_result_path,
                      !.final_result_path = job'.final_result_path]
        BY <2>1, <2>6, <3>1 DEF WriterAdmits, TransitionPayload
      <4> QED
        BY <1>1, <4>1 DEF JobOK, Job
    <3>4. /\ job'.destination_reservation # None
          /\ job'.destination_reservation.preview = job'.preview
      BY <1>1, <2>3, <2>6, <3>1 DEF ReservationHistory, JobOK, CompleteAuthority,
         ReservationAuthority
    <3>5. Chosen = None /\ Chosen' = job.preview /\ ~Closed /\ ~Closed'
      BY <2>1, <2>2, <2>6, <3>3, <3>4 DEF Terminal
    <3> QED
      BY <1>1, <3>2, <3>3, <3>5 DEF Promise!Next, Promise!Choose
  <2>7. CASE job'.lifecycle = "blocked"
    <3>1. ~Closed /\ Closed' /\ job'.preview = job.preview /\ Chosen' = Chosen
      BY <1>1, <1>6, <2>1, <2>7, EvolvedFields DEF Reviews, Terminal, JobOK
    <3> QED
      BY <1>1, <3>1 DEF Promise!Next, Promise!Close
  <2> QED
    BY <1>6, <2>4, <2>5, <2>6, <2>7 DEF Reviews
<1> QED
  BY <1>2, <1>3, <1>4, <1>5, <1>6 DEF JobMoves

LEMMA PromotePromise ==
    ASSUME SafeInv, NEW c \in Callers, Promote(c)
    PROVE  Promise!Next
<1> USE DEF Chosen, Delivered, Closed
<1>1. job.lifecycle = "executing" /\ job' = job
  BY DEF SafeInv, TypeInv, ExecutionIsExclusive, Executing, Promote, At
<1>2. pending # NoTree /\ OutputNeedsAcceptance
  BY DEF SafeInv, CopyInProgress, Promote, At
<1>3. Chosen = job.preview /\ job.preview # None /\ pending.plan = job.preview.plan
  <2>1. job.preview # None
    BY <1>1 DEF SafeInv, TypeInv, JobOK, CompleteAuthority, LifecycleAuthority,
       AuthorizedExecution
  <2> QED
    BY <1>1, <1>2, <2>1, ReservedCandidate DEF OutputNeedsAcceptance
<1>4. Delivered = None /\ Delivered' = pending.plan
  BY DEF Promote, Promoted
<1>5. ~Closed /\ ~Closed' /\ Chosen' = Chosen /\ job'.preview = job.preview
  BY <1>1 DEF Terminal
<1> QED
  BY <1>3, <1>4, <1>5 DEF Promise!Next, Promise!Deliver

LEMMA PromiseStep ==
    ASSUME SafeInv, [Next]_vars
    PROVE  [Promise!Next]_(Promise!promise)
<1>1. JobMoves /\ JobOK'
  BY StepMoves, JobMovesOK DEF SafeInv, TypeInv
<1>2. CASE UNCHANGED final
  BY <1>1, <1>2, JobPromise
<1>3. CASE \E c \in Callers : Promote(c)
  BY <1>3, PromotePromise
<1>4. CASE StrangerTakesFinal
  <2>1. job' = job /\ Delivered' = None /\ Delivered = None
    BY <1>4 DEF StrangerTakesFinal, Delivered, NoResult, Promoted
  <2> QED
    BY <2>1 DEF Promise!promise, Delivered
<1> QED
  BY <1>2, <1>3, <1>4, DiskStep DEF DiskMoves, Copies, BeginCopy, FinishStaging,
     StagingFails, disk

LEMMA PromiseInit ==
    ASSUME Init
    PROVE  Promise!Init
BY DEF Init, Promise!Init, NewJob, NoResult, Terminal

\* The service implements the promise: newer offers only, one choice of what is
\* on offer, the chosen plan delivered, nothing after the end.
THEOREM Promised == Spec => KeepsPromise
<1> QED
  BY PromiseInit, PromiseStep, SafeInvInit, SafeInvNext, PTL
     DEF Spec, KeepsPromise, Promise!Spec
----------------------------------------------------------------------------
(***************************************************************************)
(* Revision turns: what the record keeps of a turn from the moment it is   *)
(* reserved, and what each step can make of it.                            *)
(***************************************************************************)
Called == { k \in Keys : calls[k] > 0 }
Filed(instruction) ==
    \E i \in DOMAIN job.revision_mutation_bindings :
        job.revision_mutation_bindings[i].request = instruction

\* A caller that holds the lock for a new turn has a request nobody made before.
ReservingIsNew ==
    \A c \in Callers : pc[c] = "reserving" =>
        /\ req[c] \in Instruction
        /\ ~BoundKey(req[c].key)
        /\ job.authority = "planned"
        /\ job.lifecycle \in {"reviewing", "revision_failed"}

\* The turn that waits is the last attempt; a turn that ended is filed, and a job
\* that was not made yet has none.
TurnIsLast ==
    /\ job.lifecycle = "absent" =>
            job.revision_mutation_bindings = << >> /\ job.revision_instruction = None
    /\ job.pending_revision_turn # None =>
            /\ job.authority = "planned"
            /\ job.pending_revision_turn.attempt = job.revision_attempt_count
    /\ job.pending_revision_turn = None /\ job.revision_instruction # None =>
            Filed(job.revision_instruction)

Turns == Len(job.revision_mutation_bindings)
            + (IF job.pending_revision_turn # None THEN 1 ELSE 0)

\* What was paid for is in the record, until a changed input closes it.
SpendIsFiled ==
    /\ \A k \in Keys : calls[k] <= 1
    /\ IsFiniteSet(Called) /\ Cardinality(Called) <= MaxRevisions
    /\ job.lifecycle # "stale" =>
            /\ \A k \in Called : BoundKey(k)
            /\ Cardinality(Called) <= Turns

TurnInv ==
    /\ SafeInv
    /\ ReservingIsNew
    /\ TurnIsLast
    /\ SpendIsFiled
    /\ ProposalAnswersItsTurn

\* Two records with the same turns, of which the second may have a first candidate.
SameTurns(j, s) ==
    /\ s.authority = j.authority
    /\ s.revision_attempt_count = j.revision_attempt_count
    /\ s.pending_revision_turn = j.pending_revision_turn
    /\ s.revision_instruction = j.revision_instruction
    /\ s.revision_mutation_bindings = j.revision_mutation_bindings
    /\ s.candidate_plan \in {j.candidate_plan, 0}

Resolves(s) ==
    /\ job.lifecycle = "revising" /\ job.pending_revision_turn # None
    /\ \E outcome \in Outcome : s = Resolved(job, job.pending_revision_turn, outcome)

TurnMoves ==
    \/ SameTurns(job, job') /\ job.lifecycle # "stale"
    \/ job' = job
    \/ Creates
    \/ Resolves(job')
    \/ \E c \in Callers : ReserveTurn(c) /\ job' = Reserved(job, req[c])

LEMMA EvolvedTurns ==
    ASSUME NEW j \in Job, NEW l
    PROVE  SameTurns(j, Evolved(j, l))
BY DEF SameTurns, Evolved, Job

LEMMA StaleTurns ==
    ASSUME NEW j \in Job
    PROVE  SameTurns(j, StaleSuccessor(j))
BY DEF SameTurns, StaleSuccessor, Evolved, Job

LEMMA FirstReviewTurns ==
    ASSUME NEW j \in Job
    PROVE  SameTurns(j, FirstReview(j))
BY DEF SameTurns, FirstReview, Evolved, Job

LEMMA AuthorizedTurns ==
    ASSUME NEW j \in Job, NEW rev, NEW preview, NEW key
    PROVE  SameTurns(j, Authorized(j, rev, preview, key))
BY DEF SameTurns, Authorized, ReservationOf, Evolved, Job

LEMMA VerifiedTurns ==
    ASSUME NEW j \in Job
    PROVE  SameTurns(j, Concluded(j))
BY DEF SameTurns, Concluded, Evolved, Job

LEMMA KeptTurns ==
    ASSUME NEW j \in Job, NEW n, NEW k
    PROVE  SameTurns(j, [Evolved(j, "reviewing") EXCEPT
                            !.preview = [@ EXCEPT !.rev = n],
                            !.revision_failure = FALSE,
                            !.keep_previous_actions = Append(@, k)])
BY DEF SameTurns, Evolved, Job

LEMMA StaleMoves ==
    ASSUME JobOK, GoesStale
    PROVE  TurnMoves
<1>1. job.lifecycle # "stale"
  BY DEF GoesStale, Fresh, StillCurrent, Terminal
<1> QED
  BY <1>1, StaleTurns DEF GoesStale, TurnMoves, JobOK

\* A save of a record with the same turns.
LEMMA SaveTurns ==
    ASSUME JobOK, NEW s, Save(s), SameTurns(job, s)
    PROVE  TurnMoves
<1>1. Goes(s)
  BY SaveGoes
<1>2. job' = s /\ WriterAdmits(job, s) => job.lifecycle # "stale"
  BY DEF WriterAdmits, Terminal
<1> QED
  BY <1>1, <1>2, StaleMoves DEF Goes, TurnMoves

LEMMA ReloadTurns ==
    ASSUME JobOK, Loads, job' = Reload
    PROVE  TurnMoves
BY ReloadGoes, StaleMoves DEF TurnMoves

LEMMA ResolveTurns ==
    ASSUME JobOK, NEW turn, NEW outcome \in Outcome,
           job.pending_revision_turn # None => turn = job.pending_revision_turn,
           Save(Resolved(job, turn, outcome))
    PROVE  TurnMoves
<1> DEFINE s == Resolved(job, turn, outcome)
<1>1. Goes(s)
  BY SaveGoes
<1>2. ASSUME job' = s, WriterAdmits(job, s)
      PROVE  Resolves(job')
  <2>1. s.revision_mutation_bindings # job.revision_mutation_bindings
    BY DEF Resolved, Evolved, JobOK, Job
  <2>2. job.pending_revision_turn # None /\ EndsRevision(job, s)
    BY <1>2, <2>1 DEF WriterAdmits, BindingHistory, Appends
  <2> QED
    BY <1>2, <2>2 DEF Resolves, EndsRevision
<1> QED
  BY <1>1, <1>2, StaleMoves DEF Goes, TurnMoves

LEMMA StepTurns ==
    ASSUME TypeInv, [Next]_vars
    PROVE  TurnMoves
<1>1. TypeOK /\ JobOK /\ job \in Job
  BY DEF TypeInv, JobOK
<1>2. ASSUME NEW c \in Callers, Continue(c)
      PROVE  TurnMoves
  <2>1. CASE PrepareFinish(c)
    BY <1>1, <2>1, FirstReviewTurns, SaveTurns, ReloadTurns DEF PrepareFinish
  <2>2. CASE PrepareFail(c)
    BY <1>1, <2>2, EvolvedTurns, SaveTurns, ReloadTurns DEF PrepareFail
  <2>3. CASE ReserveTurn(c)
    <3>1. Goes(Reserved(job, req[c]))
      BY <2>3, SaveGoes DEF ReserveTurn
    <3> QED
      BY <1>1, <2>3, <3>1, StaleMoves DEF Goes, TurnMoves
  <2>4. CASE \E outcome \in Outcome : ProviderAnswers(c, outcome)
    <3> PICK outcome \in Outcome : ProviderAnswers(c, outcome)
      BY <2>4
    <3>1. CASE Unmoved(c)
      BY <1>1, <3>1, ResolveTurns DEF ProviderAnswers, Unmoved
    <3>2. CASE ~Unmoved(c)
      BY <1>1, <3>2, ReloadTurns DEF ProviderAnswers
    <3> QED
      BY <3>1, <3>2
  <2>5. CASE RecoverRevision(c)
    <3>1. CASE Unmoved(c)
      BY <1>1, <2>5, <3>1, ResolveTurns DEF RecoverRevision, Outcome
    <3>2. CASE ~Unmoved(c)
      BY <1>1, <2>5, <3>2, ReloadTurns DEF RecoverRevision
    <3> QED
      BY <3>1, <3>2
  <2>6. CASE RecordVerified(c) \/ RecordFailure(c)
    BY <1>1, <2>6, VerifiedTurns, EvolvedTurns, SaveTurns
       DEF RecordVerified, RecordFailure, Concluded
  <2>7. CASE ReserveRaises(c) \/ AnswerLost(c) \/ BeginCopy(c) \/ RecoverPromoted(c)
              \/ CannotStart(c) \/ FinishStaging(c) \/ StagingFails(c)
    BY <2>7 DEF TurnMoves, ReserveRaises, AnswerLost, BeginCopy, RecoverPromoted,
                CannotStart, FinishStaging, StagingFails
  <2>8. CASE FinalChecks(c) \/ FinalChecksFail(c) \/ Promote(c) \/ PromotionRefused(c)
              \/ VerificationFails(c)
    BY <2>8 DEF TurnMoves, FinalChecks, FinalChecksFail, Promote, PromotionRefused,
                VerificationFails
  <2> QED
    BY <1>2, <2>1, <2>2, <2>3, <2>4, <2>5, <2>6, <2>7, <2>8 DEF Continue
<1>3. ASSUME NEW c \in Callers, Request(c)
      PROVE  TurnMoves
  <2>1. CASE PrepareStart(c)
    BY <2>1, AuthoritiesAssumption DEF PrepareStart, TurnMoves, Creates
  <2>2. ASSUME NEW shown, NEW key, NEW rev,
               KeepPrevious(c, rev, shown, key) \/ Accept(c, rev, shown, key)
        PROVE  TurnMoves
    BY <1>1, <2>2, KeptTurns, AuthorizedTurns, SaveTurns DEF KeepPrevious, Accept
  <2>3. ASSUME NEW shown, NEW key, NEW rev, NEW text,
               \/ Revise(c, rev, [key |-> key, text |-> text, base |-> shown])
               \/ AcceptAgain(c, rev, shown, key)
        PROVE  TurnMoves
    BY <2>3 DEF Revise, AcceptAgain, TakeOverExecution, TurnMoves
  <2> QED
    BY <1>3, <2>1, <2>2, <2>3 DEF Request
<1>4. ASSUME NEW c \in Callers, Restart(c) \/ Crash(c)
      PROVE  TurnMoves
  <2>1. CASE Load(c)
    BY <1>1, <2>1, ReloadTurns DEF Load
  <2>2. CASE RecoverInspect(c) \/ ResumeExecution(c) \/ Crash(c)
    BY <2>2 DEF TurnMoves, RecoverInspect, ResumeExecution, TakeOverExecution, Crash
  <2> QED
    BY <1>4, <2>1, <2>2 DEF Restart
<1>5. CASE InputChanges \/ StrangerTakesFinal \/ UNCHANGED vars
  BY <1>5 DEF TurnMoves, InputChanges, StrangerTakesFinal, vars
<1> QED
  BY <1>2, <1>3, <1>4, <1>5 DEF Next
----------------------------------------------------------------------------
(***************************************************************************)
(* The caller that reserves a turn.                                        *)
(***************************************************************************)
Begins(d) ==
    \E shown \in Shown, key \in Keys, text \in Texts, rev \in { p.rev : p \in Shown } :
        Revise(d, rev, [key |-> key, text |-> text, base |-> shown])

LEMMA ReservingEntered ==
    ASSUME ControlOK, [Next]_vars, NEW d \in Callers, pc'[d] = "reserving"
    PROVE  (pc[d] = "reserving" /\ req'[d] = req[d]) \/ Begins(d)
<1> DEFINE Remains == (pc[d] = "reserving" /\ req'[d] = req[d]) \/ Begins(d)
<1>1. ASSUME NEW c \in Callers, NEW s, s # "reserving", Goto(c, s),
             req' = req \/ req' = [req EXCEPT ![c] = None]
      PROVE  Remains
  BY <1>1 DEF Goto, ControlOK
<1>2. ASSUME NEW c \in Callers, Return(c)
      PROVE  Remains
  BY <1>1, <1>2 DEF Return
<1>3. ASSUME NEW c \in Callers, Continue(c)
      PROVE  Remains
  <2>1. CASE PrepareFinish(c) \/ PrepareFail(c) \/ ReserveRaises(c) \/ AnswerLost(c)
              \/ RecoverRevision(c) \/ RecordVerified(c) \/ RecordFailure(c)
              \/ \E outcome \in Outcome : ProviderAnswers(c, outcome)
    BY <1>2, <2>1 DEF PrepareFinish, PrepareFail, ReserveRaises, AnswerLost,
       RecoverRevision, RecordVerified, RecordFailure, ProviderAnswers
  <2>2. CASE ReserveTurn(c) \/ CannotStart(c) \/ StagingFails(c) \/ FinalChecksFail(c)
              \/ PromotionRefused(c) \/ VerificationFails(c)
    BY <1>1, <2>2 DEF ReserveTurn, CannotStart, StagingFails, FinalChecksFail,
       PromotionRefused, VerificationFails
  <2>3. CASE BeginCopy(c) \/ FinishStaging(c) \/ FinalChecks(c) \/ Promote(c)
              \/ RecoverPromoted(c)
    BY <1>1, <2>3 DEF BeginCopy, FinishStaging, FinalChecks, Promote, RecoverPromoted
  <2> QED
    BY <1>3, <2>1, <2>2, <2>3 DEF Continue
<1>4. ASSUME NEW c \in Callers, Request(c)
      PROVE  Remains
  <2>1. CASE PrepareStart(c)
    BY <1>1, <2>1 DEF PrepareStart
  <2>2. ASSUME NEW shown \in Shown, NEW key \in Keys, NEW text \in Texts,
               NEW rev \in { p.rev : p \in Shown },
               Revise(c, rev, [key |-> key, text |-> text, base |-> shown])
        PROVE  Remains
    BY <2>2 DEF Revise, Begins, Goto, ControlOK
  <2>3. ASSUME NEW shown, NEW key, NEW rev, KeepPrevious(c, rev, shown, key)
        PROVE  Remains
    BY <2>3 DEF KeepPrevious
  <2>4. ASSUME NEW shown, NEW key, NEW rev,
               Accept(c, rev, shown, key) \/ AcceptAgain(c, rev, shown, key)
        PROVE  Remains
    BY <1>1, <2>4 DEF Accept, AcceptAgain, TakeOverExecution
  <2> QED
    BY <1>4, <2>1, <2>2, <2>3, <2>4 DEF Request
<1>5. ASSUME NEW c \in Callers, Restart(c) \/ Crash(c)
      PROVE  Remains
  <2>1. \/ UNCHANGED <<pc, req>>
        \/ (Goto(c, "recovering") \/ Goto(c, "starting")) /\ req' = req
        \/ Return(c)
    BY <1>5 DEF Restart, Load, RecoverInspect, ResumeExecution, TakeOverExecution, Crash
  <2> QED
    BY <1>1, <1>2, <2>1
<1>6. CASE InputChanges \/ StrangerTakesFinal \/ UNCHANGED vars
  BY <1>6 DEF InputChanges, StrangerTakesFinal, vars
<1> QED
  BY <1>3, <1>4, <1>5, <1>6 DEF Next

\* Nobody writes the record of a caller that is about to reserve a turn.
LEMMA ReservingHolds ==
    ASSUME TypeInv, [Next]_vars, NEW d \in Callers,
           pc[d] = "reserving", pc'[d] = "reserving"
    PROVE  job' = job
<1>1. ControlOK /\ JobOK /\ LockHeld /\ lock = d /\ d # None
  BY CallersAssumption DEF TypeInv, TypeOK, ControlOK, LockHeld, Locked
<1>2. CASE \E c \in Callers : Continue(c) \/ Request(c) \/ Restart(c)
  <2>1. LockMoves
    BY <1>1, <1>2, ContinueLocks, RequestLocks, RestartLocks
  <2>2. ASSUME NEW c \in Callers, Leaves(c) PROVE FALSE
    <3>1. c = d
      BY <1>1, <2>2 DEF Leaves, LockHeld
    <3> QED
      BY <1>1, <2>2, <3>1 DEF Leaves, Goto, ControlOK, Locked
  <2> QED
    BY <1>1, <2>1, <2>2 DEF LockMoves, Stays, Outside, Enters, Within
<1>3. CASE \E c \in Callers : Crash(c)
  BY <1>3 DEF Crash
<1>4. CASE InputChanges \/ StrangerTakesFinal \/ UNCHANGED vars
  BY <1>4 DEF InputChanges, StrangerTakesFinal, vars
<1> QED
  BY <1>2, <1>3, <1>4 DEF Next

LEMMA ReservingStep ==
    ASSUME TurnInv, [Next]_vars
    PROVE  ReservingIsNew'
<1>1. TypeInv /\ TypeOK /\ ControlOK
  BY DEF TurnInv, SafeInv, TypeInv, TypeOK, ControlOK
<1>2. ASSUME NEW d \in Callers, pc'[d] = "reserving"
      PROVE  /\ req'[d] \in Instruction
             /\ \A i \in DOMAIN job'.revision_mutation_bindings :
                    job'.revision_mutation_bindings[i].request.key # req'[d].key
             /\ job'.revision_instruction # None =>
                    job'.revision_instruction.key # req'[d].key
             /\ job'.authority = "planned"
             /\ job'.lifecycle \in {"reviewing", "revision_failed"}
  <2>1. CASE pc[d] = "reserving" /\ req'[d] = req[d]
    <3>1. job' = job
      BY <1>1, <1>2, <2>1, ReservingHolds
    <3> QED
      BY <2>1, <3>1 DEF TurnInv, ReservingIsNew, BoundKey
  <2>2. CASE Begins(d)
    <3>1. PICK shown \in Shown, key \in Keys, text \in Texts, rev \in { p.rev : p \in Shown } :
            Revise(d, rev, [key |-> key, text |-> text, base |-> shown])
      BY <2>2 DEF Begins
    <3> DEFINE request == [key |-> key, text |-> text, base |-> shown]
    <3>2. request \in Instruction
      BY <1>1, ShownTyped DEF Instruction
    <3>3. CanRevise(rev, request) /\ job' = job /\ req' = [req EXCEPT ![d] = request]
      BY <3>1 DEF Revise
    <3> HIDE DEF request
    <3>4. req'[d] = request
      BY <1>1, <3>3 DEF ControlOK
    <3> QED
      BY <3>2, <3>3, <3>4 DEF CanRevise, BoundKey
  <2> QED
    BY <1>1, <1>2, <2>1, <2>2, ReservingEntered
<1> QED
  BY <1>2 DEF ReservingIsNew, BoundKey
----------------------------------------------------------------------------
(***************************************************************************)
(* What reserving and ending a turn leave in the record.                   *)
(***************************************************************************)
LEMMA ReservedTurns ==
    ASSUME NEW j \in Job, NEW request, NEW s, s = Reserved(j, request)
    PROVE  /\ s.authority = j.authority /\ s.lifecycle = "revising"
           /\ s.revision_attempt_count = j.revision_attempt_count + 1
           /\ s.pending_revision_turn.attempt = j.revision_attempt_count + 1
           /\ s.revision_instruction = request
           /\ s.revision_mutation_bindings = j.revision_mutation_bindings
           /\ s.candidate_plan = j.candidate_plan
BY DEF Reserved, Evolved, Job

\* The reservation is written, or the changed inputs close the record.
LEMMA ReserveOutcome ==
    ASSUME TurnInv, NEW c \in Callers, ReserveTurn(c)
    PROVE  /\ \/ job' = Reserved(job, req[c])
              \/ job' = StaleSuccessor(job)
           /\ CompleteAuthority(Reserved(job, req[c]))
           /\ pc[c] = "reserving"
           /\ calls' = [calls EXCEPT ![req[c].key] = @ + 1]
<1> DEFINE s == Reserved(job, req[c])
<1>1. Saves(job, s, Changed, Promoted) /\ Save(s) /\ pc[c] = "reserving"
      /\ calls' = [calls EXCEPT ![req[c].key] = @ + 1]
  BY DEF ReserveTurn, At
<1>2. job.lifecycle \in {"reviewing", "revision_failed"}
  BY <1>1 DEF TurnInv, ReservingIsNew
<1>3. job' = Saved(job, s, Changed, Promoted) /\ CompleteAuthority(s)
  BY <1>1 DEF Save, Saves
<1> HIDE DEF s
<1>4. job' = s \/ job' = StaleSuccessor(job)
  BY <1>2, <1>3 DEF Saved, Overtaken, Rehydrated, StillCurrent, Terminal
<1> QED
  BY <1>1, <1>3, <1>4 DEF s

\* The number of turns so far is what the record counts as attempts.
LEMMA TurnsAreAttempts ==
    ASSUME NEW j \in Job, CompleteAuthority(j), j.authority = "planned",
           j.lifecycle \in {"reviewing", "revising", "revision_failed"}
    PROVE  j.revision_attempt_count =
               Len(j.revision_mutation_bindings)
                   + (IF j.pending_revision_turn # None THEN 1 ELSE 0)
<1>1. j.candidate_plan # None
  BY DEF CompleteAuthority, LifecycleAuthority, RevisionTurnAuthority, PendingTurn,
         PreviewAuthority
<1> QED
  BY <1>1 DEF CompleteAuthority, RevisionLedger

\* An answered turn is filed last, and a plan of its own is named after it.
LEMMA ResolvedTurns ==
    ASSUME TurnInv, JobOK', Resolves(job')
    PROVE  LET b == job.revision_mutation_bindings
               b2 == job'.revision_mutation_bindings
               n == Len(b)
           IN /\ n \in Nat /\ DOMAIN b = 1 .. n /\ DOMAIN b2 = 1 .. (n + 1)
              /\ Len(b2) = n + 1
              /\ \A i \in 1 .. n : b2[i] = b[i]
              /\ b2[n + 1].request = job.revision_instruction
              /\ job'.pending_revision_turn = None
              /\ job'.revision_instruction = job.revision_instruction
              /\ job'.lifecycle \in {"reviewing", "revision_failed"}
              /\ \/ /\ b2[n + 1].outcome = "proposal_replaced"
                    /\ job'.candidate_plan = n + 1
                 \/ /\ b2[n + 1].outcome # "proposal_replaced"
                    /\ job'.candidate_plan = job.candidate_plan
<1> DEFINE b == job.revision_mutation_bindings
           n == Len(b)
<1>1. JobOK /\ job \in Job /\ job' \in Job /\ b \in Seq(Binding) /\ n \in Nat
  BY DEF TurnInv, SafeInv, TypeInv, JobOK, Job
<1>2. PICK outcome \in Outcome : job' = Resolved(job, job.pending_revision_turn, outcome)
  BY DEF Resolves
<1>3. job.lifecycle = "revising" /\ job.pending_revision_turn # None
  BY DEF Resolves
<1> DEFINE turn == job.pending_revision_turn
           replaced == outcome = "proposal_replaced"
           proposal == IF replaced THEN job.proposal_revision + 1 ELSE job.proposal_revision
           e == [request |-> job.revision_instruction, outcome |-> outcome,
                 terminal |-> job.revision + 1, proposal |-> proposal]
<1>4. /\ job'.revision_mutation_bindings = Append(b, e)
      /\ job'.candidate_plan = (IF replaced THEN turn.attempt ELSE job.candidate_plan)
      /\ job'.pending_revision_turn = None
      /\ job'.revision_instruction = job.revision_instruction
      /\ job'.lifecycle \in {"reviewing", "revision_failed"}
      /\ job'.proposal_revision = proposal
  BY <1>1, <1>2 DEF Resolved, Evolved, Job
<1>5. turn.attempt = n + 1
  <2>1. job.authority = "planned" /\ turn.attempt = job.revision_attempt_count
    BY <1>3 DEF TurnInv, TurnIsLast
  <2>2. job.revision_attempt_count = n + 1
    BY <1>1, <1>3, <2>1, TurnsAreAttempts DEF JobOK
  <2> QED
    BY <2>1, <2>2
<1>6. e \in Binding /\ e.request = job.revision_instruction /\ e.outcome = outcome
  <2>1. job.revision_instruction \in Instruction
    BY <1>1, <1>3 DEF JobOK, CompleteAuthority, RevisionTurnAuthority, PendingTurn, Job
  <2>2. proposal \in Plan /\ job.revision + 1 \in Nat
    BY <1>1, <1>4 DEF Job
  <2> HIDE DEF proposal
  <2> QED
    BY <2>1, <2>2 DEF Binding
<1> HIDE DEF e
<1>7. /\ Len(Append(b, e)) = n + 1 /\ Append(b, e)[n + 1] = e
      /\ \A i \in 1 .. n : Append(b, e)[i] = b[i]
      /\ DOMAIN Append(b, e) = 1 .. (n + 1) /\ DOMAIN b = 1 .. n
  BY <1>1, <1>6
<1>8. replaced \/ outcome # "proposal_replaced"
  OBVIOUS
<1> HIDE DEF b, n
<1> QED
  BY <1>1, <1>4, <1>5, <1>6, <1>7, <1>8 DEF b, n
----------------------------------------------------------------------------
(***************************************************************************)
(* Each part of the invariant is kept.                                     *)
(***************************************************************************)
LEMMA AbsentTurns ==
    ASSUME TurnInv, [Next]_vars, job'.lifecycle = "absent"
    PROVE  job' = job
BY UnmadeStep DEF TurnInv

LEMMA TurnIsLastStep ==
    ASSUME TurnInv, [Next]_vars
    PROVE  TurnIsLast'
<1>1. TypeInv /\ JobOK /\ job \in Job /\ TurnIsLast /\ JobOK'
  BY TypeInvNext DEF TurnInv, SafeInv, TypeInv, JobOK
<1>2. TurnMoves
  BY <1>1, StepTurns
<1>3. job'.lifecycle = "absent" =>
        job'.revision_mutation_bindings = << >> /\ job'.revision_instruction = None
  BY <1>1, AbsentTurns DEF TurnIsLast
<1>4. CASE job' = job
  BY <1>1, <1>4 DEF TurnIsLast, Filed
<1>5. CASE SameTurns(job, job')
  BY <1>1, <1>3, <1>5 DEF TurnIsLast, Filed, SameTurns
<1>6. CASE Creates
  BY <1>3, <1>6 DEF Creates, TurnIsLast, NewJob
<1>7. CASE Resolves(job')
  BY <1>1, <1>3, <1>7, ResolvedTurns DEF TurnIsLast, Filed
<1>8. ASSUME NEW c \in Callers, ReserveTurn(c), job' = Reserved(job, req[c])
      PROVE  TurnIsLast'
  <2>1. job.authority = "planned"
    BY <1>8, ReserveOutcome DEF TurnInv, ReservingIsNew
  <2>2. /\ job'.authority = "planned" /\ job'.lifecycle = "revising"
        /\ job'.pending_revision_turn.attempt = job'.revision_attempt_count
    BY <1>1, <1>8, <2>1, ReservedTurns
  <2>3. job'.pending_revision_turn # None
    BY <1>1, <2>2 DEF JobOK, CompleteAuthority, RevisionTurnAuthority, PendingTurn
  <2> QED
    BY <2>2, <2>3 DEF TurnIsLast
<1> QED
  BY <1>2, <1>4, <1>5, <1>6, <1>7, <1>8 DEF TurnMoves

LEMMA ProposalStep ==
    ASSUME TurnInv, [Next]_vars
    PROVE  ProposalAnswersItsTurn'
<1>1. TypeInv /\ JobOK /\ job \in Job /\ ProposalAnswersItsTurn /\ JobOK'
  BY TypeInvNext DEF TurnInv, SafeInv, TypeInv, JobOK
<1>2. TurnMoves
  BY <1>1, StepTurns
<1>3. CASE job' = job \/ SameTurns(job, job')
  BY <1>1, <1>3 DEF ProposalAnswersItsTurn, SameTurns
<1>4. CASE Creates
  BY <1>4 DEF Creates, ProposalAnswersItsTurn, NewJob
<1>5. CASE Resolves(job')
  <2> DEFINE b == job.revision_mutation_bindings
             b2 == job'.revision_mutation_bindings
             n == Len(b)
  <2>1. /\ n \in Nat /\ DOMAIN b = 1 .. n /\ DOMAIN b2 = 1 .. (n + 1)
        /\ \A i \in 1 .. n : b2[i] = b[i]
        /\ \/ /\ b2[n + 1].outcome = "proposal_replaced"
              /\ job'.candidate_plan = n + 1
           \/ /\ b2[n + 1].outcome # "proposal_replaced"
              /\ job'.candidate_plan = job.candidate_plan
    BY <1>1, <1>5, ResolvedTurns
  <2>2. job.candidate_plan \notin {None, 0} =>
            /\ job.candidate_plan \in DOMAIN b
            /\ b[job.candidate_plan].outcome = "proposal_replaced"
            /\ \A i \in DOMAIN b :
                    i > job.candidate_plan => b[i].outcome # "proposal_replaced"
    BY <1>1 DEF ProposalAnswersItsTurn
  <2> HIDE DEF b, b2, n
  <2>3. CASE job'.candidate_plan = n + 1 /\ b2[n + 1].outcome = "proposal_replaced"
    BY <2>1, <2>3 DEF ProposalAnswersItsTurn, b2
  <2>4. CASE job'.candidate_plan = job.candidate_plan /\ b2[n + 1].outcome # "proposal_replaced"
    <3>1. SUFFICES ASSUME job.candidate_plan \notin {None, 0}
                   PROVE  /\ job.candidate_plan \in DOMAIN b2
                          /\ b2[job.candidate_plan].outcome = "proposal_replaced"
                          /\ \A i \in DOMAIN b2 :
                               i > job.candidate_plan => b2[i].outcome # "proposal_replaced"
      BY <2>4 DEF ProposalAnswersItsTurn, b2
    <3> QED
      BY <2>1, <2>2, <2>4, <3>1
  <2> QED
    BY <2>1, <2>3, <2>4
<1>6. ASSUME NEW c \in Callers, ReserveTurn(c), job' = Reserved(job, req[c])
      PROVE  ProposalAnswersItsTurn'
  BY <1>1, <1>6, ReservedTurns DEF ProposalAnswersItsTurn
<1> QED
  BY <1>2, <1>3, <1>4, <1>5, <1>6 DEF TurnMoves

\* The provider is called when a turn is reserved and at no other time.
LEMMA CallsStep ==
    ASSUME [Next]_vars
    PROVE  calls' = calls \/ \E c \in Callers : ReserveTurn(c)
<1>1. ASSUME NEW c \in Callers, Continue(c)
      PROVE  calls' = calls \/ ReserveTurn(c)
  <2>1. CASE PrepareFinish(c) \/ PrepareFail(c) \/ ReserveRaises(c) \/ AnswerLost(c)
              \/ RecoverRevision(c) \/ RecordVerified(c) \/ RecordFailure(c)
              \/ \E outcome \in Outcome : ProviderAnswers(c, outcome)
    BY <2>1 DEF PrepareFinish, PrepareFail, ReserveRaises, AnswerLost,
       RecoverRevision, RecordVerified, RecordFailure, ProviderAnswers
  <2>2. CASE CannotStart(c) \/ StagingFails(c) \/ FinalChecksFail(c)
              \/ PromotionRefused(c) \/ VerificationFails(c)
    BY <2>2 DEF CannotStart, StagingFails, FinalChecksFail, PromotionRefused,
       VerificationFails
  <2>3. CASE BeginCopy(c) \/ FinishStaging(c) \/ FinalChecks(c) \/ Promote(c)
              \/ RecoverPromoted(c)
    BY <2>3 DEF BeginCopy, FinishStaging, FinalChecks, Promote, RecoverPromoted
  <2> QED
    BY <1>1, <2>1, <2>2, <2>3 DEF Continue
<1>2. ASSUME NEW c \in Callers, Request(c) \/ Restart(c) \/ Crash(c)
      PROVE  calls' = calls
  BY <1>2 DEF Request, PrepareStart, Revise, KeepPrevious, Accept, AcceptAgain,
     TakeOverExecution, Restart, Load, RecoverInspect, ResumeExecution, Crash
<1>3. CASE InputChanges \/ StrangerTakesFinal \/ UNCHANGED vars
  BY <1>3 DEF InputChanges, StrangerTakesFinal, vars
<1> QED
  BY <1>1, <1>2, <1>3 DEF Next

LEMMA SpendStep ==
    ASSUME TurnInv, [Next]_vars
    PROVE  SpendIsFiled'
<1>1. TypeInv /\ JobOK /\ job \in Job /\ SpendIsFiled /\ TurnIsLast /\ JobOK'
  BY TypeInvNext DEF TurnInv, SafeInv, TypeInv, JobOK
<1>2. TurnMoves /\ calls \in [Keys -> Nat]
  BY <1>1, StepTurns DEF TypeInv, TypeOK
<1>3. ASSUME calls' = calls, ~\E c \in Callers : ReserveTurn(c)
      PROVE  SpendIsFiled'
  <2>1. Called' = Called
    BY <1>3 DEF Called
  <2>2. SUFFICES ASSUME job'.lifecycle # "stale"
                 PROVE  /\ \A k \in Called : BoundKey(k)'
                        /\ Cardinality(Called) <= Turns'
    BY <1>1, <1>3, <2>1 DEF SpendIsFiled
  <2>3. CASE job' = job
    BY <1>1, <2>2, <2>3 DEF SpendIsFiled, BoundKey, Turns
  <2>4. CASE SameTurns(job, job') /\ job.lifecycle # "stale"
    BY <1>1, <2>4 DEF SpendIsFiled, BoundKey, Turns, SameTurns
  <2>5. CASE Creates
    <3>1. \A k \in Called : FALSE
      BY <1>1, <2>5 DEF Creates, SpendIsFiled, TurnIsLast, BoundKey
    <3>2. Called = {} /\ Turns' = 0
      BY <2>5, <3>1 DEF Creates, Turns, NewJob
    <3> QED
      BY <3>1, <3>2, FS_EmptySet
  <2>6. CASE Resolves(job')
    <3>1. job.lifecycle = "revising" /\ job.pending_revision_turn # None
      BY <2>6 DEF Resolves
    <3>2. \A k \in Called : BoundKey(k)'
      BY <1>1, <2>6, <3>1, ResolvedTurns DEF SpendIsFiled, BoundKey
    <3>3. Turns' = Turns
      <4> DEFINE n == Len(job.revision_mutation_bindings)
      <4>1. n \in Nat /\ Len(job'.revision_mutation_bindings) = n + 1
            /\ job'.pending_revision_turn = None
        BY <1>1, <2>6, ResolvedTurns
      <4>2. Turns = n + 1 /\ Turns' = (n + 1) + 0
        BY <3>1, <4>1 DEF Turns
      <4> QED
        BY <4>1, <4>2
    <3> QED
      BY <1>1, <3>1, <3>2, <3>3 DEF SpendIsFiled
  <2> QED
    BY <1>2, <1>3, <2>3, <2>4, <2>5, <2>6 DEF TurnMoves
<1>4. ASSUME NEW c \in Callers, ReserveTurn(c)
      PROVE  SpendIsFiled'
  <2> DEFINE s == Reserved(job, req[c])
  <2>k. PICK key : key = req[c].key
    OBVIOUS
  <2>1. /\ job' = s \/ job' = StaleSuccessor(job)
        /\ CompleteAuthority(s) /\ pc[c] = "reserving"
        /\ calls' = [calls EXCEPT ![key] = @ + 1]
    BY <1>4, <2>k, ReserveOutcome
  <2>2. /\ key \in Keys /\ ~BoundKey(key) /\ job.authority = "planned"
        /\ job.lifecycle \in {"reviewing", "revision_failed"}
    BY <2>1, <2>k DEF TurnInv, ReservingIsNew, Instruction
  <2>3. /\ s.revision_attempt_count = job.revision_attempt_count + 1
        /\ s.revision_instruction = req[c] /\ s.lifecycle = "revising"
        /\ s.revision_mutation_bindings = job.revision_mutation_bindings
    BY <1>1, ReservedTurns
  <2>4. job.pending_revision_turn = None
    BY <1>1, <2>2 DEF JobOK, CompleteAuthority, RevisionTurnAuthority
  <2>5. job.revision_attempt_count = Turns /\ Turns = Len(job.revision_mutation_bindings)
    <3>1. job.revision_mutation_bindings \in Seq(Binding)
      BY <1>1 DEF Job
    <3>2. Turns = Len(job.revision_mutation_bindings) + 0
      BY <2>4 DEF Turns
    <3>3. job.revision_attempt_count = Turns
      BY <1>1, <2>2, TurnsAreAttempts DEF JobOK, Turns
    <3> QED
      BY <3>1, <3>2, <3>3
  <2>6. s.pending_revision_turn # None /\ s.revision_instruction # None
        /\ s.revision_attempt_count <= MaxRevisions
    BY <2>1, <2>3 DEF CompleteAuthority, RevisionTurnAuthority, PendingTurn
  <2> HIDE DEF s
  <2>7. key \notin Called /\ calls[key] = 0
    BY <1>1, <1>2, <2>2 DEF SpendIsFiled, Called
  <2>8. Called' = Called \cup {key} /\ \A k \in Keys : calls'[k] <= 1
    BY <1>1, <1>2, <2>1, <2>2, <2>7 DEF Called, SpendIsFiled
  <2>9. /\ Cardinality(Called') = Cardinality(Called) + 1
        /\ IsFiniteSet(Called') /\ Cardinality(Called) \in Nat
    BY <1>1, <2>7, <2>8, FS_AddElement, FS_CardinalityType DEF SpendIsFiled
  <2>10. Cardinality(Called) <= Turns /\ Turns \in Nat
    BY <1>1, <2>2, <2>5 DEF SpendIsFiled, Job
  <2>11. Cardinality(Called') <= Turns + 1 /\ Turns + 1 <= MaxRevisions
    BY <2>3, <2>5, <2>6, <2>9, <2>10
  <2>12. Cardinality(Called') <= MaxRevisions
    BY <2>9, <2>10, <2>11, MaxRevisionsAssumption
  <2>13. ASSUME job' = s
         PROVE  /\ \A k \in Called' : BoundKey(k)'
                /\ Cardinality(Called') <= Turns'
    <3>1. Turns' = Turns + 1
      <4>1. Turns' = Len(job.revision_mutation_bindings) + 1
        BY <2>3, <2>6, <2>13 DEF Turns
      <4> QED
        BY <2>5, <4>1
    <3>2. BoundKey(key)'
      BY <2>3, <2>6, <2>13, <2>k DEF BoundKey
    <3>3. ASSUME NEW k \in Called PROVE BoundKey(k)'
      <4>1. BoundKey(k)
        BY <1>1, <2>2 DEF SpendIsFiled
      <4>2. \E i \in DOMAIN job.revision_mutation_bindings :
              job.revision_mutation_bindings[i].request.key = k
        BY <1>1, <2>4, <4>1 DEF BoundKey, TurnIsLast, Filed
      <4> QED
        BY <2>3, <2>13, <4>2 DEF BoundKey
    <3> QED
      BY <2>8, <2>11, <3>1, <3>2, <3>3
  <2>14. job' = StaleSuccessor(job) => job'.lifecycle = "stale"
    BY <1>1, StaleFields
  <2> QED
    BY <2>1, <2>8, <2>9, <2>12, <2>13, <2>14 DEF SpendIsFiled
<1> QED
  BY <1>3, <1>4, CallsStep

LEMMA TurnInvInit ==
    ASSUME Init
    PROVE  TurnInv
<1>1. ReservingIsNew /\ TurnIsLast /\ ProposalAnswersItsTurn
  BY DEF Init, ReservingIsNew, TurnIsLast, ProposalAnswersItsTurn, NewJob
<1>2. Called = {} /\ \A k \in Keys : calls[k] = 0
  BY DEF Init, Called
<1>3. Turns = 0
  BY DEF Init, Turns, NewJob
<1>4. SpendIsFiled
  BY <1>2, <1>3, FS_EmptySet, MaxRevisionsAssumption DEF SpendIsFiled
<1> QED
  BY <1>1, <1>4, SafeInvInit DEF TurnInv

LEMMA TurnInvNext ==
    ASSUME TurnInv, [Next]_vars
    PROVE  TurnInv'
<1>1. SafeInv'
  BY SafeInvNext DEF TurnInv
<1> QED
  BY <1>1, ReservingStep, TurnIsLastStep, SpendStep, ProposalStep DEF TurnInv

\* However requests are repeated and answers late or lost, the provider is asked
\* once at most for each and for no more revisions than a job may have, and the
\* candidate is the last plan that answered its own turn.
THEOREM TurnsPaidOnce == Spec => []RevisionTurns
<1>1. TurnInv => RevisionTurns
  BY DEF TurnInv, SpendIsFiled, RevisionTurns, ProviderSpend, Called
<1> QED
  BY <1>1, TurnInvInit, TurnInvNext, PTL DEF Spec

-----------------------------------------------------------------------------
(***************************************************************************)
(* The copy transaction.                                                   *)
(***************************************************************************)
Done == {"promoted", "verified", "restoring", "reverifying", "returning", "restored",
         "not restored"}
Unstaged == {"scanning", "rescanning", "accepted"}
Staging == {"copying", "staged", "restaging", "measuring", "bagging", "validated", "sealing"}
Sealed == {"last look", "confirming", "promoting"}
Walked == {Order[i] : i \in 1 .. (next - 1)}
Sources == [bytes : [Files -> Bytes], id : [Files -> 0 .. MaxEdits],
            names : SUBSET (Files \cup Empties \cup {"x"}), listing : 0 .. MaxEdits]

\* The file that is read is one of the walk.
OpenedOK == opened # Absent => phase = "copying" /\ next <= Len(Order)

Types == CopyTypeOK /\ OpenedOK

IsMap(t) == t = [p \in DOMAIN t |-> t[p]]

\* What is in a folder entry's place is a folder.
Tree(t) ==
    /\ IsMap(t)
    /\ \A p \in DOMAIN t : p[1] = "folder" => t[p] = <<"folder">>

Written(t) ==
    /\ Tree(t)
    /\ Has(t, Snapshot) => t[Snapshot] \in {SnapshotOf(snapshot.bytes), Edited}
    /\ Has(t, Receipt) => t[Receipt] = Edited \/ t[Receipt][2].data = Accepted(snapshot.bytes)

Lists(tags, t) ==
    /\ tags = <<"tagmanifest", tags[2]>>
    /\ IsMap(tags[2])
    /\ Payload \in DOMAIN tags[2]
    /\ \A p \in DOMAIN tags[2] : p = Payload \/ p[1] = "proof"
    /\ \A p \in DOMAIN made : p[1] = "proof" => p \in DOMAIN tags[2] \/ ~Intact(t, p)

Derived(t) ==
    /\ Tree(t)
    /\ Has(t, Receipt) => t[Receipt] \in {made[Receipt], Edited}
    /\ Has(t, Tags) => t[Tags] = Edited \/ Lists(t[Tags], t)

MadeOK ==
    proof # "unproved" =>
        /\ Derived(made) /\ Verified(made)
        /\ Data(made) = Accepted(snapshot.bytes)
        /\ made[Snapshot] = SnapshotOf(snapshot.bytes)

TreesOK ==
    /\ phase \in Unstaged \cup Staging => proof = "unproved"
    /\ phase \in Sealed \cup Done => proof # "unproved"
    /\ phase \in Unstaged \cup Done => building = Absent
    /\ phase \in Staging => Written(building)
    /\ phase \in Sealed => Derived(building)
    /\ building # Absent /\ proof # "unproved" => Derived(building)
    /\ phase \in Done => Derived(result)
    /\ Own(result) => phase \in Done
    /\ proof = "proved" => \A t \in {building, result} : Own(t) => Verified(t)

FinalizedOK ==
    /\ finalized => kind[1] = 1 \/ proof # "unproved"
    /\ phase = "failed" => building = Absent \/ finalized

SnapshotOK ==
    /\ snapshot = [bytes |-> snapshot.bytes, id |-> snapshot.id,
                   names |-> Files \cup Empties, listing |-> 0]
    /\ phase = "scanning" => DOMAIN snapshot.bytes = Walked /\ next >= 1
    /\ phase \notin {"scanning", "failed"} => DOMAIN snapshot.bytes = Files
    /\ snapshot.bytes \in [DOMAIN snapshot.bytes -> Bytes]
    /\ DOMAIN snapshot.id = DOMAIN snapshot.bytes /\ DOMAIN snapshot.bytes \subseteq Files
    /\ \A f \in DOMAIN snapshot.id : snapshot.id[f] \in 0 .. edits

SourceOK ==
    /\ \A f \in Files : folder.id[f] <= edits
    /\ folder.listing <= edits
    /\ folder.listing = 0 => folder.names = Files \cup Empties

\* A file that changed since it was scanned and kept its identity was written silently.
ScanOK ==
    phase = "scanning" =>
        \A f \in DOMAIN snapshot.id : folder.id[f] = snapshot.id[f] =>
            folder.bytes[f] = snapshot.bytes[f] \/ silent >= 1

MomentOK ==
    /\ phase = "rescanning" =>
         /\ moment \in Sources
         /\ \A f \in Files : folder.id[f] = snapshot.id[f] =>
              \/ moment.bytes[f] = snapshot.bytes[f]
              \/ silent >= 1 /\ folder.bytes[f] # snapshot.bytes[f]
         /\ moment.listing <= folder.listing
         /\ moment.listing = 0 => moment.names = Files \cup Empties
         /\ next >= 1 /\ same =>
              /\ moment.names = snapshot.names
              /\ \A f \in Walked : moment.bytes[f] = snapshot.bytes[f]
    /\ phase \notin {"scanning", "rescanning", "failed"} =>
         snapshot.bytes = moment.bytes /\ snapshot.names = moment.names

FileSeen(f) == f \in late \/ "listing" \in late \/ ReadMarkdown(f)
ListingSeen == "listing" \in late \/ (folder.names = snapshot.names
                                      /\ folder.listing = snapshot.listing)
ExternalSeen == "external" \in late \/ external = "read" \/ ~External

LookOK ==
    /\ phase = "last look" /\ next >= 1 /\ same => ListingSeen /\ \A f \in Walked : FileSeen(f)
    /\ phase \in {"confirming", "promoting", "promoted"} =>
         ListingSeen /\ \A f \in Files : FileSeen(f)
    /\ phase \in {"promoting", "promoted"} => ExternalSeen

RestoreOK ==
    /\ phase \in {"verified", "restoring"} =>
         wanted = [receipt |-> made[Receipt], rows |-> wanted.rows]
    /\ phase = "restoring" => wanted.rows = snapshot.bytes
    /\ phase \in {"reverifying", "returning"} =>
         copy = Restored(snapshot.bytes) \/ "copy" \in late
    /\ phase = "restored" => home = Restored(snapshot.bytes) \/ "copy" \in late


--------------------------------------------------------------------------------
(* Trees *)

LEMMA Paths ==
    /\ Snapshot[1] = "proof" /\ Receipt[1] = "proof" /\ PlanFile[1] = "proof"
    /\ Report[1] = "proof" /\ Evidence[1] = "proof" /\ Change[1] = "proof" /\ Page[1] = "proof"
    /\ Payload[1] = "bag" /\ Tags[1] = "bag"
    /\ Payload # Tags
    /\ Snapshot \notin {PlanFile, Report, Evidence, Receipt, Change, Page, Payload, Tags}
    /\ Receipt \notin {Snapshot, PlanFile, Report, Evidence, Change, Page, Payload, Tags}
    /\ \A f : /\ Original(f)[1] = "proof" /\ Original(f) \notin {Snapshot, Receipt}
              /\ <<"data", f>>[1] = "data" /\ <<"folder", f>>[1] = "folder"
BY DEF Snapshot, Receipt, PlanFile, Report, Evidence, Change, Page, Payload, Tags, Original

\* u is t, but for what lies at p; and t without p.
Puts(u, p, c, t) ==
    /\ IsMap(u) /\ DOMAIN u = DOMAIN t \cup {p}
    /\ u[p] = c /\ \A q \in DOMAIN t : q # p => u[q] = t[q]
Drops(u, p, t) ==
    /\ IsMap(u) /\ DOMAIN u = DOMAIN t \ {p}
    /\ \A q \in DOMAIN t : q # p => u[q] = t[q]

LEMMA PutPuts == \A t, p, c : Puts(Put(p, c, t), p, c, t)
BY DEF Puts, Put, IsMap

LEMMA WithoutDrops == \A t, p : Drops(Without(t, p), p, t)
BY DEF Drops, Without, Restrict, IsMap

\* What a tree may be given at p, to be a tree.
Fits(p, c) == p[1] = "folder" => c = <<"folder">>

LEMMA TouchedCases ==
    ASSUME NEW t, NEW u \in Touched(t)
    PROVE  \/ \E p, c : /\ Puts(u, p, c, t) /\ Fits(p, c)
                        /\ p[1] # "folder" => c = Edited
           \/ \E p : Drops(u, p, t)
<1>1. CASE \E p : u = Put(p, IF p[1] = "folder" THEN <<"folder">> ELSE Edited, t)
  <2>1. PICK p : u = Put(p, IF p[1] = "folder" THEN <<"folder">> ELSE Edited, t)
    BY <1>1
  <2> DEFINE c == IF p[1] = "folder" THEN <<"folder">> ELSE Edited
  <2>2. Puts(u, p, c, t)
    BY <2>1, PutPuts
  <2>3. Fits(p, c) /\ (p[1] # "folder" => c = Edited)
    BY DEF Fits
  <2> HIDE DEF c
  <2> QED
    BY <2>2, <2>3
<1>2. CASE \E p : u = Without(t, p)
  BY <1>2, WithoutDrops
<1> QED
  BY <1>1, <1>2 DEF Touched

LEMMA PutTree ==
    ASSUME NEW t, Tree(t), NEW p, NEW c, Fits(p, c), NEW u, Puts(u, p, c, t)
    PROVE  Tree(u)
BY DEF Tree, Fits, Puts

LEMMA DropTree ==
    ASSUME NEW t, Tree(t), NEW p, NEW u, Drops(u, p, t)
    PROVE  Tree(u)
BY DEF Tree, Drops
--------------------------------------------------------------------------------
(* The directory before it is proved *)

LEMMA PutWritten ==
    ASSUME NEW t, Written(t), NEW p, NEW c, Fits(p, c), NEW u, Puts(u, p, c, t),
           p = Snapshot => c \in {SnapshotOf(snapshot.bytes), Edited},
           p = Receipt => c = Edited \/ c[2].data = Accepted(snapshot.bytes)
    PROVE  Written(u)
<1>1. Tree(u)
  BY PutTree DEF Written
<1>2. ASSUME Has(u, Snapshot)
      PROVE  u[Snapshot] \in {SnapshotOf(snapshot.bytes), Edited}
  BY <1>2 DEF Written, Has, Puts
<1>3. ASSUME Has(u, Receipt)
      PROVE  u[Receipt] = Edited \/ u[Receipt][2].data = Accepted(snapshot.bytes)
  BY <1>3 DEF Written, Has, Puts
<1> QED
  BY <1>1, <1>2, <1>3 DEF Written

LEMMA TouchedWritten ==
    ASSUME NEW t, Written(t), NEW u \in Touched(t)
    PROVE  Written(u)
<1>1. ASSUME NEW p, NEW c, Puts(u, p, c, t), Fits(p, c), p[1] # "folder" => c = Edited
      PROVE  Written(u)
  BY <1>1, Paths, PutWritten
<1>2. ASSUME NEW p, Drops(u, p, t)
      PROVE  Written(u)
  BY <1>2, DropTree DEF Written, Has, Drops
<1> QED
  BY <1>1, <1>2, TouchedCases

LEMMA PlainWritten ==
    ASSUME NEW t, Written(t), NEW p, NEW c, p \notin {Snapshot, Receipt}, p[1] # "folder"
    PROVE  Written(Put(p, c, t))
BY PutPuts, PutWritten DEF Fits

LEMMA BaggedWritten ==
    ASSUME NEW t, Written(t)
    PROVE  Written(Bagged(t)) /\ Written(Tagged(t))
BY Paths, PlainWritten DEF Bagged, Tagged

LEMMA FoldersWritten ==
    ASSUME NEW t, Written(t)
    PROVE  Written(Over([p \in EmptyFolders |-> <<"folder">>], t))
<1> DEFINE u == Over([p \in EmptyFolders |-> <<"folder">>], t)
<1>1. /\ DOMAIN u = EmptyFolders \cup DOMAIN t /\ IsMap(u)
      /\ \A q \in DOMAIN u : u[q] = IF q \in EmptyFolders THEN <<"folder">> ELSE t[q]
  BY DEF Over, IsMap
<1>2. \A q \in EmptyFolders : q[1] = "folder"
  BY Paths DEF EmptyFolders
<1> HIDE DEF u
<1>3. Tree(u)
  BY <1>1, <1>2 DEF Tree, Written
<1>4. Written(u)
  BY <1>1, <1>2, <1>3, Paths DEF Written, Has
<1> QED
  BY <1>4 DEF u
--------------------------------------------------------------------------------
(* What becomes of a tree that was proved *)

\* The tag manifest still lists every proof file that was not touched.
Listed(t) == Has(t, Tags) => t[Tags] = Edited \/ Lists(t[Tags], t)

LEMMA PutListed ==
    ASSUME NEW t, Listed(t), NEW p, NEW c, NEW u, Puts(u, p, c, t),
           p = Tags => c = Edited, p[1] = "proof" => c = Edited
    PROVE  Listed(u)
<1>1. CASE p = Tags
  BY <1>1 DEF Listed, Puts
<1>2. CASE p # Tags /\ Has(u, Tags) /\ u[Tags] # Edited
  <2>1. u[Tags] = t[Tags] /\ Lists(t[Tags], t)
    BY <1>2 DEF Listed, Puts, Has
  <2>2. ASSUME NEW q \in DOMAIN made, q[1] = "proof", q \notin DOMAIN t[Tags][2]
        PROVE  ~Intact(u, q)
    <3>1. ~Intact(t, q)
      BY <2>1, <2>2 DEF Lists
    <3> QED
      BY <2>2, <3>1 DEF Intact, Has, Puts
  <2> QED
    BY <2>1, <2>2 DEF Listed, Lists
<1> QED
  BY <1>1, <1>2 DEF Listed

LEMMA DropListed ==
    ASSUME NEW t, Listed(t), NEW p, NEW u, Drops(u, p, t)
    PROVE  Listed(u)
<1>1. CASE Has(u, Tags) /\ u[Tags] # Edited
  <2>1. u[Tags] = t[Tags] /\ Lists(t[Tags], t)
    BY <1>1 DEF Listed, Drops, Has
  <2>2. ASSUME NEW q \in DOMAIN made, q[1] = "proof", q \notin DOMAIN t[Tags][2]
        PROVE  ~Intact(u, q)
    <3>1. ~Intact(t, q)
      BY <2>1, <2>2 DEF Lists
    <3> QED
      BY <2>2, <3>1 DEF Intact, Has, Drops
  <2> QED
    BY <2>1, <2>2 DEF Listed, Lists
<1> QED
  BY <1>1 DEF Listed

\* Of a tree with a payload manifest, TagFiles lists all there is to list.
LEMMA TagsWhole ==
    ASSUME NEW t, Has(t, Payload), NEW u, Puts(u, Tags, <<"tagmanifest", TagFiles(t)>>, t)
    PROVE  /\ u[Tags] = <<"tagmanifest", u[Tags][2]>>
           /\ IsMap(u[Tags][2]) /\ Payload \in DOMAIN u[Tags][2]
           /\ \A p \in DOMAIN u[Tags][2] : p = Payload \/ p[1] = "proof"
           /\ \A p \in DOMAIN u : p[1] = "proof" => p \in DOMAIN u[Tags][2]
<1> DEFINE M == TagFiles(t)
<1>1. /\ IsMap(M) /\ Payload \in DOMAIN M
      /\ \A p \in DOMAIN M : p = Payload \/ p[1] = "proof"
      /\ \A p \in DOMAIN t : p[1] = "proof" => p \in DOMAIN M
  BY DEF TagFiles, IsMap, Has
<1> HIDE DEF M
<1>2. u[Tags] = <<"tagmanifest", M>> /\ DOMAIN u = DOMAIN t \cup {Tags}
  BY DEF Puts, M
<1>3. u[Tags][2] = M
  BY <1>2
<1> QED
  BY <1>1, <1>2, <1>3, Paths

LEMMA TagsListed ==
    ASSUME NEW t, Has(t, Payload), NEW u, Puts(u, Tags, <<"tagmanifest", TagFiles(t)>>, t)
    PROVE  Lists(u[Tags], u)
BY TagsWhole DEF Lists, Intact, Has

LEMMA TouchedDerived ==
    ASSUME NEW t, Derived(t), NEW u \in Touched(t)
    PROVE  Derived(u)
<1>1. ASSUME NEW p, NEW c, Puts(u, p, c, t), Fits(p, c), p[1] # "folder" => c = Edited
      PROVE  Derived(u)
  <2>1. Tree(u)
    BY <1>1, PutTree DEF Derived
  <2>2. Listed(u)
    BY <1>1, Paths, PutListed DEF Derived, Listed
  <2>3. ASSUME Has(u, Receipt)
        PROVE  u[Receipt] \in {made[Receipt], Edited}
    BY <1>1, <2>3, Paths DEF Derived, Has, Puts
  <2> QED
    BY <2>1, <2>2, <2>3 DEF Derived, Listed
<1>2. ASSUME NEW p, Drops(u, p, t)
      PROVE  Derived(u)
  <2>1. Tree(u) /\ Listed(u)
    BY <1>2, DropTree, DropListed DEF Derived, Listed
  <2>2. ASSUME Has(u, Receipt)
        PROVE  u[Receipt] \in {made[Receipt], Edited}
    BY <1>2, <2>2 DEF Derived, Has, Drops
  <2> QED
    BY <2>1, <2>2 DEF Derived, Listed
<1> QED
  BY <1>1, <1>2, TouchedCases

LEMMA RebaggedDerived ==
    ASSUME NEW t, Derived(t)
    PROVE  Derived(Tagged(Bagged(t)))
<1> DEFINE b == Bagged(t)
           u == Tagged(b)
<1>1. Puts(b, Payload, <<"manifest", Data(t)>>, t)
  BY PutPuts DEF Bagged
<1>2. Puts(u, Tags, <<"tagmanifest", TagFiles(b)>>, b)
  BY PutPuts DEF Tagged
<1> HIDE DEF b, u
<1>3. Tree(b) /\ Tree(u)
  <2>1. Tree(b)
    BY <1>1, Paths, PutTree DEF Derived, Fits
  <2> QED
    BY <1>2, <2>1, Paths, PutTree DEF Fits
<1>4. Has(b, Payload)
  BY <1>1 DEF Has, Puts
<1>5. Lists(u[Tags], u)
  BY <1>2, <1>4, TagsListed
<1>6. ASSUME Has(u, Receipt)
      PROVE  u[Receipt] \in {made[Receipt], Edited}
  <2>1. Has(b, Receipt) /\ u[Receipt] = b[Receipt]
    BY <1>2, <1>6, Paths DEF Has, Puts
  <2>2. Has(t, Receipt) /\ b[Receipt] = t[Receipt]
    BY <1>1, <2>1, Paths DEF Has, Puts
  <2> QED
    BY <2>1, <2>2 DEF Derived
<1>7. Derived(u)
  BY <1>3, <1>5, <1>6 DEF Derived
<1> QED
  BY <1>7 DEF u, b

LEMMA AlteredDerived ==
    ASSUME NEW t, Derived(t), NEW u \in Altered(t)
    PROVE  Derived(u)
BY TouchedDerived, RebaggedDerived DEF Altered
--------------------------------------------------------------------------------
(* What verification shows *)

LEMMA SameVerdict ==
    ASSUME kind' = kind
    PROVE  \A t : Verified(t)' <=> Verified(t)
BY DEF Verified, FirstVerified, ConnectedVerified, Unchanged, AuthoritiesBind, EvidenceOf,
       TreeShape, Family, FamilyExact, ChangeFollows, ChangeOf, BagValid, CommitmentsHold,
       ReceiptWhole, PayloadsFollow, PageFollows, CountsAgree, OrganizedTree

LEMMA VerifiedParts ==
    ASSUME NEW t, Verified(t)
    PROVE  /\ BagValid(t) /\ CommitmentsHold(t) /\ AuthoritiesBind(t) /\ PageFollows(t)
           /\ t[Receipt][2].data = Data(t)
           /\ kind[1] = 1 => TreeShape(t)
           /\ kind[1] # 1 => /\ FamilyExact(t) /\ OrganizedTree(t) = t[Receipt][2].tree
                             /\ ChangeFollows(t) /\ CountsAgree(t[Receipt][2].tree)
BY DEF Verified, FirstVerified, ConnectedVerified, Unchanged

\* A receipt that verifies is the one the result was promoted with.
LEMMA ReceiptStands ==
    ASSUME NEW t, Derived(t), Verified(t)
    PROVE  Has(t, Receipt) /\ t[Receipt] = made[Receipt]
BY VerifiedParts DEF Derived, CommitmentsHold, ReceiptWhole, Intact

\* What the receipt names is the same in both.
LEMMA CommittedStands ==
    ASSUME NEW t, Derived(t), Verified(t), MadeOK, proof # "unproved"
    PROVE  /\ Data(t) = Data(made)
           /\ \A p \in Committed \cap DOMAIN t \cap DOMAIN made : t[p] = made[p]
           /\ Committed \cap DOMAIN t = Committed \cap DOMAIN made
           /\ t[Page] = made[Page]
<1>1. t[Receipt] = made[Receipt] /\ Verified(made)
  BY ReceiptStands DEF MadeOK
<1>2. Data(t) = Data(made)
  BY <1>1, VerifiedParts
<1>3. Commitments(t) = Commitments(made)
  BY <1>1, VerifiedParts DEF CommitmentsHold
<1>4. \A u : /\ DOMAIN Commitments(u) = Committed \cap DOMAIN u
             /\ \A p \in Committed \cap DOMAIN u : Commitments(u)[p] = u[p]
  BY DEF Commitments, Restrict
<1>5. t[Page] = made[Page]
  BY <1>1, VerifiedParts DEF PageFollows, Holds
<1>6. Committed \cap DOMAIN t = Committed \cap DOMAIN made
  BY <1>3, <1>4
<1>7. ASSUME NEW p \in Committed \cap DOMAIN t \cap DOMAIN made
      PROVE  t[p] = made[p]
  <2>1. Commitments(t)[p] = t[p] /\ Commitments(made)[p] = made[p]
    BY <1>4
  <2> QED
    BY <1>3, <2>1
<1> QED
  BY <1>2, <1>5, <1>6, <1>7

LEMMA FamilyThere ==
    ASSUME NEW t, Verified(t)
    PROVE  Family \subseteq DOMAIN t
<1>1. CASE kind[1] = 1
  BY <1>1, VerifiedParts DEF TreeShape
<1>2. CASE kind[1] # 1
  <2>1. DOMAIN Proof(t) = Family
    BY <1>2, VerifiedParts DEF FamilyExact
  <2>2. DOMAIN Proof(t) \subseteq DOMAIN t
    BY DEF Proof, Part, Restrict
  <2> QED
    BY <2>1, <2>2
<1> QED
  BY <1>1, <1>2

\* The proof's own files are the ones that were proved.
LEMMA FamilyStands ==
    ASSUME NEW t, Derived(t), Verified(t), MadeOK, proof # "unproved",
           NEW p \in Family
    PROVE  p \in DOMAIN t /\ p \in DOMAIN made /\ t[p] = made[p]
<1>1. Verified(made)
  BY DEF MadeOK
<1>2. p \in DOMAIN t /\ p \in DOMAIN made
  BY <1>1, FamilyThere
<1>3. CASE p \in Committed
  BY <1>2, <1>3, CommittedStands
<1>4. CASE p = Receipt
  BY <1>2, <1>4, ReceiptStands
<1>5. CASE p = Page
  BY <1>2, <1>5, CommittedStands
<1>6. CASE p = Change /\ kind[1] # 1
  <2>1. t[Change] = ChangeOf(t[Receipt]) /\ made[Change] = ChangeOf(made[Receipt])
    BY <1>1, <1>6, VerifiedParts DEF ChangeFollows
  <2> QED
    BY <1>2, <1>6, <2>1, ReceiptStands
<1>7. p \in Committed \/ p = Receipt \/ p = Page \/ (p = Change /\ kind[1] # 1)
  BY DEF Family
<1> QED
  BY <1>2, <1>3, <1>4, <1>5, <1>6, <1>7

LEMMA FamilyIntact ==
    ASSUME NEW t, Verified(t), kind[1] = 1, NEW p \in Family
    PROVE  Intact(t, p)
<1>1. Has(t, p)
  BY FamilyThere DEF Has
<1>2. /\ AuthoritiesBind(t) /\ PayloadsFollow(t) /\ PageFollows(t) /\ ReceiptWhole(t)
  BY DEF Verified, FirstVerified, Unchanged, CommitmentsHold
<1>3. CASE p \in {Snapshot, PlanFile, Report, Evidence}
  BY <1>2, <1>3 DEF AuthoritiesBind
<1>4. CASE p \in Originals
  <2>1. PICK f \in Relinked : p = Original(f)
    BY <1>4 DEF Originals
  <2>2. t[p] = <<f, Said(t)[f]>>
    BY <1>2, <2>1 DEF PayloadsFollow, Holds
  <2> QED
    BY <1>1, <2>2 DEF Intact, Edited
<1>5. CASE p = Receipt
  BY <1>2, <1>5 DEF ReceiptWhole
<1>6. CASE p = Page
  BY <1>1, <1>2, <1>6 DEF PageFollows, Holds, Intact, Edited
<1> QED
  BY <1>3, <1>4, <1>5, <1>6 DEF Family, Committed

LEMMA FamilyIsProof == \A p \in Family : p[1] = "proof"
BY Paths DEF Family, Committed, Originals

LEMMA DataParts ==
    /\ \A t : DOMAIN Data(t) = {p \in DOMAIN t : p[1] = "data"}
    /\ \A t : \A p \in DOMAIN Data(t) : Data(t)[p] = t[p]
    /\ \A t : DOMAIN Proof(t) = {p \in DOMAIN t : p[1] = "proof"}
    /\ \A t : \A p \in DOMAIN Proof(t) : Proof(t)[p] = t[p]
    /\ \A t : IsMap(Proof(t))
BY DEF Data, Proof, Part, Restrict, IsMap

\* The tag manifest of a result of version 1 that verifies names the family.
LEMMA TagsFollow ==
    ASSUME NEW t, Derived(t), Verified(t), kind[1] = 1, MadeOK, proof # "unproved"
    PROVE  /\ t[Tags] = <<"tagmanifest", t[Tags][2]>>
           /\ t[Tags][2] = [p \in Family \cup {Payload} |-> Hash(t[p])]
<1> DEFINE M == t[Tags][2]
<1>1. TreeShape(t) /\ BagValid(t) /\ TreeShape(made)
      /\ t[Receipt][2].data = Data(t) /\ made[Receipt][2].data = Data(made)
  BY VerifiedParts DEF MadeOK
<1>2. Has(t, Tags) /\ Has(t, Payload)
  BY <1>1 DEF TreeShape, Has
<1>3. t[Tags] # Edited /\ \A p \in DOMAIN M : Has(t, p) /\ M[p] = Hash(t[p])
  BY <1>1, <1>2 DEF BagValid
<1>4. Lists(t[Tags], t)
  BY <1>2, <1>3 DEF Derived
<1>5. t[Tags] = <<"tagmanifest", M>> /\ IsMap(M)
  BY <1>4 DEF Lists
<1>6. \A p \in DOMAIN t : p[1] = "proof" => p \in Family
  <2>1. \A p \in DOMAIN Data(t) \cup EmptyFolders \cup {Payload, Tags} : p[1] # "proof"
    BY Paths, DataParts DEF EmptyFolders
  <2>2. DOMAIN t = Family \cup DOMAIN Data(t) \cup EmptyFolders \cup {Payload, Tags}
    BY <1>1 DEF TreeShape
  <2> QED
    BY <2>1, <2>2
<1>7. \A p \in Family : p \in DOMAIN made
  BY <1>1 DEF TreeShape
<1>8. DOMAIN M = Family \cup {Payload}
  <2>1. ASSUME NEW p \in DOMAIN M
        PROVE  p \in Family \cup {Payload}
    BY <1>3, <1>4, <1>6 DEF Lists, Has
  <2>2. ASSUME NEW p \in Family
        PROVE  p \in DOMAIN M
    BY <1>4, <1>7, FamilyIntact, FamilyIsProof DEF Lists
  <2>3. Payload \in DOMAIN M
    BY <1>4 DEF Lists
  <2> QED
    BY <2>1, <2>2, <2>3
<1>9. M = [p \in Family \cup {Payload} |-> Hash(t[p])]
  BY <1>3, <1>5, <1>8 DEF IsMap
<1> QED
  BY <1>5, <1>9

LEMMA FirstAlike ==
    ASSUME NEW t, Derived(t), Verified(t), kind[1] = 1, MadeOK, proof # "unproved"
    PROVE  t = made
<1>1. /\ Derived(made) /\ Verified(made) /\ TreeShape(t) /\ TreeShape(made)
      /\ BagValid(t) /\ BagValid(made)
  BY VerifiedParts DEF MadeOK
<1>2. t[Receipt] = made[Receipt] /\ Data(t) = Data(made)
      /\ t[Receipt][2].data = Data(t) /\ made[Receipt][2].data = Data(made)
  BY <1>1, ReceiptStands, CommittedStands, VerifiedParts
<1>3. DOMAIN t = DOMAIN made
  BY <1>1, <1>2 DEF TreeShape
<1>4. \A p \in Family : t[p] = made[p]
  BY FamilyStands
<1>5. \A p \in DOMAIN Data(t) : t[p] = made[p]
  BY <1>2, DataParts
<1>6. \A p \in EmptyFolders : t[p] = made[p]
  <2>1. \A p \in EmptyFolders : p[1] = "folder"
    BY Paths DEF EmptyFolders
  <2>2. \A p \in EmptyFolders : p \in DOMAIN t /\ p \in DOMAIN made
    BY <1>1 DEF TreeShape
  <2> QED
    BY <1>1, <2>1, <2>2 DEF Derived, Tree
<1>7. t[Payload] = made[Payload]
  BY <1>1, <1>2 DEF BagValid
<1>8. t[Tags] = made[Tags]
  <2>1. [p \in Family \cup {Payload} |-> Hash(t[p])]
          = [p \in Family \cup {Payload} |-> Hash(made[p])]
    BY <1>4, <1>7
  <2>2. t[Tags] = <<"tagmanifest", [p \in Family \cup {Payload} |-> Hash(t[p])]>>
    BY TagsFollow
  <2>3. made[Tags] = <<"tagmanifest", [p \in Family \cup {Payload} |-> Hash(made[p])]>>
    BY <1>1, TagsFollow
  <2> QED
    BY <2>1, <2>2, <2>3
<1>9. \A p \in DOMAIN t : t[p] = made[p]
  <2>1. DOMAIN t = Family \cup DOMAIN Data(t) \cup EmptyFolders \cup {Payload, Tags}
    BY <1>1, <1>2 DEF TreeShape
  <2> QED
    BY <1>4, <1>5, <1>6, <1>7, <1>8, <2>1
<1>10. IsMap(t) /\ IsMap(made)
  BY <1>1 DEF Derived, Tree
<1> QED
  BY <1>3, <1>9, <1>10 DEF IsMap

LEMMA LaterAlike ==
    ASSUME NEW t, Derived(t), Verified(t), kind[1] # 1, MadeOK, proof # "unproved"
    PROVE  Folders(t) = Folders(made) /\ Proof(t) = Proof(made)
<1>1. Verified(made)
  BY DEF MadeOK
<1>2. /\ OrganizedTree(t) = t[Receipt][2].tree /\ OrganizedTree(made) = made[Receipt][2].tree
      /\ FamilyExact(t) /\ FamilyExact(made)
  BY <1>1, VerifiedParts
<1>3. OrganizedTree(t).folders = OrganizedTree(made).folders
  BY <1>2, ReceiptStands
<1>4. Folders(t) = Folders(made)
  BY <1>3 DEF OrganizedTree
<1>5. DOMAIN Proof(t) = Family /\ DOMAIN Proof(made) = Family
  BY <1>2 DEF FamilyExact
<1>6. \A p \in Family : Proof(t)[p] = Proof(made)[p]
  BY <1>5, DataParts, FamilyStands
<1>7. IsMap(Proof(t)) /\ IsMap(Proof(made))
  BY DataParts
<1>8. Proof(t) = Proof(made)
  BY <1>5, <1>6, <1>7 DEF IsMap
<1> QED
  BY <1>4, <1>8

Alike(t) ==
    IF kind[1] = 1 THEN t = made
    ELSE Data(t) = Data(made) /\ Folders(t) = Folders(made) /\ Proof(t) = Proof(made)

LEMMA DerivedAlike ==
    ASSUME NEW t, Derived(t), Verified(t), MadeOK, proof # "unproved"
    PROVE  Alike(t)
BY FirstAlike, LaterAlike, CommittedStands DEF Alike

LEMMA EmptyFoldersCounted ==
    ASSUME CopyAssumption
    PROVE  Cardinality(EmptyFolders) = Cardinality(Empties)
<1> DEFINE g == [e \in Empties |-> <<"folder", e>>]
<1>1. g \in Bijection(Empties, EmptyFolders)
  BY DEF Bijection, Injection, Surjection, IsInjective, EmptyFolders
<1> QED
  BY <1>1, FS_Bijection DEF CopyAssumption, ExistsBijection

\* The folders of a result that verifies are the empty ones, or as many.
LEMMA VerifiedFolders ==
    ASSUME CopyAssumption, NEW t, Verified(t)
    PROVE  /\ Cardinality(Folders(t)) = Cardinality(Empties)
           /\ (kind[1] = 1 \/ kind[2] = "receiver") => Folders(t) = EmptyFolders
<1>1. CASE kind[1] = 1
  <2>1. TreeShape(t) /\ t[Receipt][2].data = Data(t)
    BY <1>1, VerifiedParts
  <2>2. DOMAIN t = Family \cup DOMAIN Data(t) \cup EmptyFolders \cup {Payload, Tags}
    BY <2>1 DEF TreeShape
  <2>3. \A p \in Family \cup DOMAIN Data(t) \cup {Payload, Tags} : p[1] # "folder"
    BY FamilyIsProof, DataParts, Paths
  <2>4. \A p \in EmptyFolders : p[1] = "folder"
    BY Paths DEF EmptyFolders
  <2>5. Folders(t) = EmptyFolders
    BY <2>2, <2>3, <2>4 DEF Folders
  <2> QED
    BY <2>5, EmptyFoldersCounted
<1>2. CASE kind[1] # 1
  <2>1. /\ OrganizedTree(t) = t[Receipt][2].tree
        /\ ChangeFollows(t) /\ CountsAgree(t[Receipt][2].tree)
    BY <1>2, VerifiedParts
  <2>2. OrganizedTree(t).folders = Folders(t)
    BY DEF OrganizedTree
  <2>3. Cardinality(Folders(t)) = Cardinality(Empties)
    BY <2>1, <2>2 DEF CountsAgree
  <2>4. ASSUME kind[2] = "receiver"
        PROVE  Folders(t) = EmptyFolders
    <3>1. t[Receipt][2].tree = Expected(Said(t))
      BY <2>1, <2>4 DEF ChangeFollows
    <3>2. Expected(Said(t)).folders = EmptyFolders
      BY DEF Expected
    <3> QED
      BY <2>1, <2>2, <3>1, <3>2
  <2> QED
    BY <1>2, <2>3, <2>4
<1> QED
  BY <1>1, <1>2
--------------------------------------------------------------------------------
(* Steps: what is written and what is proved *)

LEMMA SameWritten ==
    ASSUME snapshot' = snapshot
    PROVE  \A t : Written(t)' <=> Written(t)
BY DEF Written, Tree

LEMMA SameDerived ==
    ASSUME made' = made
    PROVE  \A t : Derived(t)' <=> Derived(t)
BY DEF Derived, Tree, Lists

Trees == MadeOK /\ TreesOK /\ FinalizedOK

\* The phase stays within its class.
Onward ==
    /\ phase \in Unstaged <=> phase' \in Unstaged
    /\ phase \in Staging <=> phase' \in Staging
    /\ phase \in Sealed <=> phase' \in Sealed
    /\ phase \in Done <=> phase' \in Done
    /\ phase = "failed" <=> phase' = "failed"

LEMMA MadeFrame ==
    ASSUME MadeOK, UNCHANGED <<kind, snapshot, made>>, proof' # "unproved" => proof # "unproved"
    PROVE  MadeOK'
<1>1. Derived(made)' <=> Derived(made)
  BY SameDerived
<1>2. Verified(made)' <=> Verified(made)
  BY SameVerdict
<1>3. Data(made)' = Data(made) /\ Accepted(snapshot.bytes)' = Accepted(snapshot.bytes)
  BY DEF Data, Part, Accepted, Copied
<1>4. SnapshotOf(snapshot.bytes)' = SnapshotOf(snapshot.bytes)
  BY DEF SnapshotOf
<1> QED
  BY <1>1, <1>2, <1>3, <1>4 DEF MadeOK

LEMMA TreesFrame ==
    ASSUME Trees, UNCHANGED <<kind, snapshot, writing, result>>, Onward
    PROVE  Trees'
<1>1. UNCHANGED <<building, finalized, proof, made>>
  BY DEF writing
<1>2. MadeOK'
  BY <1>1, MadeFrame DEF Trees
<1>3. TreesOK'
  <2>1. /\ Written(building)' <=> Written(building)
        /\ Derived(building)' <=> Derived(building)
        /\ Verified(building)' <=> Verified(building)
    BY <1>1, SameWritten, SameDerived, SameVerdict
  <2>2. /\ Derived(result)' <=> Derived(result)
        /\ Verified(result)' <=> Verified(result)
    BY <1>1, SameDerived, SameVerdict
  <2>3. phase' \in Unstaged \cup Staging <=> phase \in Unstaged \cup Staging
    BY DEF Onward
  <2>4. phase' \in Sealed \cup Done <=> phase \in Sealed \cup Done
    BY DEF Onward
  <2>5. phase' \in Unstaged \cup Done <=> phase \in Unstaged \cup Done
    BY DEF Onward
  <2> QED
    BY <1>1, <2>1, <2>2, <2>3, <2>4, <2>5 DEF Trees, TreesOK, Onward, Own
<1>4. FinalizedOK'
  BY <1>1 DEF Trees, FinalizedOK, Onward
<1> QED
  BY <1>2, <1>3, <1>4 DEF Trees

LEMMA FailTrees ==
    ASSUME Trees, phase \in Running, Fail
    PROVE  Trees'
<1>1. /\ UNCHANGED <<kind, snapshot, finalized, proof, made, result>>
      /\ phase' = "failed"
      /\ building' = Absent \/ (finalized /\ building' = building)
  BY DEF Fail
<1>2. phase \notin Done
  BY DEF Running, Done
<1>3. MadeOK'
  BY <1>1, MadeFrame DEF Trees
<1>4. TreesOK'
  <2>1. /\ \A t : Derived(t)' <=> Derived(t)
        /\ \A t : Verified(t)' <=> Verified(t)
    BY <1>1, SameDerived, SameVerdict
  <2>2. phase' \notin Unstaged \cup Staging \cup Sealed \cup Done
    BY <1>1 DEF Unstaged, Staging, Sealed, Done
  <2>3. ~Own(result) /\ ~Own(result)'
    BY <1>1, <1>2 DEF Trees, TreesOK, Own
  <2>4. building' # Absent => building' = building
    BY <1>1
  <2> QED
    BY <1>1, <2>1, <2>2, <2>3, <2>4 DEF Trees, TreesOK, Own
<1>5. FinalizedOK'
  BY <1>1 DEF Trees, FinalizedOK
<1> QED
  BY <1>3, <1>4, <1>5 DEF Trees

\* Before the proof the directory is written on.
LEMMA StagingTrees ==
    ASSUME Trees, phase \in Unstaged \cup Staging, phase' \in Staging,
           UNCHANGED <<kind, snapshot, proof, made, result>>, Written(building'),
           finalized' => finalized \/ kind[1] = 1
    PROVE  Trees'
<1>1. proof = "unproved" /\ phase \notin Done /\ ~Own(result)
  BY DEF Trees, TreesOK, Unstaged, Staging, Done
<1>2. phase' \notin Unstaged \cup Sealed \cup Done /\ phase' # "failed"
  BY DEF Unstaged, Staging, Sealed, Done
<1>3. Written(building)'
  BY SameWritten DEF Written, Tree
<1>4. MadeOK'
  BY MadeFrame DEF Trees
<1>5. TreesOK'
  BY <1>1, <1>2, <1>3 DEF TreesOK, Own
<1>6. FinalizedOK'
  BY <1>1, <1>2 DEF Trees, FinalizedOK
<1> QED
  BY <1>4, <1>5, <1>6 DEF Trees
LEMMA StartCopyTrees ==
    ASSUME Trees, StartCopy
    PROVE  Trees'
<1>1. CASE Fail
  BY <1>1, FailTrees DEF StartCopy, Running
<1>2. CASE ~Fail
  <2>1. /\ phase = "accepted" /\ phase' = "copying" /\ building' = <<>>
        /\ UNCHANGED <<kind, snapshot, finalized, proof, made, result>>
    BY <1>2 DEF StartCopy, reading
  <2>2. Written(<<>>)
    BY DEF Written, Tree, IsMap, Has
  <2> QED
    BY <2>1, <2>2, StagingTrees DEF Unstaged, Staging
<1> QED
  BY <1>1, <1>2

LEMMA CopyFileTrees ==
    ASSUME Trees, NEW bytes, CopyFile(bytes)
    PROVE  Trees'
<1>1. CASE Fail
  BY <1>1, FailTrees DEF CopyFile, Running
<1>2. CASE ~Fail
  <2> DEFINE content == IF Unlinked THEN <<File, bytes>> ELSE Copied(File, bytes)
  <2>1. /\ phase = "copying" /\ phase' = "copying" /\ building' = Put(CopyTo, content, building)
        /\ UNCHANGED <<kind, snapshot, finalized, proof, made, result>>
    BY <1>2 DEF CopyFile
  <2> HIDE DEF content
  <2>2. CopyTo \notin {Snapshot, Receipt} /\ CopyTo[1] # "folder"
    BY Paths DEF CopyTo
  <2>3. Written(building)
    BY <2>1 DEF Trees, TreesOK, Staging
  <2>4. Written(building')
    BY <2>1, <2>2, <2>3, PlainWritten
  <2> QED
    BY <2>1, <2>4, StagingTrees DEF Staging
<1> QED
  BY <1>1, <1>2

LEMMA StageTrees ==
    ASSUME Trees, Stage
    PROVE  Trees'
<1>1. CASE Fail
  BY <1>1, FailTrees DEF Stage, Running
<1>2. CASE ~Fail
  <2> DEFINE a == Over([p \in EmptyFolders |-> <<"folder">>], building)
             b == Put(PlanFile, PlanOf(snapshot.bytes), a)
             c == Put(Snapshot, SnapshotOf(snapshot.bytes), b)
  <2>1. /\ phase = "copying" /\ phase' = "staged" /\ building' = c
        /\ UNCHANGED <<kind, snapshot, finalized, proof, made, result>>
    BY <1>2 DEF Stage, reading
  <2>2. Written(building)
    BY <2>1 DEF Trees, TreesOK, Staging
  <2>3. Written(a)
    BY <2>2, FoldersWritten
  <2> HIDE DEF a
  <2>4. Written(b)
    BY <2>3, Paths, PlainWritten
  <2> HIDE DEF b
  <2>5. Puts(c, Snapshot, SnapshotOf(snapshot.bytes), b)
    BY PutPuts
  <2> HIDE DEF c
  <2>6. Written(c)
    BY <2>4, <2>5, Paths, PutWritten DEF Fits
  <2> QED
    BY <2>1, <2>6, StagingTrees DEF Staging
<1> QED
  BY <1>1, <1>2

LEMMA ExceptWritten ==
    ASSUME NEW t, Written(t), NEW p, NEW c, p \notin {Snapshot, Receipt}, p[1] # "folder"
    PROVE  Written([t EXCEPT ![p] = c])
<1> DEFINE u == [t EXCEPT ![p] = c]
<1>1. IsMap(u) /\ DOMAIN u = DOMAIN t /\ \A q \in DOMAIN t : q # p => u[q] = t[q]
  BY DEF Written, Tree, IsMap
<1> HIDE DEF u
<1>2. Tree(u)
  BY <1>1 DEF Written, Tree
<1>3. Written(u)
  BY <1>1, <1>2 DEF Written, Has
<1> QED
  BY <1>3 DEF u

LEMMA WriteBagTrees ==
    ASSUME Trees, WriteBag
    PROVE  Trees'
<1>1. CASE Fail
  BY <1>1, FailTrees DEF WriteBag, Running
<1>2. CASE ~Fail
  <2> DEFINE a == Put(Report, Provisional(snapshot.bytes), building)
             b == Tagged(Bagged(a))
  <2>1. /\ phase = "bagging" /\ phase' = "validated"
        /\ building' = [b EXCEPT ![Report] = ReportOf(snapshot.bytes)]
        /\ UNCHANGED <<kind, snapshot, finalized, proof, made, result>>
    BY <1>2 DEF WriteBag, reading
  <2>2. Written(building)
    BY <2>1 DEF Trees, TreesOK, Staging
  <2>3. Written(a)
    BY <2>2, Paths, PlainWritten
  <2> HIDE DEF a
  <2>4. Written(b)
    BY <2>3, BaggedWritten
  <2> HIDE DEF b
  <2>5. Written(building')
    BY <2>1, <2>4, Paths, ExceptWritten
  <2> QED
    BY <2>1, <2>5, StagingTrees DEF Staging
<1> QED
  BY <1>1, <1>2

LEMMA WriteReceiptTrees ==
    ASSUME Trees, WriteReceipt
    PROVE  Trees'
<1>1. CASE Fail
  BY <1>1, FailTrees DEF WriteReceipt, Running
<1>2. CASE ~Fail
  <2> DEFINE a == Evident(building)
             receipt == ReceiptOf(a)
             b == IF kind[1] = 1 THEN a ELSE Put(Change, ChangeOf(receipt), a)
             c == Put(Page, <<"page", Hash(receipt)>>, b)
             d == Put(Receipt, receipt, c)
  <2>1. /\ phase = "validated" /\ phase' = "sealing" /\ building' = d
        /\ UNCHANGED <<kind, snapshot, proof, made, result>>
        /\ finalized' = (kind[1] = 1)
    BY <1>2 DEF WriteReceipt, WithReceipt, reading
  <2>2. Written(building)
    BY <2>1 DEF Trees, TreesOK, Staging
  <2>3. Written(a)
    BY <2>2, Paths, PlainWritten DEF Evident
  <2>4. receipt[2].data = Accepted(snapshot.bytes)
    BY DEF ReceiptOf
  <2> HIDE DEF a, receipt
  <2>5. Written(b)
    BY <2>3, Paths, PlainWritten
  <2> HIDE DEF b
  <2>6. Written(c)
    BY <2>5, Paths, PlainWritten
  <2> HIDE DEF c
  <2>7. Puts(d, Receipt, receipt, c)
    BY PutPuts
  <2> HIDE DEF d
  <2>8. Written(d)
    BY <2>4, <2>6, <2>7, Paths, PutWritten DEF Fits
  <2> QED
    BY <2>1, <2>8, StagingTrees DEF Staging
<1> QED
  BY <1>1, <1>2

\* What is sealed is what will be proved: its receipt is of the accepted copy.
LEMMA SealDerives ==
    ASSUME NEW t, Written(t), Intact(t, Payload), NEW u, u = Tagged(t), Verified(u),
           made' = u, UNCHANGED <<kind, snapshot>>
    PROVE  /\ Derived(u)'
           /\ Data(made)' = Accepted(snapshot.bytes)'
           /\ made'[Snapshot] = SnapshotOf(snapshot.bytes)'
<1>1. Puts(u, Tags, <<"tagmanifest", TagFiles(t)>>, t)
  BY PutPuts DEF Tagged
<1>2. Verified(u) /\ made' = u
  OBVIOUS
<1>3. Tree(u)
  BY <1>1, Paths, PutTree DEF Written, Fits
<1>4. ReceiptWhole(u) /\ AuthoritiesBind(u) /\ u[Receipt][2].data = Data(u)
  BY <1>2, VerifiedParts DEF CommitmentsHold
<1>5. Has(t, Receipt) /\ u[Receipt] = t[Receipt] /\ t[Receipt] # Edited
  BY <1>1, <1>4, Paths DEF ReceiptWhole, Intact, Has, Puts
<1>6. Data(u) = Accepted(snapshot.bytes)
  BY <1>4, <1>5 DEF Written
<1>7. Has(t, Snapshot) /\ u[Snapshot] = t[Snapshot] /\ t[Snapshot] # Edited
  BY <1>1, <1>4, Paths DEF AuthoritiesBind, Intact, Has, Puts
<1>8. u[Snapshot] = SnapshotOf(snapshot.bytes)
  BY <1>7 DEF Written
<1>9. Has(t, Payload)
  BY DEF Intact
<1>10. Derived(u)'
  <2>1. /\ u[Tags] = <<"tagmanifest", u[Tags][2]>>
        /\ IsMap(u[Tags][2]) /\ Payload \in DOMAIN u[Tags][2]
        /\ \A p \in DOMAIN u[Tags][2] : p = Payload \/ p[1] = "proof"
        /\ \A p \in DOMAIN u : p[1] = "proof" => p \in DOMAIN u[Tags][2]
    BY <1>1, <1>9, TagsWhole
  <2>2. Lists(u[Tags], u)'
    BY <1>2, <2>1 DEF Lists
  <2> QED
    BY <1>2, <1>3, <2>2 DEF Derived
<1>11. Data(made)' = Accepted(snapshot.bytes)' /\ made'[Snapshot] = SnapshotOf(snapshot.bytes)'
  BY <1>2, <1>6, <1>8 DEF Data, Part, Accepted, Copied, SnapshotOf
<1> QED
  BY <1>10, <1>11

LEMMA SealTrees ==
    ASSUME Trees, Seal
    PROVE  Trees'
<1>1. CASE Fail
  BY <1>1, FailTrees DEF Seal, Running
<1>2. CASE ~Fail
  <2>1. /\ phase = "sealing" /\ phase' = "last look" /\ proof' = "proved"
        /\ building' = Tagged(building) /\ made' = Tagged(building)
        /\ Intact(building, Payload) /\ Verified(Tagged(building))
        /\ UNCHANGED <<kind, snapshot, result>>
    BY <1>2 DEF Seal, Sealable, reading
  <2>2. Written(building) /\ ~Own(result)
    BY <2>1 DEF Trees, TreesOK, Staging, Done
  <2>3. PICK t, u : t = building /\ u = Tagged(t)
    OBVIOUS
  <2>4. /\ building' = u /\ made' = u /\ Verified(u)
    BY <2>1, <2>3
  <2>5. /\ Derived(u)' /\ Data(made)' = Accepted(snapshot.bytes)'
        /\ made'[Snapshot] = SnapshotOf(snapshot.bytes)'
    BY <2>1, <2>2, <2>3, <2>4, SealDerives
  <2>6. Verified(u)'
    BY <2>1, <2>4, SameVerdict
  <2>7. MadeOK'
    BY <2>4, <2>5, <2>6 DEF MadeOK
  <2>8. phase' \notin Unstaged \cup Staging \cup Done /\ phase' # "failed"
    BY <2>1 DEF Unstaged, Staging, Done
  <2>9. ~Own(result)'
    BY <2>1, <2>2 DEF Own
  <2>10. TreesOK'
    BY <2>1, <2>4, <2>5, <2>6, <2>8, <2>9 DEF TreesOK
  <2>11. FinalizedOK'
    BY <2>1, <2>8 DEF FinalizedOK
  <2> QED
    BY <2>7, <2>10, <2>11 DEF Trees
<1> QED
  BY <1>1, <1>2

LEMMA PromoteTrees ==
    ASSUME Trees, PromoteResult
    PROVE  Trees'
<1>1. CASE Fail
  BY <1>1, FailTrees DEF PromoteResult, Running
<1>2. CASE ~Fail
  <2>1. /\ phase = "promoting" /\ phase' = "promoted"
        /\ result' = building /\ building' = Absent
        /\ UNCHANGED <<kind, snapshot, finalized, proof, made>>
    BY <1>2 DEF PromoteResult, reading
  <2>2. PICK t : t = building
    OBVIOUS
  <2>3. Derived(t) /\ proof # "unproved" /\ (proof = "proved" /\ Own(t) => Verified(t))
    BY <2>1, <2>2 DEF Trees, TreesOK, Sealed
  <2>4. Derived(t)' /\ (proof = "proved" /\ Own(t) => Verified(t)')
    BY <2>1, <2>3, SameDerived, SameVerdict
  <2>5. MadeOK'
    BY <2>1, MadeFrame DEF Trees
  <2>6. /\ phase' \notin Unstaged \cup Staging \cup Sealed /\ phase' # "failed"
        /\ phase' \in Done
    BY <2>1 DEF Unstaged, Staging, Sealed, Done
  <2>7. TreesOK'
    BY <2>1, <2>2, <2>3, <2>4, <2>6 DEF TreesOK, Own
  <2>8. FinalizedOK'
    BY <2>1, <2>3, <2>6 DEF FinalizedOK
  <2> QED
    BY <2>5, <2>7, <2>8 DEF Trees
<1> QED
  BY <1>1, <1>2

\* What verifies again is proved again.
LEMMA ProvedTrees ==
    ASSUME Trees, phase \in Done, phase' \in Done, Verified(result), proof' = "proved",
           UNCHANGED <<kind, snapshot, building, finalized, made, result>>
    PROVE  Trees'
<1>1. proof # "unproved" /\ building = Absent /\ Derived(result)
  BY DEF Trees, TreesOK
<1>2. Derived(result)' /\ Verified(result)'
  BY <1>1, SameDerived, SameVerdict
<1>3. MadeOK'
  BY <1>1, MadeFrame DEF Trees
<1>4. phase' \notin Unstaged \cup Staging \cup Sealed /\ phase' # "failed"
  BY DEF Unstaged, Staging, Sealed, Done
<1>5. TreesOK'
  BY <1>1, <1>2, <1>4 DEF TreesOK, Own
<1>6. FinalizedOK'
  BY <1>4 DEF FinalizedOK
<1> QED
  BY <1>3, <1>5, <1>6 DEF Trees

LEMMA AlterPendingTrees ==
    ASSUME Trees, AlterPending
    PROVE  Trees'
<1>1. /\ building # Absent /\ building' \in Touched(building)
      /\ proof' = Shaken
      /\ UNCHANGED <<kind, phase, snapshot, finalized, made, result>>
  BY DEF AlterPending, reading
<1>2. /\ proof' # "proved"
      /\ proof' = "unproved" <=> proof = "unproved"
  BY <1>1 DEF Shaken
<1>3. PICK t, u : t = building /\ u = building'
  OBVIOUS
<1>4. u \in Touched(t)
  BY <1>1, <1>3
<1>5. /\ Written(t) => Written(u)'
      /\ Derived(t) => Derived(u)'
      /\ Derived(result)' <=> Derived(result)
  BY <1>1, <1>4, TouchedWritten, TouchedDerived, SameWritten, SameDerived
<1>6. MadeOK'
  BY <1>1, <1>2, MadeFrame DEF Trees
<1>7. phase \notin Unstaged \cup Done
  BY <1>1 DEF Trees, TreesOK
<1>8. TreesOK'
  BY <1>1, <1>2, <1>3, <1>5, <1>7 DEF Trees, TreesOK, Own
<1>9. FinalizedOK'
  BY <1>1, <1>2 DEF Trees, FinalizedOK
<1> QED
  BY <1>6, <1>8, <1>9 DEF Trees

LEMMA AlterFinalTrees ==
    ASSUME Trees, AlterFinal
    PROVE  Trees'
<1>1. /\ Own(result) /\ result' \in Altered(result)
      /\ proof' = Shaken
      /\ UNCHANGED <<kind, phase, snapshot, finalized, made, building>>
  BY DEF AlterFinal, reading, Own
<1>2. /\ proof' # "proved"
      /\ proof' = "unproved" <=> proof = "unproved"
  BY <1>1 DEF Shaken
<1>3. PICK t, u : t = result /\ u = result'
  OBVIOUS
<1>4. u \in Altered(t)
  BY <1>1, <1>3
<1>5. /\ Derived(t) => Derived(u)'
      /\ Written(building)' <=> Written(building)
      /\ Derived(building)' <=> Derived(building)
  BY <1>1, <1>4, AlteredDerived, SameWritten, SameDerived
<1>6. MadeOK'
  BY <1>1, <1>2, MadeFrame DEF Trees
<1>7. phase \in Done
  BY <1>1 DEF Trees, TreesOK
<1>8. TreesOK'
  BY <1>1, <1>2, <1>3, <1>5, <1>7 DEF Trees, TreesOK
<1>9. FinalizedOK'
  BY <1>1, <1>2 DEF Trees, FinalizedOK
<1> QED
  BY <1>6, <1>8, <1>9 DEF Trees

LEMMA OccupyFinalTrees ==
    ASSUME Trees, OccupyFinal
    PROVE  Trees'
<1>1. /\ phase \in Running /\ result' = Stranger
      /\ UNCHANGED <<kind, phase, snapshot, finalized, proof, made, building>>
  BY DEF OccupyFinal, reading, writing
<1>2. phase \notin Done /\ ~Own(result)'
  BY <1>1 DEF Running, Done, Own
<1>3. /\ Written(building)' <=> Written(building)
      /\ Derived(building)' <=> Derived(building)
      /\ Verified(building)' <=> Verified(building)
  BY <1>1, SameWritten, SameDerived, SameVerdict
<1>4. MadeOK'
  BY <1>1, MadeFrame DEF Trees
<1>5. TreesOK'
  BY <1>1, <1>2, <1>3 DEF Trees, TreesOK, Own
<1>6. FinalizedOK'
  BY <1>1 DEF Trees, FinalizedOK
<1> QED
  BY <1>4, <1>5, <1>6 DEF Trees

\* The first scan: nothing is written yet.
LEMMA ScanFirstTrees ==
    ASSUME Trees, ScanFirst
    PROVE  Trees'
<1>1. CASE Fail
  BY <1>1, FailTrees DEF ScanFirst, Running
<1>2. CASE ~Fail
  <2>1. /\ phase = "scanning"
        /\ UNCHANGED <<kind, phase, building, finalized, proof, made, result>>
    BY <1>2 DEF ScanFirst, writing
  <2>2. proof = "unproved" /\ ~Own(result)
    BY <2>1 DEF Trees, TreesOK, Unstaged, Done
  <2>3. phase' \notin Staging \cup Sealed \cup Done /\ phase' # "failed"
    BY <2>1 DEF Staging, Sealed, Done
  <2> QED
    BY <2>1, <2>2, <2>3 DEF Trees, MadeOK, TreesOK, FinalizedOK, Own
<1> QED
  BY <1>1, <1>2

\* Whatever step of the transaction changes nothing of the trees.
LEMMA WalkTrees ==
    ASSUME Trees,
           \/ Parse \/ List \/ ScanMember \/ SourceAccepted \/ OpenSource \/ VerifyStaged
           \/ SourceStood \/ MeasureStaged \/ LastLook \/ Confirm \/ Breaks
    PROVE  Trees'
<1>1. phase \in Running
  BY DEF Parse, List, ScanMember, SourceAccepted, OpenSource, VerifyStaged, SourceStood,
         MeasureStaged, LastLook, Confirm, Breaks, Running, Scans
<1>2. CASE Fail
  BY <1>1, <1>2, FailTrees
<1>3. CASE ~Fail
  <2>1. UNCHANGED <<kind, snapshot, writing, result>>
    BY <1>3 DEF Parse, List, ScanMember, SourceAccepted, OpenSource, VerifyStaged, SourceStood,
                MeasureStaged, LastLook, Confirm, Breaks, Scanned, reading
  <2>2. Onward
    BY <1>3 DEF Parse, List, ScanMember, SourceAccepted, OpenSource, VerifyStaged, SourceStood,
                MeasureStaged, LastLook, Confirm, Breaks, Scanned, Scans, Onward, Unstaged,
                Staging, Sealed, Done
  <2> QED
    BY <2>1, <2>2, TreesFrame
<1> QED
  BY <1>2, <1>3

LEMMA RestoreTrees ==
    ASSUME Trees,
           \/ RestoreBegin \/ RestoreLoad \/ RestoreMember \/ RestoreScan \/ RestoreVerify
           \/ RestorePromote
    PROVE  Trees'
<1>1. phase \in Done /\ phase' \in Done
  BY DEF RestoreBegin, RestoreLoad, RestoreMember, RestoreScan, RestoreVerify, RestorePromote,
         NotRestored, Done
<1>2. Onward
  BY <1>1 DEF Onward, Unstaged, Staging, Sealed, Done
<1>3. CASE UNCHANGED <<kind, snapshot, writing, result>>
  BY <1>2, <1>3, TreesFrame
<1>4. CASE /\ Verified(result) /\ proof' = "proved"
           /\ UNCHANGED <<kind, snapshot, building, finalized, made, result>>
  BY <1>1, <1>4, ProvedTrees
<1>5. \/ UNCHANGED <<kind, snapshot, writing, result>>
      \/ /\ Verified(result) /\ proof' = "proved"
         /\ UNCHANGED <<kind, snapshot, building, finalized, made, result>>
  BY DEF RestoreBegin, RestoreLoad, RestoreMember, RestoreScan, RestoreVerify, RestorePromote,
         NotRestored, reading
<1> QED
  BY <1>3, <1>4, <1>5

LEMMA ElsewhereTrees ==
    ASSUME Trees,
           \/ \E f \in Files, bytes \in Bytes :
                 \/ \E isSilent \in BOOLEAN : WriteSource(f, bytes, isSilent)
                 \/ ReplaceSource(f, bytes)
           \/ RenameSource \/ ChangeExternal \/ AlterCopy \/ OccupyHome
           \/ UNCHANGED copying
    PROVE  Trees'
<1>1. UNCHANGED <<kind, phase, snapshot, writing, result>>
  BY DEF WriteSource, ReplaceSource, RenameSource, ChangeExternal, AlterCopy, OccupyHome,
         copying, reading
<1>2. Onward
  BY <1>1 DEF Onward
<1> QED
  BY <1>1, <1>2, TreesFrame

LEMMA NextTrees ==
    ASSUME Trees, [CopyNext]_copying
    PROVE  Trees'
BY ScanFirstTrees, WalkTrees, StartCopyTrees, CopyFileTrees, StageTrees, WriteBagTrees,
   WriteReceiptTrees, SealTrees, PromoteTrees, RestoreTrees, ElsewhereTrees,
   AlterPendingTrees, AlterFinalTrees, OccupyFinalTrees DEF CopyNext, Others

LEMMA InitTrees ==
    ASSUME CopyInit
    PROVE  Trees
BY DEF CopyInit, Trees, MadeOK, TreesOK, FinalizedOK, Unstaged, Staging, Sealed, Done, Own
--------------------------------------------------------------------------------
(* Alterations *)

\* Nothing that the proof covers is altered in a result that verifies.
\* (verify_connected_receipt, FolderChangeReceiptVerifier)
THEOREM AlterationsFound == CopySpec => []AlterationsAreFound
<1>1. CopyInit => Trees
  BY InitTrees
<1>2. Trees /\ [CopyNext]_copying => Trees'
  BY NextTrees
<1>3. Trees => AlterationsAreFound
  <2> SUFFICES ASSUME Trees, Own(result), Verified(result)
               PROVE  IF kind[1] = 1 THEN result = made
                      ELSE Data(result) = Data(made) /\ Folders(result) = Folders(made)
                           /\ Proof(result) = Proof(made)
    BY DEF AlterationsAreFound
  <2>1. Derived(result) /\ proof # "unproved" /\ MadeOK
    BY DEF Trees, TreesOK
  <2> QED
    BY <2>1, DerivedAlike DEF Alike
<1> QED
  BY <1>1, <1>2, <1>3, PTL DEF CopySpec
--------------------------------------------------------------------------------
(* Restoration *)

\* A step of the transaction does not restore.
LEMMA RunningRestores ==
    ASSUME phase \in Running, CopyNext, ~Others
    PROVE  RestoreOK'
<1>1. phase' \in Running \cup {"failed", "promoted"}
  BY DEF CopyNext, ScanFirst, Parse, List, ScanMember, SourceAccepted, StartCopy, OpenSource,
         CopyFile, Stage, VerifyStaged, SourceStood, MeasureStaged, WriteBag, WriteReceipt,
         Seal, LastLook, Confirm, PromoteResult, Breaks, RestoreBegin, RestoreLoad,
         RestoreMember, RestoreScan, RestoreVerify, RestorePromote, Scanned, Fail, Running
<1> QED
  BY <1>1 DEF RestoreOK, Running

LEMMA RestoredSame ==
    ASSUME snapshot' = snapshot
    PROVE  Restored(snapshot.bytes)' = Restored(snapshot.bytes)
BY DEF Restored

LEMMA RestoreBeginRestores ==
    ASSUME Trees, RestoreBegin
    PROVE  RestoreOK'
<1>1. CASE NotRestored
  BY <1>1 DEF RestoreOK, NotRestored
<1>2. CASE ~NotRestored
  <2>1. /\ phase = "promoted" /\ phase' = "verified" /\ Verified(result) /\ made' = made
        /\ wanted' = [receipt |-> result[Receipt], rows |-> <<>>]
    BY <1>2 DEF RestoreBegin
  <2>2. result[Receipt] = made[Receipt]
    BY <2>1, ReceiptStands DEF Trees, TreesOK, Done
  <2>3. wanted' = [receipt |-> made'[Receipt], rows |-> wanted'.rows]
    BY <2>1, <2>2
  <2> QED
    BY <2>1, <2>3 DEF RestoreOK
<1> QED
  BY <1>1, <1>2

LEMMA RestoreLoadRestores ==
    ASSUME Trees, RestoreOK, RestoreLoad
    PROVE  RestoreOK'
<1>1. CASE NotRestored
  BY <1>1 DEF RestoreOK, NotRestored
<1>2. CASE ~NotRestored
  <2>1. /\ phase = "verified" /\ phase' = "restoring"
        /\ wanted' = [wanted EXCEPT !.rows = Said(result)]
        /\ Holds(wanted.receipt[2].proof, Snapshot, result[Snapshot])
        /\ UNCHANGED <<made, snapshot>>
    BY <1>2 DEF RestoreLoad, reading, writing
  <2>2. wanted = [receipt |-> made[Receipt], rows |-> wanted.rows]
    BY <2>1 DEF RestoreOK
  <2>3. MadeOK /\ proof # "unproved"
    BY <2>1 DEF Trees, TreesOK, Done
  <2>4. /\ made[Receipt][2].proof = Commitments(made)
        /\ made[Snapshot] = SnapshotOf(snapshot.bytes)
    BY <2>3, VerifiedParts DEF MadeOK, CommitmentsHold
  <2>5. wanted.receipt = made[Receipt]
    BY <2>2
  <2>6. Commitments(made)[Snapshot] = result[Snapshot] /\ Snapshot \in DOMAIN Commitments(made)
    BY <2>1, <2>4, <2>5 DEF Holds, Has
  <2>7. \A p \in DOMAIN Commitments(made) : Commitments(made)[p] = made[p]
    BY DEF Commitments, Restrict
  <2>8. result[Snapshot] = SnapshotOf(snapshot.bytes)
    BY <2>4, <2>6, <2>7
  <2>9. Said(result) = snapshot.bytes
    BY <2>8 DEF Said, SnapshotOf
  <2>10. wanted' = [receipt |-> made[Receipt], rows |-> snapshot.bytes]
    BY <2>1, <2>2, <2>9
  <2> QED
    BY <2>1, <2>10 DEF RestoreOK
<1> QED
  BY <1>1, <1>2

LEMMA RestoreScanRestores ==
    ASSUME RestoreOK, RestoreScan
    PROVE  RestoreOK'
<1>1. CASE NotRestored
  BY <1>1 DEF RestoreOK, NotRestored
<1>2. CASE ~NotRestored
  <2>1. /\ phase = "restoring" /\ phase' \in {"returning", "reverifying"}
        /\ Whole = Restored(wanted.rows) /\ copy' = Whole /\ snapshot' = snapshot
    BY <1>2 DEF RestoreScan, reading
  <2>2. copy' = Restored(snapshot.bytes)'
    BY <2>1, RestoredSame DEF RestoreOK
  <2> QED
    BY <2>1, <2>2 DEF RestoreOK
<1> QED
  BY <1>1, <1>2

LEMMA OtherRestores ==
    ASSUME RestoreOK, RestoreMember \/ RestoreVerify \/ RestorePromote
    PROVE  RestoreOK'
<1>1. CASE NotRestored
  BY <1>1 DEF RestoreOK, NotRestored
<1>2. CASE ~NotRestored
  <2>1. UNCHANGED <<made, snapshot, wanted, late>>
    BY <1>2 DEF RestoreMember, RestoreVerify, RestorePromote, read, reading, writing, restoring
  <2>2. Restored(snapshot.bytes)' = Restored(snapshot.bytes)
    BY <2>1, RestoredSame
  <2>3. \/ phase = "restoring" /\ phase' = "restoring"
        \/ phase = "reverifying" /\ phase' = "returning" /\ copy' = copy
        \/ phase = "returning" /\ phase' = "restored" /\ home' = copy
    BY <1>2 DEF RestoreMember, RestoreVerify, RestorePromote, restoring
  <2> QED
    BY <2>1, <2>2, <2>3 DEF RestoreOK
<1> QED
  BY <1>1, <1>2

LEMMA ElsewhereRestores ==
    ASSUME RestoreOK, Others \/ UNCHANGED copying
    PROVE  RestoreOK'
<1>1. UNCHANGED <<phase, made, snapshot, wanted>>
  BY DEF Others, WriteSource, ReplaceSource, RenameSource, ChangeExternal, AlterPending,
         AlterFinal, AlterCopy, OccupyFinal, OccupyHome, copying, reading, writing, restoring
<1>2. /\ copy' = copy \/ "copy" \in late'
      /\ "copy" \in late => "copy" \in late'
      /\ phase = "restored" => home' = home
  BY DEF Others, WriteSource, ReplaceSource, RenameSource, ChangeExternal, AlterPending,
         AlterFinal, AlterCopy, OccupyFinal, OccupyHome, copying, read, restoring
<1>3. Restored(snapshot.bytes)' = Restored(snapshot.bytes)
  BY <1>1, RestoredSame
<1> QED
  BY <1>1, <1>2, <1>3 DEF RestoreOK

LEMMA NextRestores ==
    ASSUME Trees, RestoreOK, [CopyNext]_copying
    PROVE  RestoreOK'
<1>1. CASE phase \in Running /\ CopyNext /\ ~Others
  BY <1>1, RunningRestores
<1>2. CASE Others \/ UNCHANGED copying
  BY <1>2, ElsewhereRestores
<1>3. CASE phase \notin Running /\ CopyNext /\ ~Others
  <2>1. \/ RestoreBegin \/ RestoreLoad \/ RestoreMember \/ RestoreScan \/ RestoreVerify
        \/ RestorePromote
    BY <1>3 DEF CopyNext, ScanFirst, Parse, List, ScanMember, SourceAccepted, StartCopy,
         OpenSource, CopyFile, Stage, VerifyStaged, SourceStood, MeasureStaged, WriteBag,
         WriteReceipt, Seal, LastLook, Confirm, PromoteResult, Breaks, Running, Scans
  <2> QED
    BY <2>1, RestoreBeginRestores, RestoreLoadRestores, RestoreScanRestores, OtherRestores
<1> QED
  BY <1>1, <1>2, <1>3

LEMMA StrangersStay ==
    ASSUME CopyAssumption, [CopyNext]_copying
    PROVE  /\ result = Stranger => result' = Stranger
           /\ home = Stranger => home' = Stranger
<1>1. Absent # Stranger
  BY DEF CopyAssumption
<1>2. CASE CopyNext /\ ~Others
  BY <1>1, <1>2 DEF CopyNext, ScanFirst, Parse, List, ScanMember, SourceAccepted, StartCopy,
         OpenSource, CopyFile, Stage, VerifyStaged, SourceStood, MeasureStaged, WriteBag,
         WriteReceipt, Seal, LastLook, Confirm, PromoteResult, Breaks, RestoreBegin,
         RestoreLoad, RestoreMember, RestoreScan, RestoreVerify, RestorePromote, NotRestored,
         Scanned, Fail, restoring
<1>3. CASE Others \/ UNCHANGED copying
  BY <1>1, <1>3 DEF Others, WriteSource, ReplaceSource, RenameSource, ChangeExternal,
         AlterPending, AlterFinal, AlterCopy, OccupyFinal, OccupyHome, copying, restoring
<1> QED
  BY <1>2, <1>3

\* What a restoration puts back is the source as it was scanned, and it takes the place of
\* nothing. (reconstruction.py)
THEOREM RestoresAreSource ==
    ASSUME CopyAssumption
    PROVE  CopySpec => RestoredIsSource
<1> DEFINE Inv == Trees /\ RestoreOK
           Stay == /\ result = Stranger => result' = Stranger
                   /\ home = Stranger => home' = Stranger
           Source == phase = "restored" => (home = Restored(snapshot.bytes) \/ "copy" \in late)
<1>1. CopyInit => Inv
  BY InitTrees DEF CopyInit, RestoreOK
<1>2. Inv /\ [CopyNext]_copying => Inv'
  BY NextTrees, NextRestores
<1>3. Inv => Source
  BY DEF RestoreOK
<1>4. [CopyNext]_copying => [Stay]_copying
  BY StrangersStay
<1> HIDE DEF Inv
<1> QED
  BY <1>1, <1>2, <1>3, <1>4, PTL DEF CopySpec, RestoredIsSource
--------------------------------------------------------------------------------
(* Types *)

LEMMA Walk ==
    ASSUME CopyAssumption
    PROVE  /\ Len(Order) \in Nat /\ DOMAIN Order = 1 .. Len(Order)
           /\ \A i \in 1 .. Len(Order) : Order[i] \in Files
           /\ \A f \in Files : \E i \in 1 .. Len(Order) : Order[i] = f
           /\ {MaxEdits, MaxSilent, MaxAltered} \subseteq Nat
           /\ "listing" \notin Files /\ "external" \notin Files /\ "copy" \notin Files
<1>1. Order \in Seq(Range(Order))
  BY DEF CopyAssumption
<1>2. Len(Order) \in Nat /\ DOMAIN Order = 1 .. Len(Order)
  BY <1>1
<1>3. /\ \A i \in 1 .. Len(Order) : Order[i] \in Files
      /\ \A f \in Files : \E i \in 1 .. Len(Order) : Order[i] = f
  BY <1>2 DEF Files, Range
<1> QED
  BY <1>2, <1>3 DEF CopyAssumption, Files

LEMMA TypeFacts ==
    ASSUME CopyAssumption, Types
    PROVE  /\ next \in 0 .. Len(Order) + 1 /\ Len(Order) \in Nat
           /\ folder \in Sources /\ edits \in Nat /\ edits <= MaxEdits
           /\ silent \in Nat /\ silent <= MaxSilent
           /\ same \in BOOLEAN
<1>1. /\ next \in 0 .. Len(Order) + 1 /\ folder \in Sources /\ edits \in 0 .. MaxEdits
      /\ silent \in 0 .. MaxSilent /\ {same, finalized} \subseteq BOOLEAN
  BY DEF Types, CopyTypeOK, Sources
<1>2. Len(Order) \in Nat /\ MaxEdits \in Nat /\ MaxSilent \in Nat
  BY Walk
<1> QED
  BY <1>1, <1>2

\* The program changes nothing of what it reads, and looks once more.
LEMMA ProgramReads ==
    ASSUME CopyNext, ~Others
    PROVE  /\ UNCHANGED <<kind, folder, external, edits, silent, altered>>
           /\ late' \subseteq late
BY DEF CopyNext, ScanFirst, Parse, List, ScanMember, SourceAccepted, StartCopy, OpenSource,
       CopyFile, Stage, VerifyStaged, SourceStood, MeasureStaged, WriteBag, WriteReceipt, Seal,
       LastLook, Confirm, PromoteResult, Breaks, RestoreBegin, RestoreLoad, RestoreMember,
       RestoreScan, RestoreVerify, RestorePromote, NotRestored, Scanned, Fail, read, counted

\* Others change nothing of what the program keeps to itself.
LEMMA OthersKeep ==
    ASSUME Others \/ UNCHANGED copying
    PROVE  /\ UNCHANGED <<kind, phase, next, snapshot, same, moment, finalized, made, wanted>>
           /\ late \subseteq late' /\ (Absent = opened => opened' = opened)
BY DEF Others, WriteSource, ReplaceSource, RenameSource, ChangeExternal, AlterPending,
       AlterFinal, AlterCopy, OccupyFinal, OccupyHome, copying, read, reading, writing,
       restoring

\* What opens a file, or goes on to the next one.
LEMMA CopyingTypes ==
    ASSUME CopyAssumption, Types, phase = "copying", CopyNext, ~Others
    PROVE  OpenedOK' /\ next' \in 0 .. Len(Order) + 1
<1>1. next \in 0 .. Len(Order) + 1 /\ Len(Order) \in Nat
  BY Walk DEF Types, CopyTypeOK
<1>2. OpenSource \/ (\E bytes \in Bytes \cup {"mixed"} : CopyFile(bytes)) \/ Stage \/ Fail
  BY DEF CopyNext, ScanFirst, Parse, List, ScanMember, SourceAccepted, StartCopy, VerifyStaged,
         SourceStood, MeasureStaged, WriteBag, WriteReceipt, Seal, LastLook, Confirm,
         PromoteResult, Breaks, RestoreBegin, RestoreLoad, RestoreMember, RestoreScan,
         RestoreVerify, RestorePromote, Scans
<1>3. CASE Fail
  BY <1>1, <1>3 DEF Fail, OpenedOK
<1>4. CASE OpenSource /\ ~Fail
  BY <1>1, <1>4 DEF OpenSource, OpenedOK
<1>5. ASSUME NEW bytes, CopyFile(bytes), ~Fail
      PROVE  OpenedOK' /\ next' \in 0 .. Len(Order) + 1
  <2>1. opened # Absent /\ opened' = Absent /\ next' \in {next, next + 1}
    BY <1>5 DEF CopyFile
  <2>2. next <= Len(Order)
    BY <2>1 DEF Types, OpenedOK
  <2> QED
    BY <1>1, <2>1, <2>2 DEF OpenedOK
<1>6. CASE Stage /\ ~Fail
  <2>1. next > Len(Order) /\ opened' = opened /\ next' = 1
    BY <1>6 DEF Stage, reading
  <2> QED
    BY <1>1, <2>1 DEF Types, OpenedOK
<1> QED
  BY <1>2, <1>3, <1>4, <1>5, <1>6

LEMMA PhaseTypes ==
    ASSUME CopyAssumption, Types, CopyNext, ~Others
    PROVE  /\ phase' \in Running \cup {"failed", "promoted", "verified", "restoring",
                               "reverifying", "returning", "restored", "not restored"}
           /\ next' \in 0 .. Len(Order) + 1
           /\ OpenedOK'
<1>1. phase' \in Running \cup {"failed", "promoted", "verified", "restoring", "reverifying",
                               "returning", "restored", "not restored"}
  BY DEF CopyNext, ScanFirst, Parse, List, ScanMember, SourceAccepted, StartCopy, OpenSource,
         CopyFile, Stage, VerifyStaged, SourceStood, MeasureStaged, WriteBag, WriteReceipt,
         Seal, LastLook, Confirm, PromoteResult, Breaks, RestoreBegin, RestoreLoad,
         RestoreMember, RestoreScan, RestoreVerify, RestorePromote, NotRestored, Scanned, Fail,
         Running, Scans
<1>2. CASE phase = "copying"
  BY <1>1, <1>2, CopyingTypes
<1>3. CASE phase # "copying"
  <2>1. /\ next \in 0 .. Len(Order) + 1 /\ Len(Order) \in Nat /\ DOMAIN Order = 1 .. Len(Order)
        /\ opened = Absent
    BY <1>3, Walk DEF Types, CopyTypeOK, OpenedOK
  <2>2. CASE Fail \/ NotRestored
    <3>1. next' = 1 /\ opened' = Absent
      BY <2>1, <2>2 DEF Fail, NotRestored, reading
    <3>2. next' \in 0 .. Len(Order) + 1
      BY <2>1, <3>1
    <3> QED
      BY <1>1, <3>1, <3>2 DEF OpenedOK
  <2>3. CASE ~Fail /\ ~NotRestored
    <3>1. opened' = Absent
      BY <1>3, <2>1, <2>3 DEF CopyNext, ScanFirst, Parse, List, ScanMember, SourceAccepted,
         StartCopy, OpenSource, CopyFile, Stage, VerifyStaged, SourceStood, MeasureStaged,
         WriteBag, WriteReceipt, Seal, LastLook, Confirm, PromoteResult, Breaks, RestoreBegin,
         RestoreLoad, RestoreMember, RestoreScan, RestoreVerify, RestorePromote, Scanned,
         reading
    <3>2. \/ next' \in {0, 1}
          \/ next' = next + 1 /\ (next <= Len(Order) \/ next \in DOMAIN Order)
      BY <1>3, <2>3 DEF CopyNext, ScanFirst, Parse, List, ScanMember, SourceAccepted,
         StartCopy, OpenSource, CopyFile, Stage, VerifyStaged, SourceStood, MeasureStaged,
         WriteBag, WriteReceipt, Seal, LastLook, Confirm, PromoteResult, Breaks, RestoreBegin,
         RestoreLoad, RestoreMember, RestoreScan, RestoreVerify, RestorePromote, Scanned
    <3>3. next' \in 0 .. Len(Order) + 1
      BY <2>1, <3>2
    <3> QED
      BY <1>1, <3>1, <3>3 DEF OpenedOK
  <2> QED
    BY <2>2, <2>3
<1> QED
  BY <1>2, <1>3

LEMMA FlagTypes ==
    ASSUME Types, CopyNext
    PROVE  {same, finalized}' \subseteq BOOLEAN /\ proof' \in {"unproved", "proved", "altered"}
<1>1. {same, finalized} \subseteq BOOLEAN /\ proof \in {"unproved", "proved", "altered"}
  BY DEF Types, CopyTypeOK
<1>2. proof' \in {proof, "proved", "altered"}
  BY DEF CopyNext, Others, ScanFirst, Parse, List, ScanMember, SourceAccepted, StartCopy,
       OpenSource, CopyFile, Stage, VerifyStaged, SourceStood, MeasureStaged, WriteBag,
       WriteReceipt, Seal, LastLook, Confirm, PromoteResult, Breaks, RestoreBegin, RestoreLoad,
       RestoreMember, RestoreScan, RestoreVerify, RestorePromote, NotRestored, Scanned, Fail,
       WriteSource, ReplaceSource, RenameSource, ChangeExternal, AlterPending, AlterFinal,
       AlterCopy, OccupyFinal, OccupyHome, Shaken, writing
<1>3. \/ same' = same
      \/ same' = (folder.names = snapshot.names /\ folder.listing = snapshot.listing)
      \/ same' = (same /\ ReadMarkdown(File))
  BY DEF CopyNext, Others, ScanFirst, Parse, List, ScanMember, SourceAccepted, StartCopy,
       OpenSource, CopyFile, Stage, VerifyStaged, SourceStood, MeasureStaged, WriteBag,
       WriteReceipt, Seal, LastLook, Confirm, PromoteResult, Breaks, RestoreBegin, RestoreLoad,
       RestoreMember, RestoreScan, RestoreVerify, RestorePromote, NotRestored, Scanned, Fail,
       WriteSource, ReplaceSource, RenameSource, ChangeExternal, AlterPending, AlterFinal,
       AlterCopy, OccupyFinal, OccupyHome, reading
<1>4. \/ finalized' = finalized
      \/ finalized' = TRUE
      \/ finalized' = (kind[1] = 1)
  BY DEF CopyNext, Others, ScanFirst, Parse, List, ScanMember, SourceAccepted, StartCopy,
       OpenSource, CopyFile, Stage, VerifyStaged, SourceStood, MeasureStaged, WriteBag,
       WriteReceipt, Seal, LastLook, Confirm, PromoteResult, Breaks, RestoreBegin, RestoreLoad,
       RestoreMember, RestoreScan, RestoreVerify, RestorePromote, NotRestored, Scanned, Fail,
       WriteSource, ReplaceSource, RenameSource, ChangeExternal, AlterPending, AlterFinal,
       AlterCopy, OccupyFinal, OccupyHome, writing
<1>5. same' \in BOOLEAN
  BY <1>1, <1>3
<1>6. finalized' \in BOOLEAN
  BY <1>1, <1>4
<1> QED
  BY <1>1, <1>2, <1>5, <1>6

LEMMA SourceTypes ==
    ASSUME CopyAssumption, Types, Others
    PROVE  /\ folder' \in Sources
           /\ late' \subseteq Files \cup {"listing", "external", "copy"}
           /\ external' \in {"read", "changed"}
           /\ silent' \in 0 .. MaxSilent /\ altered' \in 0 .. MaxAltered
           /\ edits' \in 0 .. MaxEdits
           /\ OpenedOK'
<1> DEFINE Typed == /\ folder' \in Sources
                    /\ late' \subseteq Files \cup {"listing", "external", "copy"}
                    /\ external' \in {"read", "changed"}
                    /\ silent' \in 0 .. MaxSilent /\ altered' \in 0 .. MaxAltered
                    /\ edits' \in 0 .. MaxEdits
                    /\ OpenedOK'
<1>1. /\ folder \in Sources
      /\ late \subseteq Files \cup {"listing", "external", "copy"}
      /\ external \in {"read", "changed"}
      /\ silent \in 0 .. MaxSilent /\ altered \in 0 .. MaxAltered
      /\ edits \in 0 .. MaxEdits
      /\ OpenedOK /\ {MaxEdits, MaxSilent, MaxAltered} \subseteq Nat
  BY Walk DEF Types, CopyTypeOK, Sources
<1>2. /\ UNCHANGED <<phase, next>>
      /\ (Absent = opened => opened' = opened)
  BY OthersKeep
<1>3. OpenedOK'
  BY <1>1, <1>2 DEF OpenedOK
<1>4. edits' \in 0 .. MaxEdits
  <2>1. edits < MaxEdits /\ edits' = edits + 1
    BY DEF Others, WriteSource, ReplaceSource, RenameSource, ChangeExternal, AlterPending,
           AlterFinal, AlterCopy, OccupyFinal, OccupyHome, Disturb
  <2> QED
    BY <1>1, <2>1
<1>5. ASSUME NEW f \in Files, NEW bytes \in Bytes, NEW isSilent \in BOOLEAN,
             WriteSource(f, bytes, isSilent)
      PROVE  Typed
  <2>1. /\ folder' = [folder EXCEPT !.bytes[f] = bytes, !.id[f] = IF isSilent THEN @ ELSE edits']
        /\ late' = late \cup {f} /\ UNCHANGED <<altered, external>>
        /\ isSilent => silent < MaxSilent
        /\ silent' = IF isSilent THEN silent + 1 ELSE silent
    BY <1>5 DEF WriteSource
  <2>2. folder' \in Sources
    BY <1>1, <1>4, <2>1 DEF Sources
  <2>3. silent' \in 0 .. MaxSilent
    BY <1>1, <2>1
  <2> QED
    BY <1>1, <1>3, <1>4, <2>1, <2>2, <2>3
<1>6. ASSUME NEW f \in Files, NEW bytes \in Bytes, ReplaceSource(f, bytes)
      PROVE  Typed
  <2>1. /\ folder' = [folder EXCEPT !.bytes[f] = bytes, !.id[f] = edits', !.listing = edits']
        /\ late' = late \cup {f, "listing"} /\ UNCHANGED <<silent, altered, external>>
    BY <1>6 DEF ReplaceSource, counted
  <2>2. folder' \in Sources
    BY <1>1, <1>4, <2>1 DEF Sources
  <2> QED
    BY <1>1, <1>3, <1>4, <2>1, <2>2
<1>7. CASE RenameSource
  <2>1. PICK n \in Files \cup Empties \cup {"x"} :
            folder' = [folder EXCEPT !.names = IF n \in @ THEN @ \ {n} ELSE @ \cup {n},
                                     !.listing = edits']
    BY <1>7 DEF RenameSource
  <2>2. folder' \in Sources
    BY <1>1, <1>4, <2>1 DEF Sources
  <2> QED
    BY <1>1, <1>3, <1>4, <1>7, <2>2 DEF RenameSource, counted
<1>8. CASE ChangeExternal \/ AlterPending \/ AlterFinal \/ AlterCopy \/ OccupyFinal \/ OccupyHome
  <2>1. folder' = folder
    BY <1>8 DEF ChangeExternal, AlterPending, AlterFinal, AlterCopy, OccupyFinal, OccupyHome
  <2>2. late' \subseteq late \cup {"external", "copy"} /\ external' \in {external, "changed"}
    BY <1>8 DEF ChangeExternal, AlterPending, AlterFinal, AlterCopy, OccupyFinal, OccupyHome
  <2>3. silent' = silent /\ altered' \in 0 .. MaxAltered
    BY <1>1, <1>8 DEF ChangeExternal, AlterPending, AlterFinal, AlterCopy, OccupyFinal,
                      OccupyHome, Alter, counted
  <2> QED
    BY <1>1, <1>3, <1>4, <2>1, <2>2, <2>3
<1> QED
  BY <1>5, <1>6, <1>7, <1>8 DEF Others

LEMMA NextTypes ==
    ASSUME CopyAssumption, Types, [CopyNext]_copying
    PROVE  Types'
<1>1. CASE CopyNext /\ ~Others
  BY <1>1, PhaseTypes, FlagTypes, ProgramReads DEF Types, CopyTypeOK
<1>2. CASE Others
  BY <1>2, OthersKeep, FlagTypes, SourceTypes DEF Types, CopyTypeOK, Sources, CopyNext
<1>3. CASE UNCHANGED copying
  BY <1>3 DEF Types, CopyTypeOK, OpenedOK, copying, read, reading, writing, counted
<1> QED
  BY <1>1, <1>2, <1>3

LEMMA NextNumbers ==
    ASSUME CopyAssumption, Types, [CopyNext]_copying
    PROVE  edits' \in Nat /\ silent' \in Nat
<1>1. Types'
  BY NextTypes
<1>2. /\ edits' \in 0 .. MaxEdits /\ silent' \in 0 .. MaxSilent
      /\ {MaxEdits, MaxSilent, MaxAltered} \subseteq Nat
  BY <1>1, Walk DEF Types, CopyTypeOK
<1> QED
  BY <1>2

LEMMA InitTypes ==
    ASSUME CopyAssumption, CopyInit
    PROVE  Types
<1>1. Untouched \in Sources
  BY Walk DEF Untouched, Sources, Bytes
<1>2. Len(Order) \in Nat /\ {MaxEdits, MaxSilent, MaxAltered} \subseteq Nat
  BY Walk
<1>3. OpenedOK
  BY DEF CopyInit, OpenedOK
<1>4. folder \in Sources
  BY <1>1 DEF CopyInit
<1>5. /\ kind \in Kinds /\ phase \in Running /\ {same, finalized} \subseteq BOOLEAN
      /\ late = {} /\ proof = "unproved" /\ external = "read"
  BY DEF CopyInit, Running
<1>6. next = 1 /\ silent = 0 /\ altered = 0 /\ edits = 0
  BY DEF CopyInit
<1>7. /\ next \in 0 .. Len(Order) + 1 /\ silent \in 0 .. MaxSilent
      /\ altered \in 0 .. MaxAltered /\ edits \in 0 .. MaxEdits
  BY <1>2, <1>6
<1> QED
  BY <1>3, <1>4, <1>5, <1>7 DEF Types, CopyTypeOK, Sources
--------------------------------------------------------------------------------
(* The source *)

\* What other programs make of a file: nothing, another one, or silently other bytes.
LEMMA SourceMoves ==
    ASSUME CopyAssumption, Types, Others \/ UNCHANGED copying
    PROVE  /\ silent' >= silent /\ edits' >= edits /\ late \subseteq late'
           /\ \A g \in Files :
                 \/ folder'.id[g] = folder.id[g] /\ folder'.bytes[g] = folder.bytes[g]
                 \/ g \in late' /\ folder'.id[g] = edits' /\ edits' = edits + 1
                 \/ /\ g \in late' /\ folder'.id[g] = folder.id[g]
                    /\ silent < MaxSilent /\ silent' = silent + 1
           /\ \/ folder'.names = folder.names /\ folder'.listing = folder.listing
              \/ "listing" \in late' /\ folder'.listing = edits' /\ edits' = edits + 1
           /\ external' = external \/ "external" \in late'
<1>1. silent \in Nat /\ edits \in Nat /\ folder \in Sources
  BY TypeFacts
<1>2. late \subseteq late'
  BY OthersKeep
<1>3. ASSUME NEW f \in Files, NEW bytes \in Bytes, NEW isSilent \in BOOLEAN,
             WriteSource(f, bytes, isSilent)
      PROVE  /\ silent' >= silent /\ edits' >= edits
             /\ \A g \in Files :
                 \/ folder'.id[g] = folder.id[g] /\ folder'.bytes[g] = folder.bytes[g]
                 \/ g \in late' /\ folder'.id[g] = edits' /\ edits' = edits + 1
                 \/ /\ g \in late' /\ folder'.id[g] = folder.id[g]
                    /\ silent < MaxSilent /\ silent' = silent + 1
             /\ folder'.names = folder.names /\ folder'.listing = folder.listing
             /\ external' = external
  <2>1. /\ folder' = [folder EXCEPT !.bytes[f] = bytes, !.id[f] = IF isSilent THEN @ ELSE edits']
        /\ late' = late \cup {f} /\ external' = external /\ edits' = edits + 1
        /\ isSilent => silent < MaxSilent
        /\ silent' = IF isSilent THEN silent + 1 ELSE silent
    BY <1>3 DEF WriteSource, Disturb
  <2>2. /\ folder'.names = folder.names /\ folder'.listing = folder.listing
        /\ \A g \in Files : g # f => folder'.id[g] = folder.id[g]
                                     /\ folder'.bytes[g] = folder.bytes[g]
        /\ folder'.id[f] = IF isSilent THEN folder.id[f] ELSE edits'
    BY <1>1, <2>1 DEF Sources
  <2> QED
    BY <1>1, <2>1, <2>2
<1>4. ASSUME NEW f \in Files, NEW bytes \in Bytes, ReplaceSource(f, bytes)
      PROVE  /\ silent' = silent /\ edits' = edits + 1
             /\ \A g \in Files :
                 \/ folder'.id[g] = folder.id[g] /\ folder'.bytes[g] = folder.bytes[g]
                 \/ g \in late' /\ folder'.id[g] = edits'
             /\ "listing" \in late' /\ folder'.listing = edits'
             /\ external' = external
  <2>1. /\ folder' = [folder EXCEPT !.bytes[f] = bytes, !.id[f] = edits', !.listing = edits']
        /\ late' = late \cup {f, "listing"} /\ UNCHANGED <<silent, external>>
        /\ edits' = edits + 1
    BY <1>4 DEF ReplaceSource, Disturb, counted
  <2>2. /\ folder'.listing = edits'
        /\ \A g \in Files : g # f => folder'.id[g] = folder.id[g]
                                     /\ folder'.bytes[g] = folder.bytes[g]
        /\ folder'.id[f] = edits'
    BY <1>1, <2>1 DEF Sources
  <2> QED
    BY <2>1, <2>2
<1>5. ASSUME RenameSource
      PROVE  /\ silent' = silent /\ edits' = edits + 1
             /\ folder'.id = folder.id /\ folder'.bytes = folder.bytes
             /\ "listing" \in late' /\ folder'.listing = edits'
             /\ external' = external
  <2>1. /\ \E n \in Files \cup Empties \cup {"x"} :
               folder' = [folder EXCEPT !.names = IF n \in @ THEN @ \ {n} ELSE @ \cup {n},
                                        !.listing = edits']
        /\ late' = late \cup {"listing"} /\ UNCHANGED <<silent, external>>
        /\ edits' = edits + 1
    BY <1>5 DEF RenameSource, Disturb, counted
  <2> QED
    BY <1>1, <2>1 DEF Sources
<1>6. ASSUME \/ ChangeExternal \/ AlterPending \/ AlterFinal \/ AlterCopy \/ OccupyFinal
             \/ OccupyHome \/ UNCHANGED copying
      PROVE  /\ UNCHANGED <<folder, silent>> /\ edits' \in {edits, edits + 1}
             /\ external' = external \/ "external" \in late'
  BY <1>6 DEF ChangeExternal, AlterPending, AlterFinal, AlterCopy, OccupyFinal, OccupyHome,
              Disturb, copying, read, counted
<1>7. CASE \E f \in Files, bytes \in Bytes, isSilent \in BOOLEAN : WriteSource(f, bytes, isSilent)
  BY <1>2, <1>3, <1>7
<1>8. CASE \E f \in Files, bytes \in Bytes : ReplaceSource(f, bytes)
  <2> PICK f \in Files, bytes \in Bytes : ReplaceSource(f, bytes)
    BY <1>8
  <2>1. silent' >= silent /\ edits' >= edits
    BY <1>1, <1>4
  <2> QED
    BY <1>2, <1>4, <2>1
<1>9. CASE RenameSource
  <2>1. silent' >= silent /\ edits' >= edits
    BY <1>1, <1>5, <1>9
  <2> QED
    BY <1>2, <1>5, <1>9, <2>1
<1>10. CASE \/ ChangeExternal \/ AlterPending \/ AlterFinal \/ AlterCopy \/ OccupyFinal
            \/ OccupyHome \/ UNCHANGED copying
  <2>1. silent' >= silent /\ edits' >= edits
    BY <1>1, <1>6, <1>10
  <2> QED
    BY <1>2, <1>6, <1>10, <2>1
<1> QED
  BY <1>7, <1>8, <1>9, <1>10 DEF Others

LEMMA NextSource ==
    ASSUME CopyAssumption, Types, SourceOK, [CopyNext]_copying
    PROVE  SourceOK'
<1>1. CASE CopyNext /\ ~Others
  BY <1>1, ProgramReads DEF SourceOK
<1>2. CASE Others \/ UNCHANGED copying
  <2>1. folder \in Sources /\ edits \in Nat /\ edits' \in Nat
    BY NextNumbers, TypeFacts
  <2>2. \A g \in Files : folder.id[g] \in Nat /\ folder.id[g] <= edits
    BY <2>1, Walk DEF SourceOK, Sources
  <2>3. folder.listing \in Nat /\ folder.listing <= edits
    BY <2>1, Walk DEF SourceOK, Sources
  <2>4. edits' >= edits
    BY <1>2, SourceMoves
  <2>5. \A g \in Files : folder'.id[g] = folder.id[g] \/ folder'.id[g] = edits'
    BY <1>2, SourceMoves
  <2>6. \A g \in Files : folder'.id[g] <= edits'
    BY <2>1, <2>2, <2>4, <2>5
  <2>7. \/ folder'.names = folder.names /\ folder'.listing = folder.listing
        \/ folder'.listing = edits' /\ edits' = edits + 1
    BY <1>2, SourceMoves
  <2>8. folder'.listing <= edits' /\ (folder'.listing = 0 => folder'.names = Files \cup Empties)
    BY <2>1, <2>3, <2>4, <2>7 DEF SourceOK
  <2> QED
    BY <2>6, <2>8 DEF SourceOK
<1> QED
  BY <1>1, <1>2
--------------------------------------------------------------------------------
(* The scans *)

LEMMA WalkedAll ==
    ASSUME CopyAssumption, Types, next > Len(Order)
    PROVE  Walked = Files
<1>1. next = Len(Order) + 1 /\ Len(Order) \in Nat
  BY TypeFacts
<1>2. 1 .. (next - 1) = 1 .. Len(Order)
  BY <1>1
<1> QED
  BY <1>2, Walk DEF Walked

LEMMA WalkedFiles ==
    ASSUME CopyAssumption, Types
    PROVE  Walked \subseteq Files
<1>1. next \in 0 .. Len(Order) + 1 /\ Len(Order) \in Nat
  BY TypeFacts
<1>2. \A i \in 1 .. (next - 1) : i \in 1 .. Len(Order)
  BY <1>1
<1> QED
  BY <1>2, Walk DEF Walked

LEMMA WalkedMore ==
    ASSUME CopyAssumption, next \in 1 .. Len(Order), next' = next + 1
    PROVE  Walked' = Walked \cup {File} /\ File \in Files
<1>1. Len(Order) \in Nat
  BY Walk
<1>2. 1 .. (next' - 1) = (1 .. (next - 1)) \cup {next}
  BY <1>1
<1> QED
  BY <1>2, Walk DEF Walked, File

LEMMA WalkedNone ==
    ASSUME next' = 1
    PROVE  Walked' = {}
BY DEF Walked

\* What follows on a phase.
LEMMA ByPhase ==
    ASSUME CopyNext, ~Others
    PROVE  /\ phase # "failed"
           /\ phase = "scanning" => ScanFirst \/ Parse \/ Fail
           /\ phase = "rescanning" => List \/ ScanMember \/ SourceAccepted \/ Fail
           /\ phase \notin {"scanning", "rescanning"} =>
                 phase' \notin {"scanning", "rescanning"} /\ UNCHANGED moment
           /\ phase # "scanning" => UNCHANGED snapshot /\ phase' # "scanning"
           /\ phase = "last look" => List \/ ScanMember \/ LastLook \/ Fail
           /\ phase = "confirming" => Confirm \/ Fail
           /\ phase \notin {"last look", "confirming", "promoting"} =>
                 /\ phase' \notin {"confirming", "promoting", "promoted"}
                 /\ phase' = "last look" => next' = 0
<1>1. phase # "failed"
  BY DEF CopyNext, ScanFirst, Parse, List, ScanMember, SourceAccepted, StartCopy, OpenSource,
         CopyFile, Stage, VerifyStaged, SourceStood, MeasureStaged, WriteBag, WriteReceipt,
         Seal, LastLook, Confirm, PromoteResult, Breaks, RestoreBegin, RestoreLoad,
         RestoreMember, RestoreScan, RestoreVerify, RestorePromote, Running, Scans
<1>2. /\ phase = "scanning" => ScanFirst \/ Parse \/ Fail
      /\ phase = "rescanning" => List \/ ScanMember \/ SourceAccepted \/ Fail
      /\ phase = "last look" => List \/ ScanMember \/ LastLook \/ Fail
      /\ phase = "confirming" => Confirm \/ Fail
  BY DEF CopyNext, ScanFirst, Parse, SourceAccepted, StartCopy, OpenSource,
         CopyFile, Stage, VerifyStaged, SourceStood, MeasureStaged, WriteBag, WriteReceipt,
         Seal, LastLook, Confirm, PromoteResult, Breaks, RestoreBegin, RestoreLoad,
         RestoreMember, RestoreScan, RestoreVerify, RestorePromote, Scans, List, ScanMember
<1>3. phase \notin {"scanning", "rescanning"} =>
         phase' \notin {"scanning", "rescanning"} /\ UNCHANGED moment
  BY DEF CopyNext, ScanFirst, Parse, List, ScanMember, SourceAccepted, StartCopy, OpenSource,
         CopyFile, Stage, VerifyStaged, SourceStood, MeasureStaged, WriteBag, WriteReceipt,
         Seal, LastLook, Confirm, PromoteResult, Breaks, RestoreBegin, RestoreLoad,
         RestoreMember, RestoreScan, RestoreVerify, RestorePromote, NotRestored, Scanned, Fail,
         Scans, reading
<1>4. phase # "scanning" => UNCHANGED snapshot /\ phase' # "scanning"
  BY DEF CopyNext, ScanFirst, Parse, List, ScanMember, SourceAccepted, StartCopy, OpenSource,
         CopyFile, Stage, VerifyStaged, SourceStood, MeasureStaged, WriteBag, WriteReceipt,
         Seal, LastLook, Confirm, PromoteResult, Breaks, RestoreBegin, RestoreLoad,
         RestoreMember, RestoreScan, RestoreVerify, RestorePromote, NotRestored, Scanned, Fail,
         Scans, reading
<1>5. phase \notin {"last look", "confirming", "promoting"} =>
         /\ phase' \notin {"confirming", "promoting", "promoted"}
         /\ phase' = "last look" => next' = 0
  BY DEF CopyNext, ScanFirst, Parse, List, ScanMember, SourceAccepted, StartCopy, OpenSource,
         CopyFile, Stage, VerifyStaged, SourceStood, MeasureStaged, WriteBag, WriteReceipt,
         Seal, LastLook, Confirm, PromoteResult, Breaks, RestoreBegin, RestoreLoad,
         RestoreMember, RestoreScan, RestoreVerify, RestorePromote, NotRestored, Scanned, Fail,
         Scans
<1> QED
  BY <1>1, <1>2, <1>3, <1>4, <1>5
--------------------------------------------------------------------------------
(* The snapshot *)

\* What a scan made of one more file.
LEMMA ScannedFile ==
    ASSUME CopyAssumption, Types, SnapshotOK, ScanFirst, ~Fail
    PROVE  /\ phase = "scanning" /\ phase' = "scanning" /\ next' = next + 1
           /\ File \in Files /\ Walked' = Walked \cup {File}
           /\ snapshot' = [bytes |-> snapshot'.bytes, id |-> snapshot'.id,
                           names |-> Files \cup Empties, listing |-> 0]
           /\ Puts(snapshot'.bytes, File, folder.bytes[File], snapshot.bytes)
           /\ Puts(snapshot'.id, File, folder.id[File], snapshot.id)
<1>1. /\ phase = "scanning" /\ phase' = "scanning" /\ next' = next + 1 /\ next <= Len(Order)
      /\ snapshot' = [snapshot EXCEPT !.bytes = Put(File, folder.bytes[File], @),
                                      !.id = Put(File, folder.id[File], @)]
  BY DEF ScanFirst
<1>2. next \in 1 .. Len(Order)
  <2>1. next >= 1
    BY <1>1 DEF SnapshotOK
  <2> QED
    BY <1>1, <2>1, TypeFacts
<1>3. File \in Files /\ Walked' = Walked \cup {File}
  BY <1>1, <1>2, WalkedMore
<1>4. PICK b, i : /\ b = Put(File, folder.bytes[File], snapshot.bytes)
                  /\ i = Put(File, folder.id[File], snapshot.id)
  OBVIOUS
<1>5. snapshot' = [bytes |-> b, id |-> i, names |-> Files \cup Empties, listing |-> 0]
  <2>1. snapshot = [bytes |-> snapshot.bytes, id |-> snapshot.id,
                    names |-> Files \cup Empties, listing |-> 0]
    BY DEF SnapshotOK
  <2>2. PICK s, x, y : s = snapshot /\ x = snapshot.bytes /\ y = snapshot.id
    OBVIOUS
  <2>3. s = [bytes |-> x, id |-> y, names |-> Files \cup Empties, listing |-> 0]
    BY <2>1, <2>2
  <2>4. snapshot' = [s EXCEPT !.bytes = b, !.id = i]
    BY <1>1, <1>4, <2>2
  <2> QED
    BY <2>3, <2>4
<1>6. /\ Puts(b, File, folder.bytes[File], snapshot.bytes)
      /\ Puts(i, File, folder.id[File], snapshot.id)
  BY <1>4, PutPuts
<1>7. snapshot'.bytes = b /\ snapshot'.id = i
  BY <1>5
<1> QED
  BY <1>1, <1>3, <1>5, <1>6, <1>7

LEMMA ScanFirstSnapshot ==
    ASSUME CopyAssumption, Types, SourceOK, SnapshotOK, ScanFirst, ~Fail
    PROVE  SnapshotOK'
<1>1. /\ phase = "scanning" /\ phase' = "scanning" /\ next' = next + 1
      /\ File \in Files /\ Walked' = Walked \cup {File}
      /\ snapshot' = [bytes |-> snapshot'.bytes, id |-> snapshot'.id,
                      names |-> Files \cup Empties, listing |-> 0]
      /\ Puts(snapshot'.bytes, File, folder.bytes[File], snapshot.bytes)
      /\ Puts(snapshot'.id, File, folder.id[File], snapshot.id)
  BY ScannedFile
<1>2. PICK b, i : b = snapshot'.bytes /\ i = snapshot'.id
  OBVIOUS
<1>3. edits' = edits /\ next \in Nat
  BY TypeFacts DEF ScanFirst
<1>4. /\ folder.bytes[File] \in Bytes /\ folder.id[File] \in 0 .. edits
  <2>1. folder \in Sources /\ edits \in Nat /\ MaxEdits \in Nat /\ folder.id[File] <= edits
    BY <1>1, TypeFacts, Walk DEF SourceOK
  <2> QED
    BY <1>1, <2>1 DEF Sources
<1>5. /\ DOMAIN snapshot.bytes = Walked /\ DOMAIN snapshot.id = DOMAIN snapshot.bytes
      /\ DOMAIN snapshot.bytes \subseteq Files
      /\ snapshot.bytes \in [DOMAIN snapshot.bytes -> Bytes]
      /\ \A f \in DOMAIN snapshot.id : snapshot.id[f] \in 0 .. edits
  BY <1>1 DEF SnapshotOK
<1>6. DOMAIN b = Walked \cup {File} /\ DOMAIN i = Walked \cup {File}
  BY <1>1, <1>2, <1>5 DEF Puts
<1>7. b \in [DOMAIN b -> Bytes]
  BY <1>1, <1>2, <1>4, <1>5 DEF Puts, IsMap
<1>8. \A f \in DOMAIN i : i[f] \in 0 .. edits'
  BY <1>1, <1>2, <1>3, <1>4, <1>5, <1>6 DEF Puts
<1>9. next' >= 1
  BY <1>1, <1>3
<1> QED
  BY <1>1, <1>2, <1>5, <1>6, <1>7, <1>8, <1>9 DEF SnapshotOK

\* The snapshot stays.
LEMMA SnapshotFrame ==
    ASSUME CopyAssumption, Types, SnapshotOK, snapshot' = snapshot,
           edits' \in Nat, edits' >= edits,
           phase' = "scanning" => phase = "scanning" /\ next' = next,
           phase' \notin {"scanning", "failed"} => DOMAIN snapshot.bytes = Files
    PROVE  SnapshotOK'
<1>1. edits \in Nat
  BY TypeFacts
<1>2. \A f \in DOMAIN snapshot.id : snapshot.id[f] \in 0 .. edits'
  BY <1>1 DEF SnapshotOK
<1>3. phase' = "scanning" => Walked' = Walked
  BY DEF Walked
<1>4. snapshot'.bytes = snapshot.bytes /\ snapshot'.id = snapshot.id
  OBVIOUS
<1> QED
  BY <1>2, <1>3, <1>4 DEF SnapshotOK

LEMMA NextSnapshot ==
    ASSUME CopyAssumption, Types, SourceOK, SnapshotOK, [CopyNext]_copying
    PROVE  SnapshotOK'
<1>1. edits' \in Nat
  BY NextNumbers
<1>2. CASE Others \/ UNCHANGED copying
  <2>1. UNCHANGED <<phase, next, snapshot>>
    BY <1>2, OthersKeep
  <2>2. edits' >= edits
    BY <1>2, SourceMoves
  <2> QED
    BY <1>1, <2>1, <2>2, SnapshotFrame DEF SnapshotOK
<1>3. CASE CopyNext /\ ~Others
  <2>1. edits' >= edits
    BY <1>3, ProgramReads, TypeFacts
  <2>2. CASE Fail
    BY <1>1, <2>1, <2>2, SnapshotFrame DEF Fail
  <2>3. CASE ScanFirst /\ ~Fail
    BY <2>3, ScanFirstSnapshot
  <2>4. CASE Parse /\ ~Fail
    <3>1. /\ phase = "scanning" /\ phase' = "rescanning" /\ snapshot' = snapshot
          /\ next > Len(Order)
      BY <2>4 DEF Parse
    <3>2. DOMAIN snapshot.bytes = Files
      BY <3>1, WalkedAll DEF SnapshotOK
    <3> QED
      BY <1>1, <2>1, <3>1, <3>2, SnapshotFrame
  <2>5. CASE phase # "scanning"
    <3>1. phase # "failed" /\ snapshot' = snapshot /\ phase' # "scanning"
      BY <1>3, <2>5, ByPhase
    <3>2. DOMAIN snapshot.bytes = Files
      BY <2>5, <3>1 DEF SnapshotOK
    <3> QED
      BY <1>1, <2>1, <3>1, <3>2, SnapshotFrame
  <2> QED
    BY <1>3, <2>2, <2>3, <2>4, <2>5, ByPhase
<1> QED
  BY <1>2, <1>3

LEMMA NextScan ==
    ASSUME CopyAssumption, Types, SourceOK, SnapshotOK, ScanOK, [CopyNext]_copying
    PROVE  ScanOK'
<1>1. CASE Others \/ UNCHANGED copying
  <2> SUFFICES ASSUME phase = "scanning", NEW f \in DOMAIN snapshot.id,
                      folder'.id[f] = snapshot.id[f]
               PROVE  folder'.bytes[f] = snapshot.bytes[f] \/ silent' >= 1
    BY <1>1, OthersKeep DEF ScanOK
  <2>1. f \in Files /\ snapshot.id[f] \in 0 .. edits
    BY DEF SnapshotOK
  <2>2. /\ edits \in Nat /\ silent \in Nat /\ silent' >= silent
    BY <1>1, SourceMoves, TypeFacts
  <2>3. folder.id[f] = snapshot.id[f] => folder.bytes[f] = snapshot.bytes[f] \/ silent >= 1
    BY DEF ScanOK
  <2>4. \/ folder'.id[f] = folder.id[f] /\ folder'.bytes[f] = folder.bytes[f]
        \/ folder'.id[f] = edits + 1
        \/ silent' = silent + 1
    BY <1>1, <2>1, SourceMoves
  <2>5. silent >= 1 => silent' >= 1
    BY <2>2, NextNumbers
  <2> QED
    BY <2>1, <2>2, <2>3, <2>4, <2>5
<1>2. CASE CopyNext /\ ~Others
  <2>1. UNCHANGED <<folder, silent>>
    BY <1>2, ProgramReads
  <2>2. CASE ScanFirst /\ ~Fail
    <3>1. /\ Puts(snapshot'.bytes, File, folder.bytes[File], snapshot.bytes)
          /\ Puts(snapshot'.id, File, folder.id[File], snapshot.id)
          /\ phase = "scanning"
      BY <2>2, ScannedFile
    <3>2. DOMAIN snapshot.id = DOMAIN snapshot.bytes
      BY DEF SnapshotOK
    <3>3. PICK b, i : b = snapshot'.bytes /\ i = snapshot'.id
      OBVIOUS
    <3>4. ASSUME NEW f \in DOMAIN i, folder.id[f] = i[f]
          PROVE  folder.bytes[f] = b[f] \/ silent >= 1
      <4>1. CASE f = File
        BY <3>1, <3>3, <4>1 DEF Puts
      <4>2. CASE f # File
        <5>1. /\ f \in DOMAIN snapshot.id /\ i[f] = snapshot.id[f] /\ b[f] = snapshot.bytes[f]
          BY <3>1, <3>2, <3>3, <3>4, <4>2 DEF Puts
        <5> QED
          BY <3>1, <3>4, <5>1 DEF ScanOK
      <4> QED
        BY <4>1, <4>2
    <3> QED
      BY <2>1, <3>3, <3>4 DEF ScanOK
  <2>3. CASE Fail \/ Parse
    BY <2>3 DEF ScanOK, Fail, Parse
  <2>4. CASE phase # "scanning"
    BY <1>2, <2>4, ByPhase DEF ScanOK
  <2> QED
    BY <1>2, <2>2, <2>3, <2>4, ByPhase
<1> QED
  BY <1>1, <1>2
--------------------------------------------------------------------------------
(* The moment *)

LEMMA NextMoment ==
    ASSUME CopyAssumption, MaxSilent <= 1, Types, SourceOK, SnapshotOK, ScanOK, MomentOK,
           [CopyNext]_copying
    PROVE  MomentOK'
<1>1. CASE Others \/ UNCHANGED copying
  <2>1. UNCHANGED <<phase, next, snapshot, moment, same>>
    BY <1>1, OthersKeep
  <2>2. CASE phase # "rescanning"
    BY <2>1, <2>2 DEF MomentOK
  <2>3. CASE phase = "rescanning"
    <3>1. DOMAIN snapshot.id = Files /\ \A f \in Files : snapshot.id[f] \in 0 .. edits
      BY <2>3 DEF SnapshotOK
    <3>2. ASSUME NEW f \in Files, folder'.id[f] = snapshot.id[f]
          PROVE  \/ moment.bytes[f] = snapshot.bytes[f]
                 \/ silent' >= 1 /\ folder'.bytes[f] # snapshot.bytes[f]
      <4>1. /\ edits \in Nat /\ silent \in Nat /\ silent' \in Nat /\ silent' >= silent
            /\ silent <= MaxSilent /\ MaxSilent \in Nat
        BY <1>1, SourceMoves, TypeFacts, NextNumbers, Walk
      <4>2. folder.id[f] = snapshot.id[f] =>
              \/ moment.bytes[f] = snapshot.bytes[f]
              \/ silent >= 1 /\ folder.bytes[f] # snapshot.bytes[f]
        BY <2>3 DEF MomentOK
      <4>3. CASE folder'.id[f] = folder.id[f] /\ folder'.bytes[f] = folder.bytes[f]
        BY <3>2, <4>1, <4>2, <4>3
      <4>4. CASE folder'.id[f] = edits + 1
        <5>1. snapshot.id[f] \in 0 .. edits /\ edits \in Nat
          BY <3>1, <4>1
        <5> QED
          BY <3>2, <4>4, <5>1
      <4>5. CASE folder'.id[f] = folder.id[f] /\ silent < MaxSilent
        <5>1. ~(silent >= 1)
          BY <4>1, <4>5
        <5> QED
          BY <3>2, <4>2, <4>5, <5>1
      <4> QED
        BY <1>1, <4>3, <4>4, <4>5, SourceMoves
    <3>3. moment \in Sources /\ moment.listing <= folder.listing
      BY <2>3 DEF MomentOK
    <3>4. moment.listing <= folder'.listing
      <4>1. edits \in Nat /\ folder.listing \in Nat /\ folder.listing <= edits
            /\ moment.listing \in Nat
        BY <3>3, TypeFacts, Walk DEF SourceOK, Sources
      <4>2. folder'.listing = folder.listing \/ folder'.listing = edits + 1
        BY <1>1, SourceMoves
      <4> QED
        BY <3>3, <4>1, <4>2
    <3>5. Walked' = Walked
      BY <2>1 DEF Walked
    <3> QED
      BY <2>1, <2>3, <3>2, <3>3, <3>4, <3>5 DEF MomentOK
  <2> QED
    BY <2>2, <2>3
<1>2. CASE CopyNext /\ ~Others
  <2>1. UNCHANGED <<folder, silent>>
    BY <1>2, ProgramReads
  <2>2. CASE Fail
    BY <2>2 DEF Fail, MomentOK
  <2>3. CASE ScanFirst /\ ~Fail
    BY <2>3 DEF ScanFirst, MomentOK
  <2>4. CASE Parse /\ ~Fail
    <3>1. /\ phase = "scanning" /\ phase' = "rescanning" /\ next' = 0 /\ moment' = folder
          /\ snapshot' = snapshot /\ next > Len(Order)
      BY <2>4 DEF Parse
    <3>2. DOMAIN snapshot.id = Files
      BY <3>1, WalkedAll DEF SnapshotOK
    <3>3. \A f \in Files : folder.id[f] = snapshot.id[f] =>
              \/ folder.bytes[f] = snapshot.bytes[f]
              \/ silent >= 1 /\ folder.bytes[f] # snapshot.bytes[f]
      BY <3>1, <3>2 DEF ScanOK
    <3>4. folder \in Sources /\ folder.listing <= folder.listing
      BY TypeFacts, Walk DEF Sources
    <3>5. folder.listing = 0 => folder.names = Files \cup Empties
      BY DEF SourceOK
    <3>6. ~(next' >= 1)
      BY <3>1
    <3> QED
      BY <2>1, <3>1, <3>3, <3>4, <3>5, <3>6 DEF MomentOK
  <2>5. CASE List /\ ~Fail /\ phase = "rescanning"
    <3>1. /\ same' = (folder.names = snapshot.names /\ folder.listing = snapshot.listing)
          /\ next' = 1 /\ UNCHANGED <<phase, snapshot, moment>>
      BY <2>5 DEF List
    <3>2. /\ moment \in Sources /\ moment.listing <= folder.listing
          /\ moment.listing = 0 => moment.names = Files \cup Empties
      BY <2>5 DEF MomentOK
    <3>3. snapshot.names = Files \cup Empties /\ snapshot.listing = 0
      BY DEF SnapshotOK
    <3>4. folder.listing = 0 => moment.listing = 0
      <4>1. moment.listing \in Nat /\ folder.listing \in Nat
        BY <3>2, TypeFacts, Walk DEF Sources
      <4> QED
        BY <3>2, <4>1
    <3>5. same' => moment.names = snapshot.names
      BY <3>1, <3>2, <3>3, <3>4
    <3>6. Walked' = {}
      BY <3>1, WalkedNone
    <3> QED
      BY <2>1, <2>5, <3>1, <3>5, <3>6 DEF MomentOK
  <2>6. CASE ScanMember /\ ~Fail /\ phase = "rescanning"
    <3>1. /\ same' = (same /\ ReadMarkdown(File)) /\ next \in DOMAIN Order
          /\ next' = next + 1 /\ UNCHANGED <<phase, snapshot, moment>>
      BY <2>6 DEF ScanMember
    <3>2. next \in 1 .. Len(Order)
      BY <3>1, Walk
    <3>3. Walked' = Walked \cup {File} /\ File \in Files
      BY <3>1, <3>2, WalkedMore
    <3>4. next >= 1
      BY <3>2
    <3>5. same' => /\ moment.names = snapshot.names
                   /\ \A f \in Walked : moment.bytes[f] = snapshot.bytes[f]
      BY <2>6, <3>1, <3>4 DEF MomentOK
    <3>6. same' => moment.bytes[File] = snapshot.bytes[File]
      BY <2>6, <3>1, <3>3 DEF MomentOK, ReadMarkdown
    <3> QED
      BY <2>1, <2>6, <3>1, <3>3, <3>5, <3>6 DEF MomentOK
  <2>7. CASE SourceAccepted /\ ~Fail
    <3>1. /\ phase = "rescanning" /\ same /\ next > Len(Order) /\ phase' = "accepted"
          /\ UNCHANGED <<snapshot, moment>>
      BY <2>7 DEF SourceAccepted, Scanned, reading
    <3>2. Walked = Files
      BY <3>1, WalkedAll
    <3>3. next >= 1
      <4>1. Len(Order) \in Nat /\ next \in 0 .. Len(Order) + 1
        BY TypeFacts
      <4>2. next > Len(Order)
        BY <3>1
      <4> QED
        BY <4>1, <4>2
    <3>4. /\ moment \in Sources /\ moment.names = snapshot.names
          /\ \A f \in Files : moment.bytes[f] = snapshot.bytes[f]
      BY <3>1, <3>2, <3>3 DEF MomentOK
    <3>5. snapshot.bytes \in [Files -> Bytes] /\ moment.bytes \in [Files -> Bytes]
      BY <3>1, <3>4 DEF SnapshotOK, Sources
    <3>6. moment.bytes = snapshot.bytes
      BY <3>4, <3>5
    <3> QED
      BY <3>1, <3>4, <3>6 DEF MomentOK
  <2>8. CASE phase \notin {"scanning", "rescanning"}
    <3>1. /\ phase # "failed" /\ UNCHANGED <<snapshot, moment>>
          /\ phase' \notin {"scanning", "rescanning"}
      BY <1>2, <2>8, ByPhase
    <3>2. snapshot.bytes = moment.bytes /\ snapshot.names = moment.names
      BY <2>8, <3>1 DEF MomentOK
    <3> QED
      BY <3>1, <3>2 DEF MomentOK
  <2> QED
    BY <1>2, <2>2, <2>3, <2>4, <2>5, <2>6, <2>7, <2>8, ByPhase
<1> QED
  BY <1>1, <1>2
--------------------------------------------------------------------------------
(* The last look *)

LEMMA NextLook ==
    ASSUME CopyAssumption, Types, LookOK, [CopyNext]_copying
    PROVE  LookOK'
<1>1. CASE Others \/ UNCHANGED copying
  <2>1. UNCHANGED <<kind, phase, next, snapshot, same>> /\ late \subseteq late'
    BY <1>1, OthersKeep
  <2>2. ASSUME NEW f \in Files, FileSeen(f)
        PROVE  FileSeen(f)'
    BY <1>1, <2>1, <2>2, SourceMoves DEF FileSeen, ReadMarkdown
  <2>3. ListingSeen => ListingSeen'
    BY <1>1, <2>1, SourceMoves DEF ListingSeen
  <2>4. ExternalSeen => ExternalSeen'
    BY <1>1, <2>1, SourceMoves DEF ExternalSeen, External
  <2>5. Walked' = Walked
    BY <2>1 DEF Walked
  <2> QED
    BY <2>1, <2>2, <2>3, <2>4, <2>5, WalkedFiles DEF LookOK
<1>2. CASE CopyNext /\ ~Others
  <2>1. UNCHANGED <<kind, folder, external>> /\ late' \subseteq late
    BY <1>2, ProgramReads
  <2>2. CASE Fail
    BY <2>2 DEF Fail, LookOK
  <2>3. CASE List /\ phase = "last look" /\ ~Fail
    <3>1. /\ same' = (folder.names = snapshot.names /\ folder.listing = snapshot.listing)
          /\ next' = 1 /\ UNCHANGED <<phase, snapshot>>
      BY <2>3 DEF List
    <3>2. Walked' = {}
      BY <3>1, WalkedNone
    <3>3. same' => ListingSeen'
      BY <2>1, <3>1 DEF ListingSeen
    <3> QED
      BY <2>3, <3>1, <3>2, <3>3 DEF LookOK
  <2>4. CASE ScanMember /\ phase = "last look" /\ ~Fail
    <3>1. /\ same' = (same /\ ReadMarkdown(File)) /\ next \in DOMAIN Order
          /\ next' = next + 1 /\ UNCHANGED <<phase, snapshot>> /\ late' = late \ {File}
      BY <2>4 DEF ScanMember
    <3>2. next \in 1 .. Len(Order) /\ "listing" \notin Files
      BY <3>1, Walk
    <3>3. Walked' = Walked \cup {File} /\ File \in Files
      BY <3>1, <3>2, WalkedMore
    <3>4. next >= 1
      BY <3>2
    <3>5. same' => ListingSeen /\ \A f \in Walked : FileSeen(f)
      BY <2>4, <3>1, <3>4 DEF LookOK
    <3>6. "listing" \in late => "listing" \in late'
      BY <3>1, <3>2, <3>3
    <3>7. ListingSeen => ListingSeen'
      BY <2>1, <3>1, <3>6 DEF ListingSeen
    <3>8. \A f : f # File /\ FileSeen(f) => FileSeen(f)'
      BY <2>1, <3>1, <3>6 DEF FileSeen, ReadMarkdown
    <3>9. same' => FileSeen(File) /\ ReadMarkdown(File)
      BY <3>1 DEF FileSeen
    <3>10. \A f : ReadMarkdown(f) => FileSeen(f)'
      BY <2>1, <3>1 DEF FileSeen, ReadMarkdown
    <3>11. same' => \A f \in Walked' : FileSeen(f)'
      BY <3>3, <3>5, <3>8, <3>9, <3>10
    <3> QED
      BY <2>4, <3>1, <3>5, <3>7, <3>11 DEF LookOK
  <2>5. CASE LastLook /\ ~Fail
    <3>1. /\ phase = "last look" /\ same /\ next > Len(Order) /\ phase' = "confirming"
          /\ UNCHANGED <<snapshot, late>>
      BY <2>5 DEF LastLook, Scanned, reading, read
    <3>2. Walked = Files
      BY <3>1, WalkedAll
    <3>3. next >= 1
      <4>1. Len(Order) \in Nat /\ next \in 0 .. Len(Order) + 1
        BY TypeFacts
      <4>2. next > Len(Order)
        BY <3>1
      <4> QED
        BY <4>1, <4>2
    <3>4. ListingSeen /\ \A f \in Files : FileSeen(f)
      BY <3>1, <3>2, <3>3 DEF LookOK
    <3>5. ListingSeen' /\ \A f \in Files : FileSeen(f)'
      BY <2>1, <3>1, <3>4 DEF ListingSeen, FileSeen, ReadMarkdown
    <3> QED
      BY <3>1, <3>5 DEF LookOK
  <2>6. CASE Confirm /\ ~Fail
    <3>1. /\ phase = "confirming" /\ phase' = "promoting" /\ snapshot' = snapshot
          /\ late' = late \ {"external"} /\ (External => external = "read")
      BY <2>6 DEF Confirm, reading
    <3>2. "external" \notin Files
      BY Walk
    <3>3. ListingSeen /\ \A f \in Files : FileSeen(f)
      BY <3>1 DEF LookOK
    <3>4. ListingSeen'
      BY <2>1, <3>1, <3>3 DEF ListingSeen
    <3>5. \A f \in Files : FileSeen(f)'
      BY <2>1, <3>1, <3>2, <3>3 DEF FileSeen, ReadMarkdown
    <3>6. ExternalSeen'
      BY <2>1, <3>1 DEF ExternalSeen, External
    <3> QED
      BY <3>1, <3>4, <3>5, <3>6 DEF LookOK
  <2>7. CASE phase = "promoting" /\ ~Fail
    <3>1. phase' = "promoted" /\ UNCHANGED <<snapshot, late>>
      BY <1>2, <2>7 DEF CopyNext, ScanFirst, Parse, List, ScanMember, SourceAccepted, StartCopy,
         OpenSource, CopyFile, Stage, VerifyStaged, SourceStood, MeasureStaged, WriteBag,
         WriteReceipt, Seal, LastLook, Confirm, PromoteResult, Breaks, RestoreBegin,
         RestoreLoad, RestoreMember, RestoreScan, RestoreVerify, RestorePromote, Scans,
         reading, read
    <3>2. ListingSeen /\ ExternalSeen /\ \A f \in Files : FileSeen(f)
      BY <2>7 DEF LookOK
    <3>3. ListingSeen' /\ ExternalSeen' /\ \A f \in Files : FileSeen(f)'
      BY <2>1, <3>1, <3>2 DEF ListingSeen, ExternalSeen, External, FileSeen, ReadMarkdown
    <3> QED
      BY <3>1, <3>3 DEF LookOK
  <2>8. CASE phase \notin {"last look", "confirming", "promoting"}
    <3>1. /\ phase' \notin {"confirming", "promoting", "promoted"}
          /\ phase' = "last look" => next' = 0
      BY <1>2, <2>8, ByPhase
    <3>2. ASSUME phase' = "last look"
          PROVE  ~(next' >= 1)
      <4>1. next' = 0
        BY <3>1, <3>2
      <4> QED
        BY <4>1
    <3> QED
      BY <3>1, <3>2 DEF LookOK
  <2> QED
    BY <1>2, <2>2, <2>3, <2>4, <2>5, <2>6, <2>7, <2>8, ByPhase
<1> QED
  BY <1>1, <1>2

LEMMA InitScans ==
    ASSUME CopyAssumption, CopyInit
    PROVE  SourceOK /\ SnapshotOK /\ ScanOK /\ MomentOK /\ LookOK
<1>1. /\ folder = Untouched /\ phase = "scanning" /\ next = 1 /\ edits = 0
      /\ snapshot = [Untouched EXCEPT !.bytes = <<>>, !.id = <<>>]
  BY DEF CopyInit
<1>2. snapshot = [bytes |-> <<>>, id |-> <<>>, names |-> Files \cup Empties, listing |-> 0]
  BY <1>1 DEF Untouched
<1>3. snapshot.bytes = <<>> /\ snapshot.id = <<>> /\ DOMAIN <<>> = {}
  BY <1>2
<1>4. Walked = {}
  BY <1>1 DEF Walked
<1>5. next >= 1 /\ phase = "scanning"
  <2>1. next = 1
    BY <1>1
  <2>2. next >= 1
    BY <2>1
  <2> QED
    BY <1>1, <2>2
<1>6. SourceOK
  BY <1>1 DEF SourceOK, Untouched
<1>7. SnapshotOK
  <2>1. <<>> \in [{} -> Bytes]
    OBVIOUS
  <2>2. DOMAIN snapshot.bytes = {} /\ DOMAIN snapshot.id = {} /\ snapshot.bytes \in [{} -> Bytes]
    BY <1>3, <2>1
  <2>3. snapshot = [bytes |-> snapshot.bytes, id |-> snapshot.id,
                    names |-> Files \cup Empties, listing |-> 0]
    BY <1>2, <1>3
  <2> QED
    BY <1>5, <1>4, <2>2, <2>3 DEF SnapshotOK
<1> QED
  BY <1>1, <1>3, <1>6, <1>7 DEF ScanOK, MomentOK, LookOK

\* What is promoted, or left behind proved, verifies from itself alone and is the accepted copy
\* of what the source was at one moment, and the source was last seen so: where no file is
\* written more than once with its identity kept. (transaction.py, receipt_verifier.py)
THEOREM ResultsAreAccepted ==
    ASSUME CopyAssumption, MaxSilent <= 1
    PROVE  CopySpec => []ResultIsAccepted
<1> DEFINE Inv == /\ Types /\ Trees
                  /\ SourceOK /\ SnapshotOK /\ ScanOK /\ MomentOK /\ LookOK
<1>1. CopyInit => Inv
  BY InitTypes, InitTrees, InitScans
<1>2. Inv /\ [CopyNext]_copying => Inv'
  BY NextTypes, NextTrees, NextSource, NextSnapshot, NextScan, NextMoment, NextLook
<1>3. Inv => ResultIsAccepted
  <2> SUFFICES ASSUME Inv
               PROVE  ResultIsAccepted
    OBVIOUS
  <2>1. CopyTypeOK
    BY DEF Types
  <2>2. phase \in {"accepted", "copying", "promoted"} =>
          snapshot.bytes = moment.bytes /\ snapshot.names = moment.names
    BY DEF MomentOK
  <2>3. ASSUME NEW t \in {building, result}, Own(t), proof = "proved"
        PROVE  /\ Verified(t)
               /\ Data(t) = Accepted(snapshot.bytes)
               /\ Cardinality(Folders(t)) = Cardinality(Empties)
               /\ (kind[1] = 1 \/ kind[2] = "receiver") => Folders(t) = EmptyFolders
    <3>1. Verified(t) /\ Derived(t) /\ MadeOK /\ proof # "unproved"
      BY <2>3 DEF Trees, TreesOK, Own
    <3>2. Data(t) = Accepted(snapshot.bytes)
      BY <3>1, CommittedStands DEF MadeOK
    <3> QED
      BY <3>1, <3>2, VerifiedFolders
  <2>4. phase = "promoted" => StillThere
    BY DEF LookOK, StillThere, ListingSeen, ExternalSeen, FileSeen
  <2>5. (phase = "failed" /\ Own(building)) => (kind[1] = 1 \/ proof # "unproved")
    BY DEF Trees, FinalizedOK, Own
  <2> QED
    BY <2>1, <2>2, <2>3, <2>4, <2>5 DEF ResultIsAccepted
<1> HIDE DEF Inv
<1> QED
  BY <1>1, <1>2, <1>3, PTL DEF CopySpec
=============================================================================
