----------------------------- MODULE BrowserApp -----------------------------
(***************************************************************************)
(* The loopback application over one review-era job: the server-owned      *)
(* state of folder_app.py, its request handlers, workers and page reads,   *)
(* on the adapter of foldweave_web_service.py.                             *)
(*                                                                         *)
(* The application shows a copy of the durable job and changes it through  *)
(* the review service.  Handlers run on one event loop: what happens       *)
(* between two awaits is one action, and the service's work, in a thread   *)
(* of its own, lies between.  Another surface (the CLI, a second window, a *)
(* hosted model) works on the same job.  The record is what a surface can  *)
(* tell of it: its lifecycle, and a revision number that names its         *)
(* reviews.  (ReviewJob has the record, its filters and the copy itself.)  *)
(***************************************************************************)
EXTENDS Naturals

CONSTANTS Tabs,    \* browser tabs that submit forms and actions
          Pages,   \* pages of the application, kept open
          MaxRev,  \* bound: revisions of the record
          None

VARIABLES job,     \* the durable record
          lock,    \* its writer lock, while a copy is made
          other,   \* what the other surface is doing
          up,      \* the application runs
          web,     \* _FolderWebState
          gate,    \* the tab that holds submission_gate
          worker,  \* state.worker
          page,    \* which pages poll, and their reads of the record
          tab,     \* requests
          begun    \* runs and answers this process has begun

app == <<up, web, gate, worker, page, tab, begun>>
vars == <<job, lock, other, app>>
-----------------------------------------------------------------------------
(* The job *)

Job == [life : {"none", "planning", "clarifying", "reviewing", "failed",
                "revising", "executing", "verified", "ended"},
        rev : 0..MaxRev]
Shown == [life : {"none", "planning", "clarifying", "reviewing", "verified", "blocked"},
          rev : 0..MaxRev]
Terminal == {"verified", "ended"}
InReview(j) == j.life \in {"reviewing", "failed"}

ASSUME BrowserAssumption ==
    /\ MaxRev \in Nat \ {0}
    /\ "other" \notin Tabs
    /\ None \notin Tabs \cup {"other"} \cup Job \cup Shown \cup 1..MaxRev

\* A revision number counts from one review, or one turn with its outcome, to the
\* next; other records name no review.
Successor(life) == [life |-> life, rev |-> job.rev + 1]
Finished(life) == [job EXCEPT !.life = life]
Room == job.rev < MaxRev

\* How a revision turn may end.
Outcomes == {Finished(life) : life \in {"reviewing", "failed", "ended"}}
-----------------------------------------------------------------------------
(* What the application shows *)

Idle == [life |-> "idle", review |-> None, question |-> FALSE, result |-> FALSE]

\* _block_browser_result
Blocked(w) == [w EXCEPT !.life = "blocked", !.review = None, !.result = FALSE]

\* _complete_job
Completed(w) == [w EXCEPT !.life = "verified", !.review = None,
                          !.question = FALSE, !.result = TRUE]

Reviewed(w, rev) == [w EXCEPT !.life = "reviewing", !.review = rev,
                              !.question = FALSE, !.result = FALSE]

\* _checkpoint: what the adapter makes of the record; a revision has no projection
\* of its own and comes out as a blocker.
Checkpoint(j) ==
    CASE InReview(j) -> [life |-> "reviewing", rev |-> j.rev]
      [] j.life \in {"ended", "revising"} -> [life |-> "blocked", rev |-> 0]
      [] j.life \in {"planning", "executing"} -> [life |-> "planning", rev |-> 0]
      [] OTHER -> [life |-> j.life, rev |-> 0]

\* _refresh_terminal_checkpoint; None stands for a read that raised.
Refreshed(w, c) ==
    IF c = None THEN IF w.life = "idle" THEN w ELSE Blocked(w)
    ELSE CASE c.life = "verified" -> [w EXCEPT !.life = "verified", !.result = TRUE]
           [] c.life = "blocked" -> Blocked(w)
           [] c.life = "reviewing" -> [w EXCEPT !.life = "reviewing", !.review = c.rev,
                                                !.result = FALSE]
           [] OTHER -> w

\* A read is skipped when the state is final or a worker owns the writer.
\* Mutant: a page in review is not refreshed.
RefreshesOutsideReview == web.life \notin {"verified", "blocked", "reviewing"}
                            /\ worker.step = "none"
Refreshes == web.life \notin {"verified", "blocked"} /\ worker.step = "none"

\* web_checkpoint reads the record and verifies the result of a verified job; any
\* of this may raise, unless there is no job yet.
Readable == {Checkpoint(job)} \cup (IF job.life = "none" THEN {} ELSE {None})

\* The working page polls until the status names one of the other pages' states.
Answered(w) == IF w.life \in {"planning", "executing"} THEN "polling" ELSE "idle"
-----------------------------------------------------------------------------
(* State.  A tab or a page keeps what the service gave it until it is applied. *)

Ready == [step |-> "idle", op |-> None, at |-> 0, view |-> None]
Resting == [step |-> "idle", view |-> None]
NoWork == [step |-> "none", op |-> None, view |-> None]

Init ==
    /\ job = [life |-> "none", rev |-> 0]
    /\ lock = None
    /\ other = [step |-> "idle", at |-> 0]
    /\ up = TRUE
    /\ web = Idle
    /\ gate = None
    /\ worker = NoWork
    /\ page = [p \in Pages |-> Resting]
    /\ tab = [t \in Tabs |-> Ready]
    /\ begun = [runs |-> 0, answers |-> 0]

Durable == <<job, lock, other>>

\* Tab t goes on with its request, or has its outcome.
Step(t, step) == tab' = [tab EXCEPT ![t].step = step]
Returns(t, view) == tab' = [tab EXCEPT ![t].step = "returned", ![t].view = view]
Fails(t) == tab' = [tab EXCEPT ![t] = [Ready EXCEPT !.step = "raised", !.op = tab[t].op]]
Leaves(t) == /\ tab' = [tab EXCEPT ![t] = Ready]
             /\ gate' = IF gate = t THEN None ELSE gate
-----------------------------------------------------------------------------
(* Pages: /, /working and /done, and the polls of the working page *)

\* The handler reads the record, or answers from the state it has.
Visit(p) ==
    /\ up
    /\ page' = [page EXCEPT ![p].step = IF Refreshes THEN "reading" ELSE Answered(web)]
    /\ UNCHANGED <<Durable, up, web, gate, worker, tab, begun>>

\* The user opens a page, the working page asks again.
Load(p) == page[p].step = "idle" /\ Visit(p)
Poll(p) == page[p].step = "polling" /\ Visit(p)

\* The thread reads the record ...
Read(p) == \E view \in Readable :
    /\ page[p].step = "reading"
    /\ page' = [page EXCEPT ![p] = [step |-> "read", view |-> view]]
    /\ UNCHANGED <<Durable, up, web, gate, worker, tab, begun>>

\* ... and the event loop applies it to whatever is shown by then.
Show(p) ==
    /\ page[p].step = "read"
    /\ web' = Refreshed(web, page[p].view)
    /\ page' = [page EXCEPT ![p] = [Resting EXCEPT !.step = Answered(web')]]
    /\ UNCHANGED <<Durable, up, gate, worker, tab, begun>>
-----------------------------------------------------------------------------
(* Forms: /start and /apply, /clarify *)

Awaited(op) == IF op = "run" THEN web.life = "idle"
                             ELSE web.life = "clarifying" /\ begun.answers = 0

\* The handler looks, then waits for the form.
Submit(t, op) ==
    /\ up /\ tab[t].step = "idle" /\ Awaited(op)
    /\ tab' = [tab EXCEPT ![t] = [Ready EXCEPT !.step = "form", !.op = op]]
    /\ UNCHANGED <<Durable, up, web, gate, worker, page, begun>>

Begins(t) ==
    /\ web' = IF tab[t].op = "run" THEN [Idle EXCEPT !.life = "planning", !.review = web.review]
                                   ELSE [web EXCEPT !.life = "planning"]
    /\ worker' = [NoWork EXCEPT !.step = "begun", !.op = tab[t].op]
    /\ begun' = IF tab[t].op = "run" THEN [begun EXCEPT !.runs = @ + 1]
                                     ELSE [begun EXCEPT !.answers = @ + 1]

\* Under the gate it looks again and starts the one worker.  A malformed form
\* changes nothing but a message.
BeginWork(t) ==
    /\ tab[t].step = "form" /\ gate = None
    /\ \/ Awaited(tab[t].op) /\ Begins(t)
       \/ UNCHANGED <<web, worker, begun>>
    /\ tab' = [tab EXCEPT ![t] = Ready]
    /\ UNCHANGED <<Durable, up, gate, page>>
-----------------------------------------------------------------------------
(* Workers: _run_job, _run_apply_job, _continue_job, _resume_job *)

Work(step, view) == worker' = [worker EXCEPT !.step = step, !.view = view]

\* The service saves the new job, or the answer to its question; it raises when
\* the folders are unusable or the job is not waiting for an answer.
WorkBegins ==
    /\ worker.step = "begun"
    /\ \/ /\ \/ worker.op = "run" /\ job.life = "none"
             \/ worker.op = "answer" /\ job.life = "clarifying" /\ lock = None
          /\ job' = Finished("planning") /\ Work("planning", None)
       \/ /\ worker.op = "answer" /\ job.life = "clarifying" /\ lock = None
          /\ job' = Finished("ended") /\ Work("done", job')
       \/ worker.op = "resume" /\ UNCHANGED job /\ Work("planning", None)
       \/ worker.op # "resume" /\ UNCHANGED job /\ Work("done", None)
    /\ UNCHANGED <<lock, other, up, web, gate, page, tab, begun>>

\* Planning ends in a first review, a blocker or a question (one per job), or
\* raises at a busy lock.
WorkEnds ==
    /\ worker.step = "planning"
    /\ \/ /\ job.life = "planning"
          /\ \/ job' = Successor("reviewing")
             \/ worker.op # "answer" /\ job' = Finished("clarifying")
             \/ job' = Finished("ended")
          /\ Work("done", job')
       \/ UNCHANGED job /\ Work("done", None)
    /\ UNCHANGED <<lock, other, up, web, gate, page, tab, begun>>

\* _review_or_terminal and _apply_outcome: a review or a result; anything else
\* raises, and the browser shows a blocker.
\* Mutant: a job that ended otherwise counts as a result.
OutcomeOfAny(w, j) == IF j # None /\ InReview(j) THEN Reviewed(w, j.rev)
                      ELSE IF j # None THEN Completed(w)
                      ELSE [w EXCEPT !.life = "blocked"]
Outcome(w, j) == IF j # None /\ InReview(j) THEN Reviewed(w, j.rev)
                 ELSE IF j # None /\ j.life = "verified" THEN Completed(w)
                 ELSE [w EXCEPT !.life = "blocked"]

WorkShown ==
    /\ worker.step = "done"
    /\ web' = Outcome(web, worker.view)
    /\ worker' = NoWork
    /\ UNCHANGED <<Durable, up, gate, page, tab, begun>>
-----------------------------------------------------------------------------
(* Actions on a review.  A request names any review some surface has shown. *)

Act(t, op, at) ==
    /\ up /\ tab[t].step = "idle" /\ gate = None
    /\ at \in 1..job.rev
    /\ op \in {"revise", "keep"} => web.review # None
    /\ tab' = [tab EXCEPT ![t] = [step |-> "called", op |-> op, at |-> at, view |-> None]]
    /\ gate' = t
    /\ web' = CASE op = "revise" -> [web EXCEPT !.life = "planning"]
                [] op = "accept" -> [web EXCEPT !.life = "executing"]
                [] OTHER -> web
    /\ UNCHANGED <<Durable, up, worker, page, begun>>

Called(t, op) == tab[t].step = "called" /\ tab[t].op = op

\* A request is for the record as it stands, or raises.
Current(t) == InReview(job) /\ job.rev = tab[t].at /\ lock = None

\* Whoever takes the lock looks whether the inputs of the record are unchanged.
\* (That of a revision, open or failed, raises instead; see ReviewJob.)
Looked == IF lock = None /\ job.life \in {"planning", "clarifying", "reviewing", "executing"}
          THEN {job, Finished("ended")} ELSE {job}

Raises(t) == job' \in Looked /\ Fails(t) /\ UNCHANGED lock

\* A request that was settled before is answered from the record of today.  (Which
\* requests were settled is left open: any earlier review may have been.)
Repeats(t) == job.rev > tab[t].at /\ lock = None

\* revise_review: reserve the turn, ask the provider, record its answer.
ReviseBegins(t) ==
    /\ Called(t, "revise")
    /\ \/ /\ Current(t) /\ Room
          /\ job' = Successor("revising")
          /\ tab' = [tab EXCEPT ![t].step = "asking", ![t].view = job']
          /\ UNCHANGED lock
       \/ Repeats(t) /\ InReview(job) /\ Returns(t, job) /\ UNCHANGED <<job, lock>>
       \/ Raises(t)
    /\ UNCHANGED <<other, up, web, gate, worker, page, begun>>

\* An answer to a turn that was closed meanwhile leaves the record alone.  What
\* is not a review then raises.
ReviseEnds(t) ==
    /\ tab[t].step = "asking"
    /\ \/ /\ job = tab[t].view /\ lock = None
          /\ job' \in Outcomes
       \/ job # tab[t].view /\ UNCHANGED job
    /\ IF InReview(job') THEN Returns(t, job') ELSE Fails(t)
    /\ UNCHANGED <<lock, other, up, web, gate, worker, page, begun>>

\* ... and may find the lock taken.
ReviseLost(t) ==
    /\ tab[t].step = "asking" /\ lock # None
    /\ Raises(t)
    /\ UNCHANGED <<other, up, web, gate, worker, page, begun>>

\* keep_previous_review: a repetition makes a review of whatever the job is now.
Keep(t) ==
    /\ Called(t, "keep")
    /\ \/ /\ Current(t) /\ job.life = "failed" /\ Room
          /\ job' = Successor("reviewing")
          /\ Returns(t, job')
          /\ UNCHANGED lock
       \/ Repeats(t) /\ job' \in Looked /\ Returns(t, job') /\ UNCHANGED lock
       \/ Raises(t)
    /\ UNCHANGED <<other, up, web, gate, worker, page, begun>>

\* accept_review: the copy is made under the lock.  A repeated acceptance finds
\* the job executing, and takes the execution over, or verified.
AcceptBegins(t) ==
    /\ Called(t, "accept")
    /\ \/ /\ Current(t) /\ job.life = "reviewing"
          /\ job' = Finished("executing") /\ lock' = t
          /\ Step(t, "copying")
       \/ /\ job.life = "executing" /\ job.rev = tab[t].at /\ lock = None
          /\ lock' = t /\ UNCHANGED job
          /\ Step(t, "copying")
       \/ /\ job.life = "verified" /\ job.rev = tab[t].at
          /\ Returns(t, job) /\ UNCHANGED <<job, lock>>
       \/ Raises(t)
    /\ UNCHANGED <<other, up, web, gate, worker, page, begun>>

\* The copy is verified or blocked, or the call raises and leaves it as it is.  What
\* is verified may yet fail to be read for its presentation.
AcceptEnds(t) ==
    /\ tab[t].step = "copying"
    /\ lock' = None
    /\ job' \in {job, Finished("verified"), Finished("ended")}
    /\ \/ job'.life = "verified" /\ Returns(t, job')
       \/ Fails(t)
    /\ UNCHANGED <<other, up, web, gate, worker, page, begun>>

\* The handler shows what its call returned.
Acted(t) ==
    /\ tab[t].step = "returned" /\ tab[t].op \in {"revise", "keep", "accept"}
    /\ web' = IF tab[t].op = "accept" THEN Completed(web)
              ELSE [web EXCEPT !.life = "reviewing", !.review = tab[t].view.rev]
    /\ Leaves(t)
    /\ UNCHANGED <<Durable, up, worker, page, begun>>

\* A call that raised is followed by a read of the record ...
Reread(t) == \E view \in Readable :
    /\ tab[t].step = "raised" /\ Refreshes
    /\ tab' = [tab EXCEPT ![t].step = "reread", ![t].view = view]
    /\ UNCHANGED <<Durable, up, web, gate, worker, page, begun>>

\* ... and blocks the browser when its own lifecycle is still the one shown.
Refused(t) ==
    /\ \/ tab[t].step = "reread"
       \/ tab[t].step = "raised" /\ ~Refreshes
    /\ LET w == IF tab[t].step = "reread" THEN Refreshed(web, tab[t].view) ELSE web
           own == CASE tab[t].op = "revise" -> "planning"
                    [] tab[t].op = "accept" -> "executing"
                    [] OTHER -> None
       IN  web' = IF w.life = own THEN Blocked(w) ELSE w
    /\ Leaves(t)
    /\ UNCHANGED <<Durable, up, worker, page, begun>>
-----------------------------------------------------------------------------
(* The status of a review, and a start of the application, both rehydrate *)

\* rehydrate_web_checkpoint: the record may turn out stale, an open revision is
\* closed as interrupted unless a hosted model has it, and an execution nobody runs
\* is brought to its end, or stays as it is when that fails.
Rehydrated ==
    IF lock # None THEN {job}
    ELSE Looked \cup CASE job.life = "revising" -> {Finished("failed")}
                       [] job.life = "executing" -> {Finished("verified")}
                       [] OTHER -> {}

\* What the caller gets of the record j it leaves; None stands for a call that
\* raised: at a busy lock, over what it could not close, or in reading the result.
Projected(j) ==
    IF j.life = "none" THEN {j}
    ELSE {None} \cup (IF lock # None \/ j.life \in {"revising", "executing"} THEN {} ELSE {j})

\* The handler takes the review it will answer for, then the gate.
AskStatus(t) ==
    /\ up /\ tab[t].step = "idle" /\ web.review # None
    /\ tab' = [tab EXCEPT ![t] = [Ready EXCEPT !.step = "queued", !.op = "status",
                                               !.at = web.review]]
    /\ UNCHANGED <<Durable, up, web, gate, worker, page, begun>>

ReviewStatus(t) ==
    \/ /\ tab[t].step = "queued" /\ gate = None
       /\ Step(t, "called") /\ gate' = t
       /\ UNCHANGED <<Durable, up, web, worker, page, begun>>
    \/ /\ Called(t, "status")
       /\ job' \in Rehydrated
       /\ \E view \in Projected(job') : Returns(t, view)
       /\ UNCHANGED <<lock, other, up, web, gate, worker, page, begun>>

StatusShown(t) ==
    /\ tab[t].step = "returned" /\ tab[t].op = "status"
    /\ web' = IF tab[t].view = None THEN web
              ELSE CASE tab[t].view.life = "ended" ->
                            [Blocked(web) EXCEPT !.review = tab[t].at]
                     [] InReview(tab[t].view) -> [web EXCEPT !.review = tab[t].view.rev]
                     [] OTHER -> web
    /\ Leaves(t)
    /\ UNCHANGED <<Durable, up, worker, page, begun>>

\* The process ends; a copy it was making is left as it is.
Crash ==
    /\ up
    /\ up' = FALSE /\ web' = Idle /\ gate' = None /\ worker' = NoWork
    /\ page' = [p \in Pages |-> Resting] /\ tab' = [t \in Tabs |-> Ready]
    /\ begun' = [runs |-> 0, answers |-> 0]
    /\ lock' = IF lock \in Tabs THEN None ELSE lock
    /\ UNCHANGED <<job, other>>

\* create_folder_app and its lifespan: the state is seeded from the rehydrated
\* record, and planning is resumed.
Start ==
    /\ ~up /\ up' = TRUE
    /\ job' \in Rehydrated
    /\ \E view \in Projected(job') :
          /\ web' = IF view = None THEN Blocked(Idle)
                    ELSE CASE view.life = "planning" -> [Idle EXCEPT !.life = "planning"]
                           [] view.life = "clarifying" ->
                                  [Idle EXCEPT !.life = "clarifying", !.question = TRUE]
                           [] OTHER -> Refreshed(Idle, Checkpoint(view))
          /\ worker' = IF view # None /\ view.life = "planning"
                         THEN [NoWork EXCEPT !.step = "begun", !.op = "resume"]
                         ELSE NoWork
    /\ UNCHANGED <<lock, other, gate, page, tab, begun>>
-----------------------------------------------------------------------------
(* Actions on a result: download, Finder, verify again, recreate original *)

CheckResult(t) ==
    /\ up /\ tab[t].step = "idle" /\ web.life = "verified" /\ web.result
    /\ tab' = [tab EXCEPT ![t].step = "checking"]
    /\ UNCHANGED <<Durable, up, web, gate, worker, page, begun>>

\* A failed check of the result replaces whatever is shown.
ResultChecked(t) ==
    /\ tab[t].step = "checking"
    /\ web' \in {web, Blocked(web)}
    /\ tab' = [tab EXCEPT ![t] = Ready]
    /\ UNCHANGED <<Durable, up, gate, worker, page, begun>>
-----------------------------------------------------------------------------
(* The other surface *)

OtherRevises ==
    /\ other.step = "idle" /\ InReview(job) /\ lock = None /\ Room
    /\ job' = Successor("revising")
    /\ other' = [step |-> "revising", at |-> job'.rev]
    /\ UNCHANGED <<lock, app>>

OtherRevised ==
    /\ other.step = "revising" /\ lock = None
    /\ job.life = "revising" /\ job.rev = other.at
    /\ job' \in Outcomes
    /\ other' = [step |-> "idle", at |-> 0]
    /\ UNCHANGED <<lock, app>>

OtherKeeps ==
    /\ other.step = "idle" /\ job.life = "failed" /\ lock = None /\ Room
    /\ job' = Successor("reviewing")
    /\ UNCHANGED <<lock, other, app>>

\* It accepts the review, or takes an execution over.
OtherExecutes ==
    /\ other.step = "idle" /\ lock = None /\ job.life \in {"reviewing", "executing"}
    /\ job' = Finished("executing")
    /\ other' = [step |-> "executing", at |-> 0] /\ lock' = "other"
    /\ UNCHANGED app

OtherExecuted ==
    /\ other.step = "executing"
    /\ job' \in {Finished("verified"), Finished("ended")}
    /\ other' = [step |-> "idle", at |-> 0] /\ lock' = None
    /\ UNCHANGED app

\* It reads the record for a page or a start of its own.
OtherRehydrates ==
    /\ other.step = "idle"
    /\ job' \in Rehydrated
    /\ UNCHANGED <<lock, other, app>>

\* It stops, or gives up a turn that was closed.
OtherStops ==
    /\ other.step # "idle"
    /\ other' = [step |-> "idle", at |-> 0]
    /\ lock' = IF lock = "other" THEN None ELSE lock
    /\ UNCHANGED <<job, app>>
-----------------------------------------------------------------------------
Handles(t) ==
    \/ BeginWork(t)
    \/ ReviseBegins(t) \/ ReviseEnds(t) \/ ReviseLost(t) \/ Keep(t)
    \/ AcceptBegins(t) \/ AcceptEnds(t) \/ Acted(t) \/ Reread(t) \/ Refused(t)
    \/ ReviewStatus(t) \/ StatusShown(t) \/ ResultChecked(t)

Works == WorkBegins \/ WorkEnds \/ WorkShown
Polls(p) == Poll(p) \/ Read(p) \/ Show(p)

Next ==
    \/ \E p \in Pages : Load(p) \/ Polls(p)
    \/ \E t \in Tabs :
          \/ \E op \in {"run", "answer"} : Submit(t, op)
          \/ \E op \in {"revise", "keep", "accept"}, at \in 1..MaxRev : Act(t, op, at)
          \/ AskStatus(t) \/ CheckResult(t) \/ Handles(t)
    \/ Works
    \/ Crash \/ Start
    \/ OtherRevises \/ OtherRevised \/ OtherKeeps
    \/ OtherRehydrates \/ OtherExecutes \/ OtherExecuted \/ OtherStops

\* The worker's thread and the reads of pages run on (provider calls time out), and
\* a working page goes on polling while it may.  Nobody need open a page, and nothing
\* is assumed of requests and the other surface.
Fairness == WF_vars(Works) /\ \A p \in Pages : WF_vars(Polls(p))

Spec == Init /\ [][Next]_vars /\ Fairness
-----------------------------------------------------------------------------
(* Properties *)

\* Types; however many forms are submitted at once, a process begins one run and
\* uses one answer (start_job, apply_change_job and clarify look twice); and what
\* is shown has what it shows: a review its handle, a result its facts, a question
\* its text, though handlers, workers and page reads write their parts of the state
\* between each other's awaits (FolderWebCheckpoint asks it of each checkpoint).
TypeOK ==
    /\ job \in Job
    /\ lock \in Tabs \cup {"other", None}
    /\ other \in [step : {"idle", "revising", "executing"}, at : 0..MaxRev]
    /\ up \in BOOLEAN
    /\ web \in [life : {"idle", "planning", "clarifying", "reviewing", "executing",
                        "verified", "blocked"},
                review : (1..MaxRev) \cup {None}, question : BOOLEAN, result : BOOLEAN]
    /\ gate \in Tabs \cup {None}
    /\ worker \in [step : {"none", "begun", "planning", "done"},
                   op : {"run", "answer", "resume", None}, view : Job \cup {None}]
    /\ page \in [Pages -> [step : {"idle", "polling", "reading", "read"},
                          view : Shown \cup {None}]]
    /\ tab \in [Tabs -> [step : {"idle", "form", "queued", "called", "asking", "copying",
                                 "returned", "raised", "reread", "checking"},
                         op : {"run", "answer", "revise", "keep", "accept", "status", None},
                         at : 0..MaxRev, view : Job \cup Shown \cup {None}]]
    /\ begun \in [runs : 0..1, answers : 0..1]
    /\ web.life = "reviewing" => web.review # None
    /\ web.life = "verified" => web.result
    /\ web.life = "clarifying" => web.question

\* The browser claims a verified result only of a verified job, however late a
\* page read, a repeated acceptance or a worker's outcome is applied
\* (accept_review and _review_or_terminal raise for every other end); and what is
\* shown has what it shows, of one run and one answer.
NothingUnproved == (web.life = "verified" => job.life = "verified") /\ TypeOK

\* When a job has ended, by whatever surface, and no worker owns the browser, a
\* working page that polls and has still to read the record brings the end to be
\* shown, though late reads, a request's outcome or a repetition may meanwhile show
\* an older review over it.  (A page of a review or of a question reads once.)
EndIsShown == \A p \in Pages :
    /\ up /\ worker.step = "none" /\ job.life \in Terminal
    /\ page[p].step \in {"polling", "reading"}
    ~> ~up \/ web.life \in {"verified", "blocked"}

\* The question of a job that waits for its one answer is not taken for the failure
\* of the worker that brings it (a read that raises may block the browser rightly).
QuestionIsShown ==
    [][worker.step = "done" /\ worker' = NoWork
           /\ worker.view = job /\ job.life = "clarifying"
       => web'.life # "blocked"]_vars
=============================================================================
