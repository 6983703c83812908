--------------------------- MODULE BrowserAppProofs ---------------------------
(***************************************************************************)
(* BrowserApp for any tabs, pages and revisions: the browser claims a      *)
(* verified result only of a verified job.  What a page, a request or the  *)
(* worker still holds may be applied late, so the invariant is about every *)
(* view under way (ViewOK), not only about what is shown; and a job is     *)
(* verified once and for all, because a copy ends under its lock.          *)
(***************************************************************************)
EXTENDS BrowserApp, TLAPS

Webs == [life : {"idle", "planning", "clarifying", "reviewing", "executing",
                 "verified", "blocked"},
         review : (1..MaxRev) \cup {None}, question : BOOLEAN, result : BOOLEAN]
Workers == [step : {"none", "begun", "planning", "done"},
            op : {"run", "answer", "resume", None}, view : Job \cup {None}]
PageReads == [step : {"idle", "polling", "reading", "read"}, view : Shown \cup {None}]
Requests == [step : {"idle", "form", "queued", "called", "asking", "copying",
                     "returned", "raised", "reread", "checking"},
             op : {"run", "answer", "revise", "keep", "accept", "status", None},
             at : 0..MaxRev, view : Job \cup Shown \cup {None}]

\* A job has no review before its first one, and one in every state after it but
\* the end.
JobOK(j) ==
    /\ j \in Job
    /\ j.life \in {"none", "planning", "clarifying"} => j.rev = 0
    /\ j.life \in {"reviewing", "failed", "revising", "executing"} => j.rev >= 1

\* What somebody read of the job: a result is there for good, a review has a number.
ViewOK(v, j) == v # None =>
    /\ v.life = "verified" => j.life = "verified"
    /\ v.life \in {"reviewing", "failed", "revising"} => v.rev >= 1

WebOK(w, j) ==
    /\ w \in Webs
    /\ w.life = "reviewing" => w.review # None
    /\ w.life = "verified" => w.result /\ j.life = "verified"
    /\ w.life = "clarifying" => w.question

\* A request that makes the copy has the lock of the job.
TabOK(x, t, j, l) ==
    /\ x \in Requests
    /\ ViewOK(x.view, j)
    /\ x.step = "form" => x.op \in {"run", "answer"}
    /\ x.step = "asking" => x.op = "revise" /\ x.view # None /\ x.view.life = "revising"
    /\ x.step = "copying" => x.op = "accept" /\ l = t /\ j.life = "executing"
    /\ x.step = "returned" /\ x.op = "accept" => j.life = "verified"
    /\ x.step = "returned" /\ x.op \in {"revise", "keep"} => x.view # None /\ x.view.rev >= 1
    /\ x.step \in {"queued", "called", "returned"} /\ x.op = "status" => x.at >= 1

OtherOK(o, j, l) ==
    /\ o \in [step : {"idle", "revising", "executing"}, at : 0..MaxRev]
    /\ o.step = "executing" => l = "other" /\ j.life = "executing"

ProcessOK ==
    /\ up \in BOOLEAN /\ begun \in [runs : 0..1, answers : 0..1]
    /\ web.life = "idle" => begun.runs = 0
    /\ ~up => /\ begun = [runs |-> 0, answers |-> 0]
              /\ \A t \in Tabs : tab[t].step # "form"

BInv ==
    /\ JobOK(job)
    /\ lock \in Tabs \cup {"other", None}
    /\ OtherOK(other, job, lock)
    /\ gate \in Tabs \cup {None}
    /\ WebOK(web, job)
    /\ worker \in Workers /\ ViewOK(worker.view, job)
    /\ page \in [Pages -> PageReads] /\ \A p \in Pages : ViewOK(page[p].view, job)
    /\ tab \in [Tabs -> Requests] /\ \A t \in Tabs : TabOK(tab[t], t, job, lock)
    /\ ProcessOK
-----------------------------------------------------------------------------
(* What the service makes of a record, and the application of what it shows *)

LEMMA NoneIsNew ==
    /\ MaxRev \in Nat /\ MaxRev >= 1 /\ "other" \notin Tabs
    /\ None \notin Tabs /\ None # "other" /\ None \notin Job /\ None \notin Shown
    /\ None \notin 1..MaxRev
BY BrowserAssumption

\* A record that keeps its revision, and one that takes the next.
LEMMA RecordFacts ==
    ASSUME JobOK(job), NEW life \in {"none", "planning", "clarifying", "reviewing",
                                     "failed", "revising", "executing", "verified", "ended"}
    PROVE  /\ Finished(life) \in Job /\ Finished(life).life = life
           /\ Finished(life).rev = job.rev
           /\ Room => /\ Successor(life) \in Job /\ Successor(life).life = life
                      /\ Successor(life).rev >= 1
BY NoneIsNew DEF JobOK, Job, Finished, Successor, Room

LEMMA CheckpointFacts ==
    ASSUME NEW j \in Job, JobOK(j)
    PROVE  Checkpoint(j) \in Shown /\ ViewOK(Checkpoint(j), j)
BY NoneIsNew DEF Checkpoint, Shown, ViewOK, JobOK, Job, InReview

LEMMA ReadableFacts ==
    ASSUME JobOK(job), NEW v \in Readable
    PROVE  v \in Shown \cup {None} /\ ViewOK(v, job)
BY CheckpointFacts DEF Readable, ViewOK, JobOK

\* What a look at the inputs, or a rehydration, may make of the record: nothing of
\* a verified one, and nothing at all at a busy lock.
LEMMA RehydratedFacts ==
    ASSUME JobOK(job), NEW j \in Rehydrated
    PROVE  /\ JobOK(j)
           /\ job.life = "verified" \/ lock # None => j = job
<1>1. Looked \subseteq {job, Finished("ended")}
  BY DEF Looked
<1>2. j \in {job, Finished("ended"), Finished("failed"), Finished("verified")}
  BY <1>1 DEF Rehydrated
<1>3. j = Finished("failed") /\ j # job /\ j # Finished("ended") /\ j # Finished("verified")
        => job.life = "revising"
  BY <1>1 DEF Rehydrated
<1>4. JobOK(j)
  BY <1>2, <1>3, RecordFacts DEF JobOK
<1>5. job.life = "verified" \/ lock # None => j = job
  BY DEF Rehydrated, Looked
<1> QED
  BY <1>4, <1>5

LEMMA ProjectedFacts ==
    ASSUME NEW j, JobOK(j), NEW v \in Projected(j)
    PROVE  v \in {j, None} /\ v \in Job \cup {None} /\ ViewOK(v, j)
BY DEF Projected, JobOK, ViewOK

LEMMA BlockedFacts ==
    ASSUME NEW j, NEW w, WebOK(w, j)
    PROVE  WebOK(Blocked(w), j) /\ Blocked(w).life = "blocked"
BY DEF WebOK, Webs, Blocked

LEMMA CompletedFacts ==
    ASSUME NEW j, NEW w, WebOK(w, j), j.life = "verified"
    PROVE  WebOK(Completed(w), j) /\ Completed(w).life = "verified"
BY DEF WebOK, Webs, Completed

LEMMA ReviewFacts ==
    ASSUME NEW j, NEW w, WebOK(w, j), NEW r \in 1..MaxRev
    PROVE  /\ WebOK([w EXCEPT !.review = r], j)
           /\ WebOK([w EXCEPT !.life = "reviewing", !.review = r], j)
           /\ WebOK([w EXCEPT !.life = "reviewing", !.review = r, !.result = FALSE], j)
           /\ WebOK(Reviewed(w, r), j) /\ Reviewed(w, r).life = "reviewing"
<1>1. r # None
  BY NoneIsNew
<1>2. /\ WebOK([w EXCEPT !.review = r], j)
      /\ WebOK([w EXCEPT !.life = "reviewing", !.review = r], j)
  BY <1>1 DEF WebOK, Webs
<1>3. WebOK([w EXCEPT !.life = "reviewing", !.review = r, !.result = FALSE], j)
  BY <1>1 DEF WebOK, Webs
<1>4. WebOK(Reviewed(w, r), j) /\ Reviewed(w, r).life = "reviewing"
  BY <1>1 DEF WebOK, Webs, Reviewed
<1> QED
  BY <1>2, <1>3, <1>4

\* A late view changes nothing that it has no authority for.
LEMMA RefreshedFacts ==
    ASSUME NEW j, NEW w, WebOK(w, j), NEW c \in Job \cup Shown \cup {None}, ViewOK(c, j)
    PROVE  WebOK(Refreshed(w, c), j) /\ (Refreshed(w, c).life = "idle" => w.life = "idle")
<1>1. CASE c = None
  BY <1>1, BlockedFacts DEF Refreshed
<1>2. CASE c # None /\ c.life = "verified"
  BY <1>2 DEF Refreshed, WebOK, Webs, ViewOK
<1>3. CASE c # None /\ c.life = "blocked"
  BY <1>3, BlockedFacts DEF Refreshed
<1>4. CASE c # None /\ c.life = "reviewing"
  <2>1. c.rev \in 1..MaxRev
    BY <1>4, NoneIsNew DEF ViewOK, Job, Shown
  <2>2. Refreshed(w, c) = [w EXCEPT !.life = "reviewing", !.review = c.rev, !.result = FALSE]
    BY <1>4 DEF Refreshed
  <2>3. WebOK([w EXCEPT !.life = "reviewing", !.review = c.rev, !.result = FALSE], j)
    BY <2>1, ReviewFacts
  <2>4. Refreshed(w, c).life = "reviewing"
    BY <2>2 DEF WebOK, Webs
  <2> QED
    BY <2>2, <2>3, <2>4
<1>5. CASE c # None /\ c.life \notin {"verified", "blocked", "reviewing"}
  BY <1>5 DEF Refreshed
<1> QED
  BY <1>1, <1>2, <1>3, <1>4, <1>5

LEMMA OutcomeFacts ==
    ASSUME NEW j, NEW w, WebOK(w, j), NEW v \in Job \cup {None}, ViewOK(v, j)
    PROVE  WebOK(Outcome(w, v), j) /\ Outcome(w, v).life # "idle"
<1>1. CASE v # None /\ InReview(v)
  <2>1. v.rev \in 1..MaxRev
    BY <1>1, NoneIsNew DEF ViewOK, Job, InReview
  <2>2. Outcome(w, v) = Reviewed(w, v.rev)
    BY <1>1 DEF Outcome
  <2>3. WebOK(Outcome(w, v), j) /\ Outcome(w, v).life = "reviewing"
    BY <2>1, <2>2, ReviewFacts
  <2> QED
    BY <2>3
<1>2. CASE v # None /\ ~InReview(v) /\ v.life = "verified"
  BY <1>2, CompletedFacts DEF Outcome, ViewOK
<1>3. CASE v = None \/ (~InReview(v) /\ v.life # "verified")
  <2>1. Outcome(w, v) = [w EXCEPT !.life = "blocked"]
    BY <1>3 DEF Outcome
  <2> QED
    BY <2>1 DEF WebOK, Webs
<1> QED
  BY <1>1, <1>2, <1>3
-----------------------------------------------------------------------------
(* What a step of one surface leaves to the others *)

\* A verified job stays one, and whoever else makes a copy has lock and job.
Respects(a) ==
    /\ JobOK(job')
    /\ lock' \in Tabs \cup {"other", None}
    /\ job.life = "verified" => job'.life = "verified"
    /\ \A b \in (Tabs \cup {"other"}) \ {a} :
         lock = b /\ job.life = "executing" => lock' = b /\ job'.life = "executing"

LEMMA StillRespects ==
    ASSUME BInv, UNCHANGED <<job, lock>>, NEW a
    PROVE  Respects(a)
BY DEF BInv, Respects

LEMMA ViewKept ==
    ASSUME NEW a, Respects(a), NEW v, ViewOK(v, job)
    PROVE  ViewOK(v, job')
BY DEF Respects, ViewOK

LEMMA WebKept ==
    ASSUME NEW a, Respects(a), NEW w, WebOK(w, job)
    PROVE  WebOK(w, job')
BY DEF Respects, WebOK

LEMMA TabKept ==
    ASSUME NEW a, Respects(a), NEW t \in Tabs \ {a}, NEW x, TabOK(x, t, job, lock)
    PROVE  TabOK(x, t, job', lock')
<1>1. ViewOK(x.view, job')
  BY ViewKept DEF TabOK
<1> QED
  BY <1>1 DEF Respects, TabOK

LEMMA OtherKept ==
    ASSUME NEW a, a # "other", Respects(a), OtherOK(other, job, lock)
    PROVE  OtherOK(other, job', lock')
BY DEF Respects, OtherOK

\* A step of request t: what it makes of its own, its job and what is shown.
LEMMA TabStep ==
    ASSUME BInv, NEW t \in Tabs, Respects(t), NEW x \in Requests,
           TabOK(x, t, job', lock'), tab' = [tab EXCEPT ![t] = x],
           gate' \in Tabs \cup {None}, WebOK(web', job'),
           UNCHANGED <<other, up, page>>,
           worker' \in Workers, ViewOK(worker'.view, job'), ProcessOK'
    PROVE  BInv'
<1>1. \A p \in Pages : ViewOK(page'[p].view, job')
  BY ViewKept DEF BInv
<1>2. \A s \in Tabs : TabOK(tab'[s], s, job', lock')
  BY TabKept DEF BInv
<1>3. tab' \in [Tabs -> Requests]
  BY DEF BInv
<1>4. OtherOK(other', job', lock')
  BY OtherKept, NoneIsNew DEF BInv
<1> QED
  BY <1>1, <1>2, <1>3, <1>4 DEF BInv, Respects

\* A step of the job that is no request's.
LEMMA JobStep ==
    ASSUME BInv, NEW a \in {"other", None}, Respects(a), UNCHANGED <<tab, page>>,
           OtherOK(other', job', lock'), gate' \in Tabs \cup {None},
           WebOK(web', job'), worker' \in Workers, ViewOK(worker'.view, job'), ProcessOK'
    PROVE  BInv'
<1>1. \A p \in Pages : ViewOK(page'[p].view, job')
  BY ViewKept DEF BInv
<1>2. \A s \in Tabs : TabOK(tab'[s], s, job', lock')
  BY TabKept, NoneIsNew DEF BInv
<1> QED
  BY <1>1, <1>2 DEF BInv, Respects

\* A page's step.
LEMMA PageStep ==
    ASSUME BInv, NEW p \in Pages, NEW x \in PageReads, ViewOK(x.view, job),
           page' = [page EXCEPT ![p] = x], WebOK(web', job),
           web'.life = "idle" => web.life = "idle",
           UNCHANGED <<Durable, up, gate, worker, tab, begun>>
    PROVE  BInv'
<1>1. page' \in [Pages -> PageReads] /\ \A q \in Pages : ViewOK(page'[q].view, job')
  BY DEF BInv, Durable
<1>2. ProcessOK'
  BY DEF BInv, ProcessOK
<1> QED
  BY <1>1, <1>2 DEF BInv, Durable

\* A request's step that leaves the worker alone.
LEMMA RequestStep ==
    ASSUME BInv, NEW t \in Tabs, Respects(t), NEW x \in Requests,
           TabOK(x, t, job', lock'), tab' = [tab EXCEPT ![t] = x],
           gate' \in Tabs \cup {None}, WebOK(web', job'),
           web'.life = "idle" => web.life = "idle",
           x.step = "form" => up,
           UNCHANGED <<other, up, worker, page, begun>>
    PROVE  BInv'
<1>1. worker' \in Workers /\ ViewOK(worker'.view, job')
  BY ViewKept DEF BInv
<1>2. ProcessOK'
  BY DEF BInv, ProcessOK
<1> QED
  BY <1>1, <1>2, TabStep

\* ... and what is shown.
LEMMA CallStep ==
    ASSUME BInv, NEW t \in Tabs, Respects(t), NEW x \in Requests,
           TabOK(x, t, job', lock'), tab' = [tab EXCEPT ![t] = x], x.step # "form",
           UNCHANGED <<other, up, web, gate, worker, page, begun>>
    PROVE  BInv'
<1>1. WebOK(web', job')
  BY WebKept DEF BInv
<1> QED
  BY <1>1, RequestStep DEF BInv
-----------------------------------------------------------------------------
(* Pages *)

LEMMA VisitKeeps ==
    ASSUME BInv, NEW p \in Pages, Visit(p)
    PROVE  BInv'
<1> DEFINE step == IF Refreshes THEN "reading" ELSE Answered(web)
           x == [page[p] EXCEPT !.step = step]
<1>1. step \in {"idle", "polling", "reading"}
  BY DEF Answered
<1>2. page' = [page EXCEPT ![p].step = step]
  BY DEF Visit
<1> HIDE DEF step
<1>3. x \in PageReads /\ x.view = page[p].view /\ page' = [page EXCEPT ![p] = x]
  BY <1>1, <1>2 DEF BInv, PageReads
<1> HIDE DEF x
<1> QED
  BY <1>3, PageStep DEF Visit, BInv

LEMMA PagesKeep ==
    ASSUME BInv, NEW p \in Pages, Load(p) \/ Polls(p)
    PROVE  BInv'
<1>1. CASE Visit(p)
  BY <1>1, VisitKeeps
<1>2. CASE Read(p)
  <2>1. PICK v \in Readable : page' = [page EXCEPT ![p] = [step |-> "read", view |-> v]]
    BY <1>2 DEF Read
  <2>2. v \in Shown \cup {None} /\ ViewOK(v, job)
    BY ReadableFacts DEF BInv
  <2> DEFINE x == [step |-> "read", view |-> v]
  <2>3. x \in PageReads /\ ViewOK(x.view, job)
    BY <2>2 DEF PageReads
  <2> QED
    BY <1>2, <2>1, <2>3, PageStep DEF Read, BInv
<1>3. CASE Show(p)
  <2> DEFINE w == Refreshed(web, page[p].view)
  <2>1. page[p].view \in Shown \cup {None} /\ ViewOK(page[p].view, job) /\ WebOK(web, job)
    BY DEF BInv, PageReads
  <2>2. WebOK(w, job) /\ (w.life = "idle" => web.life = "idle")
    BY <2>1, RefreshedFacts
  <2> DEFINE x == [Resting EXCEPT !.step = Answered(w)]
  <2>3. web' = w /\ page' = [page EXCEPT ![p] = x]
    BY <1>3 DEF Show
  <2>4. Answered(w) \in {"idle", "polling"}
    BY DEF Answered
  <2>5. x \in PageReads /\ ViewOK(x.view, job)
    BY <2>4 DEF Resting, PageReads, ViewOK
  <2> HIDE DEF w, x
  <2> QED
    BY <1>3, <2>2, <2>3, <2>5, PageStep DEF Show
<1> QED
  BY <1>1, <1>2, <1>3 DEF Load, Poll, Polls
-----------------------------------------------------------------------------
(* Forms *)

LEMMA ReadyFacts ==
    ASSUME NEW t, NEW j, NEW l
    PROVE  Ready \in Requests /\ TabOK(Ready, t, j, l) /\ Ready.step = "idle"
BY NoneIsNew DEF Ready, Requests, TabOK, ViewOK

Asked(step, op) == [Ready EXCEPT !.step = step, !.op = op]

LEMMA NewRequest ==
    ASSUME NEW step \in {"form", "raised", "queued"},
           NEW op \in {"run", "answer", "revise", "keep", "accept", "status", None}
    PROVE  /\ Asked(step, op) \in Requests
           /\ Asked(step, op).step = step /\ Asked(step, op).op = op
           /\ Asked(step, op).view = None
<1>1. 0 \in 0..MaxRev /\ None \in Job \cup Shown \cup {None}
  BY NoneIsNew
<1>2. step \in {"idle", "form", "queued", "called", "asking", "copying",
               "returned", "raised", "reread", "checking"}
  OBVIOUS
<1> QED
  BY <1>1, <1>2 DEF Asked, Ready, Requests

LEMMA SubmitKeeps ==
    ASSUME BInv, NEW t \in Tabs, NEW op \in {"run", "answer"}, Submit(t, op)
    PROVE  BInv'
<1> DEFINE x == Asked("form", op)
<1>1. x \in Requests /\ x.step = "form" /\ x.op = op /\ x.view = None
  BY NewRequest
<1>2. tab' = [tab EXCEPT ![t] = x]
  BY DEF Submit, Asked
<1> HIDE DEF x
<1>3. TabOK(x, t, job', lock')
  BY <1>1 DEF TabOK, ViewOK
<1>4. Respects(t)
  BY StillRespects DEF Submit, Durable
<1>5. gate' \in Tabs \cup {None} /\ WebOK(web', job')
  BY DEF Submit, Durable, BInv
<1> QED
  BY <1>1, <1>2, <1>3, <1>4, <1>5, RequestStep DEF Submit, Durable

LEMMA BeginWorkKeeps ==
    ASSUME BInv, NEW t \in Tabs, BeginWork(t)
    PROVE  BInv'
<1>1. Respects(t)
  BY StillRespects DEF BeginWork, Durable
<1>2. CASE UNCHANGED <<web, worker, begun>>
  BY <1>1, <1>2, ReadyFacts, RequestStep DEF BeginWork, Durable, BInv
<1>3. CASE Awaited(tab[t].op) /\ Begins(t)
  <2>1. tab[t].op \in {"run", "answer"} /\ tab[t].step = "form" /\ up
    BY DEF BeginWork, BInv, TabOK, ProcessOK
  <2>2. worker' \in Workers /\ worker'.view = None
    BY <1>3, <2>1 DEF Begins, NoWork, Workers
  <2>3. WebOK(web', job) /\ web'.life = "planning"
    BY <1>3 DEF Begins, Idle, BInv, WebOK, Webs
  <2>4. begun' \in [runs : 0..1, answers : 0..1]
    BY <1>3, <2>1 DEF Begins, Awaited, BInv, ProcessOK
  <2>5. ProcessOK'
    BY <2>1, <2>3, <2>4 DEF ProcessOK, BeginWork
  <2>6. ViewOK(worker'.view, job')
    BY <2>2 DEF ViewOK
  <2> QED
    BY <1>1, <2>2, <2>3, <2>5, <2>6, ReadyFacts, TabStep DEF BeginWork, Durable, BInv
<1> QED
  BY <1>2, <1>3 DEF BeginWork
-----------------------------------------------------------------------------
(* The worker *)

\* A step of the worker's thread, which no request sees.
LEMMA ThreadStep ==
    ASSUME BInv, Respects(None), worker' \in Workers, ViewOK(worker'.view, job'),
           UNCHANGED <<lock, other, up, web, gate, page, tab, begun>>
    PROVE  BInv'
<1>1. WebOK(web', job') /\ OtherOK(other', job', lock')
  BY WebKept, OtherKept, NoneIsNew DEF BInv
<1>2. ProcessOK'
  BY DEF BInv, ProcessOK
<1> QED
  BY <1>1, <1>2, JobStep DEF BInv

LEMMA WorkBeginsKeeps ==
    ASSUME BInv, WorkBegins
    PROVE  BInv'
<1>1. JobOK(job) /\ worker \in Workers
  BY DEF BInv
<1>2. /\ job' = job \/ (/\ job.life \in {"none", "clarifying"}
                        /\ job' \in {Finished("planning"), Finished("ended")})
      /\ \E step \in {"planning", "done"}, v \in {job', None} : Work(step, v)
  BY DEF WorkBegins
<1>3. JobOK(job')
  BY <1>1, <1>2, RecordFacts DEF JobOK
<1>4. Respects(None)
  BY <1>1, <1>2, <1>3 DEF Respects, WorkBegins, BInv
<1>5. worker' \in Workers /\ ViewOK(worker'.view, job')
  BY <1>1, <1>2, <1>3 DEF Work, Workers, ViewOK, JobOK
<1> QED
  BY <1>4, <1>5, ThreadStep DEF WorkBegins

LEMMA WorkEndsKeeps ==
    ASSUME BInv, WorkEnds
    PROVE  BInv'
<1>1. JobOK(job) /\ worker \in Workers
  BY DEF BInv
<1>2. /\ job' = job \/ (/\ job.life = "planning"
                        /\ job' \in {Successor("reviewing"), Finished("clarifying"),
                                     Finished("ended")})
      /\ \E v \in {job', None} : Work("done", v)
  BY DEF WorkEnds
<1>3. job.life = "planning" => Room
  BY <1>1, NoneIsNew DEF JobOK, Room
<1>4. JobOK(job')
  BY <1>1, <1>2, <1>3, RecordFacts DEF JobOK
<1>5. Respects(None)
  BY <1>1, <1>2, <1>4 DEF Respects, WorkEnds, BInv
<1>6. worker' \in Workers /\ ViewOK(worker'.view, job')
  BY <1>1, <1>2, <1>4 DEF Work, Workers, ViewOK, JobOK
<1> QED
  BY <1>5, <1>6, ThreadStep DEF WorkEnds

LEMMA WorkShownKeeps ==
    ASSUME BInv, WorkShown
    PROVE  BInv'
<1>1. Respects(None)
  BY StillRespects DEF WorkShown, Durable
<1>2. worker.view \in Job \cup {None} /\ ViewOK(worker.view, job) /\ WebOK(web, job)
  BY DEF BInv, Workers
<1>3. WebOK(web', job') /\ web'.life # "idle"
  BY <1>2, OutcomeFacts DEF WorkShown, Durable
<1>4. NoWork \in Workers /\ ViewOK(NoWork.view, job')
  BY DEF NoWork, Workers, ViewOK
<1>5. ProcessOK'
  BY <1>3 DEF ProcessOK, BInv, WorkShown
<1> QED
  BY <1>1, <1>3, <1>4, <1>5, JobStep DEF WorkShown, Durable, BInv
-----------------------------------------------------------------------------
(* Actions on a review *)

\* What a request may become without having learnt anything of the job.
LEMMA StepFacts ==
    ASSUME BInv, NEW t \in Tabs
    PROVE  /\ tab[t] \in Requests /\ TabOK(tab[t], t, job, lock)
           /\ tab \in [Tabs -> Requests] /\ JobOK(job)
           /\ WebOK(web, job)
BY DEF BInv

\* A call that fails, whatever it made of the job.
LEMMA FailStep ==
    ASSUME BInv, NEW t \in Tabs, Respects(t), Fails(t),
           UNCHANGED <<other, up, web, gate, worker, page, begun>>
    PROVE  BInv'
<1> DEFINE x == Asked("raised", tab[t].op)
<1>1. tab[t].op \in {"run", "answer", "revise", "keep", "accept", "status", None}
  BY StepFacts DEF Requests
<1>2. x \in Requests /\ x.step = "raised" /\ x.view = None
  BY <1>1, NewRequest
<1>3. tab' = [tab EXCEPT ![t] = x]
  BY DEF Fails, Asked
<1> HIDE DEF x
<1>4. TabOK(x, t, job', lock')
  BY <1>2 DEF TabOK, ViewOK
<1> QED
  BY <1>2, <1>3, <1>4, CallStep

\* A look at the record's inputs, or its rehydration, leaves the others theirs.
LEMMA RehydrateStep ==
    ASSUME BInv, job' \in Rehydrated, lock' = lock, NEW a
    PROVE  Respects(a) /\ JobOK(job')
<1>1. JobOK(job') /\ (job.life = "verified" \/ lock # None => job' = job)
  BY RehydratedFacts DEF BInv
<1> QED
  BY <1>1, NoneIsNew DEF Respects, BInv

LEMMA LookStep ==
    ASSUME BInv, job' \in Looked, lock' = lock, NEW a
    PROVE  Respects(a) /\ JobOK(job')
BY RehydrateStep DEF Rehydrated, Looked

LEMMA RaiseStep ==
    ASSUME BInv, NEW t \in Tabs, Raises(t),
           UNCHANGED <<other, up, web, gate, worker, page, begun>>
    PROVE  BInv'
BY FailStep, LookStep DEF Raises

\* A call that returns a view of the job.
LEMMA ReturnStep ==
    ASSUME BInv, NEW t \in Tabs, Respects(t), NEW v \in Job \cup {None}, Returns(t, v),
           ViewOK(v, job'), tab[t].step \in {"called", "asking", "copying"},
           tab[t].op = "accept" => job'.life = "verified",
           tab[t].op \in {"revise", "keep"} => v # None /\ v.rev >= 1,
           UNCHANGED <<other, up, web, gate, worker, page, begun>>
    PROVE  BInv'
<1> DEFINE x == [tab[t] EXCEPT !.step = "returned", !.view = v]
<1>1. /\ x \in Requests /\ x.step = "returned" /\ x.view = v
      /\ x.op = tab[t].op /\ x.at = tab[t].at
  BY StepFacts DEF Requests
<1>2. tab' = [tab EXCEPT ![t] = x]
  BY StepFacts DEF Returns
<1> HIDE DEF x
<1>3. tab[t].op = "status" => tab[t].step = "called"
  BY StepFacts DEF TabOK
<1>4. TabOK(x, t, job', lock')
  BY <1>1, <1>3, StepFacts DEF TabOK
<1> QED
  BY <1>1, <1>2, <1>4, CallStep

LEMMA ActKeeps ==
    ASSUME BInv, NEW t \in Tabs, NEW op \in {"revise", "keep", "accept"},
           NEW at \in 1..MaxRev, Act(t, op, at)
    PROVE  BInv'
<1> DEFINE x == [step |-> "called", op |-> op, at |-> at, view |-> None]
<1>1. x \in Requests
  BY NoneIsNew DEF Requests
<1>2. TabOK(x, t, job, lock)
  BY <1>1 DEF TabOK, ViewOK
<1>3. WebOK(web', job) /\ (web'.life = "idle" => web.life = "idle")
  BY StepFacts DEF Act, WebOK, Webs
<1>4. Respects(t)
  BY StillRespects DEF Act, Durable
<1> QED
  BY <1>1, <1>2, <1>3, <1>4, RequestStep DEF Act, Durable, BInv

\* A request on the record as it stands may write it.
LEMMA CurrentFacts ==
    ASSUME BInv, NEW t \in Tabs, lock = None, job.life # "verified", JobOK(job'),
           lock' \in {None, t}
    PROVE  Respects(t)
BY NoneIsNew DEF Respects

LEMMA ReviseBeginsKeeps ==
    ASSUME BInv, NEW t \in Tabs, ReviseBegins(t)
    PROVE  BInv'
<1>1. CASE Raises(t)
  BY <1>1, RaiseStep DEF ReviseBegins
<1>2. CASE /\ Current(t) /\ Room /\ job' = Successor("revising")
           /\ tab' = [tab EXCEPT ![t].step = "asking", ![t].view = job']
           /\ UNCHANGED lock
  <2>1. JobOK(job') /\ job' \in Job /\ job'.life = "revising" /\ job'.rev >= 1
    BY <1>2, RecordFacts, StepFacts DEF JobOK
  <2>2. Respects(t)
    BY <1>2, <2>1, CurrentFacts DEF Current, InReview
  <2> DEFINE x == [tab[t] EXCEPT !.step = "asking", !.view = job']
  <2>3. /\ x \in Requests /\ x.step = "asking" /\ x.view = job' /\ x.op = "revise"
        /\ tab' = [tab EXCEPT ![t] = x]
    BY <1>2, <2>1, StepFacts DEF Requests, ReviseBegins, Called
  <2> HIDE DEF x
  <2>4. TabOK(x, t, job', lock')
    BY <2>1, <2>3, NoneIsNew DEF TabOK, ViewOK
  <2> QED
    BY <2>2, <2>3, <2>4, CallStep DEF ReviseBegins
<1>3. CASE InReview(job) /\ Returns(t, job) /\ UNCHANGED <<job, lock>>
  <2>1. job \in Job /\ ViewOK(job, job) /\ job # None /\ job.rev >= 1
    BY <1>3, StepFacts, NoneIsNew DEF JobOK, ViewOK, InReview
  <2> QED
    BY <1>3, <2>1, StillRespects, ReturnStep DEF ReviseBegins, Called
<1> QED
  BY <1>1, <1>2, <1>3 DEF ReviseBegins

LEMMA ReviseEndsKeeps ==
    ASSUME BInv, NEW t \in Tabs, ReviseEnds(t)
    PROVE  BInv'
<1>1. /\ tab[t].op = "revise" /\ tab[t].view # None /\ tab[t].view.life = "revising"
      /\ JobOK(job)
  BY StepFacts DEF ReviseEnds, TabOK
<1>2. Respects(t) /\ job' \in Job /\ ViewOK(job', job')
  <2>1. CASE UNCHANGED job
    BY <1>1, <2>1, StillRespects DEF ReviseEnds, JobOK, ViewOK
  <2>2. CASE job = tab[t].view /\ lock = None /\ job' \in Outcomes
    <3>1. job.life = "revising" /\ JobOK(job') /\ job' \in Job
      BY <1>1, <2>2, RecordFacts DEF Outcomes, JobOK
    <3> QED
      BY <2>2, <3>1, CurrentFacts DEF ReviseEnds, JobOK, ViewOK
  <2> QED
    BY <2>1, <2>2 DEF ReviseEnds
<1>3. CASE InReview(job')
  <2>1. job'.rev >= 1
    BY <1>2, <1>3, NoneIsNew DEF ViewOK, InReview
  <2> QED
    BY <1>1, <1>2, <1>3, <2>1, ReturnStep, NoneIsNew DEF ReviseEnds
<1>4. CASE ~InReview(job')
  BY <1>2, <1>4, FailStep DEF ReviseEnds
<1> QED
  BY <1>3, <1>4

LEMMA ReviseLostKeeps ==
    ASSUME BInv, NEW t \in Tabs, ReviseLost(t)
    PROVE  BInv'
BY RaiseStep DEF ReviseLost

LEMMA KeepKeeps ==
    ASSUME BInv, NEW t \in Tabs, Keep(t)
    PROVE  BInv'
<1>1. CASE Raises(t)
  BY <1>1, RaiseStep DEF Keep
<1>2. CASE /\ Current(t) /\ job.life = "failed" /\ Room
           /\ job' = Successor("reviewing") /\ Returns(t, job') /\ UNCHANGED lock
  <2>1. JobOK(job') /\ job' \in Job /\ job'.rev >= 1 /\ ViewOK(job', job') /\ job' # None
    BY <1>2, RecordFacts, StepFacts, NoneIsNew DEF JobOK, ViewOK
  <2>2. Respects(t)
    BY <1>2, <2>1, CurrentFacts DEF Current
  <2> QED
    BY <1>2, <2>1, <2>2, ReturnStep DEF Keep, Called
<1>3. CASE Repeats(t) /\ job' \in Looked /\ Returns(t, job') /\ UNCHANGED lock
  <2>1. job.rev >= 1
    BY <1>3, StepFacts, NoneIsNew DEF Repeats, Requests, JobOK, Job
  <2>2. job'.rev >= 1
    BY <1>3, <2>1, RecordFacts, StepFacts DEF Looked
  <2>3. Respects(t) /\ JobOK(job')
    BY <1>3, LookStep
  <2>4. job' \in Job /\ ViewOK(job', job') /\ job' # None
    BY <2>3, NoneIsNew DEF JobOK, ViewOK
  <2> QED
    BY <1>3, <2>2, <2>3, <2>4, ReturnStep DEF Keep, Called
<1> QED
  BY <1>1, <1>2, <1>3 DEF Keep

LEMMA AcceptBeginsKeeps ==
    ASSUME BInv, NEW t \in Tabs, AcceptBegins(t)
    PROVE  BInv'
<1>1. CASE Raises(t)
  BY <1>1, RaiseStep DEF AcceptBegins
<1>2. CASE /\ lock = None /\ lock' = t /\ Step(t, "copying")
           /\ JobOK(job') /\ job'.life = "executing" /\ job.life # "verified"
  <2>1. Respects(t)
    BY <1>2, CurrentFacts
  <2> DEFINE x == [tab[t] EXCEPT !.step = "copying"]
  <2>2. /\ x \in Requests /\ x.step = "copying" /\ x.view = tab[t].view /\ x.op = "accept"
        /\ tab' = [tab EXCEPT ![t] = x]
    BY <1>2, StepFacts DEF Requests, AcceptBegins, Called, Step
  <2> HIDE DEF x
  <2>3. ViewOK(x.view, job')
    BY <2>1, <2>2, ViewKept, StepFacts DEF TabOK
  <2>4. TabOK(x, t, job', lock')
    BY <1>2, <2>2, <2>3 DEF TabOK
  <2> QED
    BY <2>1, <2>2, <2>4, CallStep DEF AcceptBegins
<1>3. CASE job.life = "verified" /\ Returns(t, job) /\ UNCHANGED <<job, lock>>
  BY <1>3, StillRespects, ReturnStep, StepFacts DEF AcceptBegins, Called, JobOK, ViewOK
<1>4. \/ JobOK(Finished("executing")) /\ Finished("executing").life = "executing"
      \/ job.life # "reviewing"
  BY RecordFacts, StepFacts DEF JobOK
<1> QED
  BY <1>1, <1>2, <1>3, <1>4, StepFacts DEF AcceptBegins, Current

LEMMA AcceptEndsKeeps ==
    ASSUME BInv, NEW t \in Tabs, AcceptEnds(t)
    PROVE  BInv'
<1>1. lock = t /\ job.life = "executing" /\ tab[t].op = "accept"
  BY StepFacts DEF AcceptEnds, TabOK
<1>2. JobOK(job') /\ job' \in Job /\ lock' = None
  BY <1>1, RecordFacts, StepFacts DEF AcceptEnds, JobOK
<1>3. Respects(t)
  BY <1>1, <1>2 DEF Respects
<1>4. CASE job'.life = "verified" /\ Returns(t, job')
  <2>1. ViewOK(job', job')
    BY <1>4 DEF ViewOK
  <2> QED
    BY <1>1, <1>2, <1>3, <1>4, <2>1, ReturnStep DEF AcceptEnds
<1>5. CASE Fails(t)
  BY <1>3, <1>5, FailStep DEF AcceptEnds
<1> QED
  BY <1>4, <1>5 DEF AcceptEnds
-----------------------------------------------------------------------------
(* What a request shows, and what it reads again *)

\* The end of a request.
LEMMA LeaveStep ==
    ASSUME BInv, NEW t \in Tabs, Leaves(t), WebOK(web', job),
           web'.life = "idle" => web.life = "idle",
           UNCHANGED <<Durable, up, worker, page, begun>>
    PROVE  BInv'
<1>1. Respects(t)
  BY StillRespects DEF Durable
<1>2. gate' \in Tabs \cup {None}
  BY DEF Leaves, BInv
<1> QED
  BY <1>1, <1>2, ReadyFacts, RequestStep DEF Leaves, Durable

LEMMA ActedKeeps ==
    ASSUME BInv, NEW t \in Tabs, Acted(t)
    PROVE  BInv'
<1>1. CASE tab[t].op = "accept"
  <2>1. web' = Completed(web) /\ job.life = "verified" /\ WebOK(web, job)
    BY <1>1, StepFacts DEF Acted, TabOK
  <2>2. WebOK(web', job) /\ web'.life = "verified"
    BY <2>1, CompletedFacts
  <2> QED
    BY <2>2, LeaveStep DEF Acted
<1>2. CASE tab[t].op \in {"revise", "keep"}
  <2>1. tab[t].view.rev \in 1..MaxRev /\ WebOK(web, job)
    BY <1>2, StepFacts, NoneIsNew DEF Acted, TabOK, ViewOK, InReview, Requests, Job, Shown
  <2>2. web' = [web EXCEPT !.life = "reviewing", !.review = tab[t].view.rev]
    BY <1>2 DEF Acted
  <2>3. WebOK([web EXCEPT !.life = "reviewing", !.review = tab[t].view.rev], job)
    BY <2>1, ReviewFacts
  <2>4. WebOK(web', job) /\ web'.life = "reviewing"
    BY <2>1, <2>2, <2>3 DEF WebOK, Webs
  <2> QED
    BY <2>4, LeaveStep DEF Acted
<1> QED
  BY <1>1, <1>2 DEF Acted

LEMMA RereadKeeps ==
    ASSUME BInv, NEW t \in Tabs, Reread(t)
    PROVE  BInv'
<1>1. PICK v \in Readable : tab' = [tab EXCEPT ![t].step = "reread", ![t].view = v]
  BY DEF Reread
<1>2. v \in Shown \cup {None} /\ ViewOK(v, job)
  BY ReadableFacts, StepFacts
<1> DEFINE x == [tab[t] EXCEPT !.step = "reread", !.view = v]
<1>3. x \in Requests /\ x.step = "reread" /\ x.view = v /\ tab' = [tab EXCEPT ![t] = x]
  BY <1>1, <1>2, StepFacts DEF Requests
<1> HIDE DEF x
<1>4. TabOK(x, t, job, lock)
  BY <1>2, <1>3 DEF TabOK
<1>5. Respects(t)
  BY StillRespects DEF Reread, Durable
<1> QED
  BY <1>3, <1>4, <1>5, CallStep DEF Reread, Durable

LEMMA RefusedKeeps ==
    ASSUME BInv, NEW t \in Tabs, Refused(t)
    PROVE  BInv'
<1> DEFINE w == IF tab[t].step = "reread" THEN Refreshed(web, tab[t].view) ELSE web
<1>1. /\ WebOK(web, job)
      /\ tab[t].view \in Job \cup Shown \cup {None} /\ ViewOK(tab[t].view, job)
  BY StepFacts DEF TabOK, Requests
<1>2. WebOK(w, job) /\ (w.life = "idle" => web.life = "idle")
  BY <1>1, RefreshedFacts
<1>3. web' \in {w, Blocked(w)}
  BY DEF Refused
<1> HIDE DEF w
<1>4. WebOK(web', job) /\ (web'.life = "idle" => web.life = "idle")
  BY <1>2, <1>3, BlockedFacts
<1> QED
  BY <1>4, LeaveStep DEF Refused

LEMMA AskStatusKeeps ==
    ASSUME BInv, NEW t \in Tabs, AskStatus(t)
    PROVE  BInv'
<1> DEFINE x == [Ready EXCEPT !.step = "queued", !.op = "status", !.at = web.review]
<1>1. web.review \in 1..MaxRev
  BY StepFacts DEF AskStatus, WebOK, Webs
<1>2. web.review \in 0..MaxRev /\ web.review >= 1 /\ None \in Job \cup Shown \cup {None}
  BY <1>1, NoneIsNew
<1>3. /\ x \in Requests /\ x.step = "queued" /\ x.op = "status" /\ x.at = web.review
      /\ x.view = None
  BY <1>2 DEF Ready, Requests
<1>4. tab' = [tab EXCEPT ![t] = x]
  BY DEF AskStatus
<1> HIDE DEF x
<1>5. TabOK(x, t, job, lock)
  BY <1>2, <1>3 DEF TabOK, ViewOK
<1>6. Respects(t)
  BY StillRespects DEF AskStatus, Durable
<1> QED
  BY <1>3, <1>4, <1>5, <1>6, CallStep DEF AskStatus, Durable

LEMMA ReviewStatusKeeps ==
    ASSUME BInv, NEW t \in Tabs, ReviewStatus(t)
    PROVE  BInv'
<1>1. CASE /\ tab[t].step = "queued" /\ Step(t, "called") /\ gate' = t
           /\ UNCHANGED <<Durable, up, web, worker, page, begun>>
  <2> DEFINE x == [tab[t] EXCEPT !.step = "called"]
  <2>1. /\ x \in Requests /\ x.step = "called" /\ x.op = tab[t].op /\ x.at = tab[t].at
        /\ x.view = tab[t].view /\ tab' = [tab EXCEPT ![t] = x]
    BY <1>1, StepFacts DEF Requests, Step
  <2> HIDE DEF x
  <2>2. TabOK(x, t, job, lock)
    BY <1>1, <2>1, StepFacts DEF TabOK
  <2>3. Respects(t)
    BY <1>1, StillRespects DEF Durable
  <2> QED
    BY <1>1, <2>1, <2>2, <2>3, StepFacts, RequestStep DEF Durable
<1>2. CASE /\ Called(t, "status")
           /\ job' \in Rehydrated
           /\ \E v \in Projected(job') : Returns(t, v)
           /\ UNCHANGED <<lock, other, up, web, gate, worker, page, begun>>
  <2>1. PICK v \in Projected(job') : Returns(t, v)
    BY <1>2
  <2>2. Respects(t) /\ JobOK(job')
    BY <1>2, RehydrateStep
  <2>3. v \in Job \cup {None} /\ ViewOK(v, job')
    BY <2>2, ProjectedFacts
  <2> QED
    BY <1>2, <2>1, <2>2, <2>3, ReturnStep DEF Called
<1> QED
  BY <1>1, <1>2 DEF ReviewStatus

LEMMA StatusShownKeeps ==
    ASSUME BInv, NEW t \in Tabs, StatusShown(t)
    PROVE  BInv'
<1> DEFINE v == tab[t].view
<1>1. /\ tab[t] \in Requests /\ WebOK(web, job) /\ ViewOK(v, job)
      /\ tab[t].at \in 1..MaxRev
  BY StepFacts, NoneIsNew DEF StatusShown, TabOK, Requests
<1>2. CASE web' = web
  BY <1>1, <1>2, LeaveStep DEF StatusShown
<1>3. CASE web' = [Blocked(web) EXCEPT !.review = tab[t].at]
  <2>1. WebOK(web', job) /\ web'.life = "blocked"
    BY <1>1, <1>3 DEF Blocked, WebOK, Webs
  <2> QED
    BY <2>1, LeaveStep DEF StatusShown
<1>4. CASE web' = [web EXCEPT !.review = v.rev] /\ v # None /\ InReview(v)
  <2>1. v.rev \in 1..MaxRev
    BY <1>1, <1>4, NoneIsNew DEF ViewOK, InReview, Requests, Job, Shown
  <2>2. WebOK([web EXCEPT !.review = v.rev], job)
    BY <1>1, <2>1, ReviewFacts
  <2>3. WebOK(web', job) /\ web'.life = web.life
    BY <1>1, <1>4, <2>2 DEF WebOK, Webs
  <2> QED
    BY <2>3, LeaveStep DEF StatusShown
<1> QED
  BY <1>2, <1>3, <1>4 DEF StatusShown

LEMMA CheckResultKeeps ==
    ASSUME BInv, NEW t \in Tabs, CheckResult(t)
    PROVE  BInv'
<1> DEFINE x == [tab[t] EXCEPT !.step = "checking"]
<1>1. /\ x \in Requests /\ x.step = "checking" /\ x.view = tab[t].view
      /\ tab' = [tab EXCEPT ![t] = x]
  BY StepFacts DEF Requests, CheckResult
<1> HIDE DEF x
<1>2. TabOK(x, t, job, lock)
  BY <1>1, StepFacts DEF TabOK
<1>3. Respects(t)
  BY StillRespects DEF CheckResult, Durable
<1> QED
  BY <1>1, <1>2, <1>3, CallStep DEF CheckResult, Durable

LEMMA ResultCheckedKeeps ==
    ASSUME BInv, NEW t \in Tabs, ResultChecked(t)
    PROVE  BInv'
<1>1. WebOK(web', job) /\ (web'.life = "idle" => web.life = "idle")
  BY BlockedFacts, StepFacts DEF ResultChecked
<1>2. Respects(t)
  BY StillRespects DEF ResultChecked, Durable
<1> QED
  BY <1>1, <1>2, ReadyFacts, RequestStep DEF ResultChecked, Durable, BInv
-----------------------------------------------------------------------------
(* Crash, start, and the other surface *)

LEMMA CrashKeeps ==
    ASSUME BInv, Crash
    PROVE  BInv'
<1>1. /\ Resting \in PageReads /\ Resting.view = None
      /\ NoWork \in Workers /\ NoWork.view = None
  BY DEF Resting, PageReads, NoWork, Workers
<1>2. page' \in [Pages -> PageReads] /\ \A p \in Pages : ViewOK(page'[p].view, job')
  BY <1>1 DEF Crash, ViewOK
<1>3. worker' \in Workers /\ ViewOK(worker'.view, job')
  BY <1>1 DEF Crash, ViewOK
<1>4. /\ tab' \in [Tabs -> Requests]
      /\ \A t \in Tabs : tab'[t].step = "idle" /\ TabOK(tab'[t], t, job', lock')
  BY ReadyFacts DEF Crash
<1>5. Idle \in Webs /\ Idle.life = "idle"
  BY DEF Idle, Webs
<1>6. WebOK(web', job')
  BY <1>5 DEF Crash, WebOK
<1>7. lock' \in Tabs \cup {"other", None} /\ OtherOK(other', job', lock')
  BY NoneIsNew DEF Crash, BInv, OtherOK
<1>8. ProcessOK'
  <2>1. begun' \in [runs : 0..1, answers : 0..1] /\ begun'.runs = 0
    BY DEF Crash
  <2> QED
    BY <1>4, <2>1 DEF Crash, ProcessOK
<1> QED
  BY <1>2, <1>3, <1>4, <1>6, <1>7, <1>8 DEF Crash, BInv

LEMMA StartKeeps ==
    ASSUME BInv, Start
    PROVE  BInv'
<1>1. PICK v \in Projected(job') :
        /\ web' = IF v = None THEN Blocked(Idle)
                  ELSE CASE v.life = "planning" -> [Idle EXCEPT !.life = "planning"]
                         [] v.life = "clarifying" ->
                                [Idle EXCEPT !.life = "clarifying", !.question = TRUE]
                         [] OTHER -> Refreshed(Idle, Checkpoint(v))
        /\ worker' = IF v # None /\ v.life = "planning"
                       THEN [NoWork EXCEPT !.step = "begun", !.op = "resume"]
                       ELSE NoWork
  BY DEF Start
<1>2. /\ Respects(None) /\ v \in Job \cup {None}
      /\ v # None => JobOK(v) /\ job' = v
  BY RehydrateStep, ProjectedFacts DEF Start
<1>3. worker' \in Workers /\ worker'.view = None
  BY <1>1 DEF NoWork, Workers
<1>4. WebOK(Idle, job')
  BY DEF Idle, Webs, WebOK
<1>5. WebOK(web', job')
  <2>1. CASE v = None
    BY <1>1, <1>4, <2>1, BlockedFacts
  <2>2. CASE v # None /\ v.life \in {"planning", "clarifying"}
    BY <1>1, <2>2 DEF Idle, Webs, WebOK
  <2>3. CASE v # None /\ v.life \notin {"planning", "clarifying"}
    <3>1. Checkpoint(v) \in Shown /\ ViewOK(Checkpoint(v), job')
      BY <1>2, <2>3, CheckpointFacts
    <3>2. web' = Refreshed(Idle, Checkpoint(v))
      BY <1>1, <2>3
    <3> QED
      BY <1>4, <3>1, <3>2, RefreshedFacts
  <2> QED
    BY <2>1, <2>2, <2>3
<1>6. ViewOK(worker'.view, job') /\ OtherOK(other', job', lock')
  BY <1>2, <1>3, OtherKept, NoneIsNew DEF Start, BInv, ViewOK
<1>7. ProcessOK'
  BY DEF Start, BInv, ProcessOK
<1> QED
  BY <1>2, <1>3, <1>5, <1>6, <1>7, JobStep DEF Start, BInv

\* A step of the other surface, which the application does not see.
LEMMA OtherStep ==
    ASSUME BInv, NEW a \in {"other", None}, Respects(a), OtherOK(other', job', lock'),
           UNCHANGED app
    PROVE  BInv'
<1>1. WebOK(web', job')
  BY WebKept DEF BInv, app
<1>2. worker' \in Workers /\ ViewOK(worker'.view, job')
  BY ViewKept DEF BInv, app
<1>3. ProcessOK'
  BY DEF BInv, ProcessOK, app
<1> QED
  BY <1>1, <1>2, <1>3, JobStep DEF BInv, app

\* It writes the job under a lock that is free, or its own.
LEMMA OtherWrites ==
    ASSUME BInv, JobOK(job'), job.life # "verified", lock \in {None, "other"},
           lock' \in {None, "other"}
    PROVE  Respects("other")
BY NoneIsNew DEF Respects

LEMMA OtherKeepsInv ==
    ASSUME BInv, OtherRevises \/ OtherRevised \/ OtherKeeps
    PROVE  BInv'
<1>1. JobOK(job) /\ OtherOK(other, job, lock)
  BY DEF BInv
<1>2. JobOK(job') /\ job.life # "verified" /\ lock = None /\ lock' = lock
  BY <1>1, RecordFacts DEF OtherRevises, OtherRevised, OtherKeeps, InReview, Outcomes, JobOK
<1>3. other.step # "executing"
  BY <1>1, <1>2, NoneIsNew DEF OtherOK
<1>4. 0 \in 0..MaxRev /\ job'.rev \in 0..MaxRev
  BY <1>2, NoneIsNew DEF JobOK, Job
<1>5. OtherOK(other', job', lock')
  BY <1>1, <1>3, <1>4 DEF OtherRevises, OtherRevised, OtherKeeps, OtherOK
<1> QED
  BY <1>2, <1>5, OtherWrites, OtherStep DEF OtherRevises, OtherRevised, OtherKeeps

LEMMA OtherExecutesKeeps ==
    ASSUME BInv, OtherExecutes \/ OtherExecuted
    PROVE  BInv'
<1>1. JobOK(job) /\ OtherOK(other, job, lock)
  BY DEF BInv
<1>2. /\ JobOK(job') /\ job.life # "verified"
      /\ lock \in {None, "other"} /\ lock' \in {None, "other"}
  BY <1>1, RecordFacts DEF OtherExecutes, OtherExecuted, OtherOK, JobOK
<1>3. OtherExecutes => job'.life = "executing" /\ lock' = "other"
  BY <1>1, RecordFacts DEF OtherExecutes
<1>4. OtherOK(other', job', lock')
  BY <1>3, NoneIsNew DEF OtherExecutes, OtherExecuted, OtherOK
<1> QED
  BY <1>2, <1>4, OtherWrites, OtherStep DEF OtherExecutes, OtherExecuted

LEMMA OtherRehydratesKeeps ==
    ASSUME BInv, OtherRehydrates
    PROVE  BInv'
<1>1. Respects("other")
  BY RehydrateStep DEF OtherRehydrates
<1>2. OtherOK(other', job', lock')
  BY RehydratedFacts DEF OtherRehydrates, OtherOK, BInv
<1> QED
  BY <1>1, <1>2, OtherStep DEF OtherRehydrates

LEMMA OtherStopsKeeps ==
    ASSUME BInv, OtherStops
    PROVE  BInv'
<1>1. Respects("other")
  BY NoneIsNew DEF OtherStops, Respects, BInv
<1>2. OtherOK(other', job', lock')
  BY NoneIsNew DEF OtherStops, OtherOK
<1> QED
  BY <1>1, <1>2, OtherStep DEF OtherStops
-----------------------------------------------------------------------------
LEMMA InitOK ==
    ASSUME Init
    PROVE  BInv
<1>1. JobOK(job)
  BY NoneIsNew DEF Init, JobOK, Job
<1>2. other \in [step : {"idle", "revising", "executing"}, at : 0..MaxRev]
  BY NoneIsNew DEF Init
<1>3. OtherOK(other, job, lock)
  BY <1>2 DEF Init, OtherOK
<1>4. Idle \in Webs /\ Idle.life = "idle"
  BY DEF Idle, Webs
<1>5. WebOK(web, job)
  BY <1>4 DEF Init, WebOK
<1>6. /\ Resting \in PageReads /\ Resting.view = None
      /\ NoWork \in Workers /\ NoWork.view = None
  BY DEF Resting, PageReads, NoWork, Workers
<1>7. ProcessOK
  BY DEF Init, ProcessOK
<1> QED
  BY <1>1, <1>3, <1>5, <1>6, <1>7, ReadyFacts DEF Init, BInv, ViewOK

LEMMA StutterKeeps ==
    ASSUME BInv, UNCHANGED vars
    PROVE  BInv'
BY StillRespects, OtherStep DEF vars, BInv

LEMMA HandlesKeep ==
    ASSUME BInv, NEW t \in Tabs, Handles(t)
    PROVE  BInv'
BY BeginWorkKeeps, ReviseBeginsKeeps, ReviseEndsKeeps, ReviseLostKeeps, KeepKeeps,
   AcceptBeginsKeeps, AcceptEndsKeeps, ActedKeeps, RereadKeeps, RefusedKeeps,
   ReviewStatusKeeps, StatusShownKeeps, ResultCheckedKeeps DEF Handles

LEMMA NextOK ==
    ASSUME BInv, [Next]_vars
    PROVE  BInv'
<1>1. CASE \E p \in Pages : Load(p) \/ Polls(p)
  BY <1>1, PagesKeep
<1>2. CASE \E t \in Tabs :
          \/ \E op \in {"run", "answer"} : Submit(t, op)
          \/ \E op \in {"revise", "keep", "accept"}, at \in 1..MaxRev : Act(t, op, at)
          \/ AskStatus(t) \/ CheckResult(t) \/ Handles(t)
  BY <1>2, SubmitKeeps, ActKeeps, AskStatusKeeps, CheckResultKeeps, HandlesKeep
<1>3. CASE Works
  BY <1>3, WorkBeginsKeeps, WorkEndsKeeps, WorkShownKeeps DEF Works
<1>4. CASE Crash \/ Start
  BY <1>4, CrashKeeps, StartKeeps
<1>5. CASE \/ OtherRevises \/ OtherRevised \/ OtherKeeps
           \/ OtherRehydrates \/ OtherExecutes \/ OtherExecuted \/ OtherStops
  BY <1>5, OtherKeepsInv, OtherExecutesKeeps, OtherRehydratesKeeps, OtherStopsKeeps
<1>6. CASE UNCHANGED vars
  BY <1>6, StutterKeeps
<1> QED
  BY <1>1, <1>2, <1>3, <1>4, <1>5, <1>6 DEF Next

\* The browser claims a verified result only of a verified job, however late a
\* page read, a repeated acceptance or a worker's outcome is applied, and what it
\* shows has what it shows, of one run and one answer of each process.
THEOREM ResultsAreProved == Spec => []NothingUnproved
<1>1. BInv => NothingUnproved
  BY DEF BInv, ProcessOK, OtherOK, JobOK, WebOK, Webs, Workers, PageReads, Requests,
         NothingUnproved, TypeOK
<1> QED
  BY <1>1, InitOK, NextOK, PTL DEF Spec
===============================================================================
