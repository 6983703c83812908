# A verification project for Foldweave

Foldweave proposes a new organisation of a folder, lets its user revise and
accept one exact proposal, and then writes a verified copy; the source folder is
never touched. Everything a job knows is in one JSON record on disk, and every
surface (browser, native app, MCP servers, ChatGPT through a public gateway, the
command line) works on that record through one review service. This directory
holds TLA+ models of that machinery, the TLC runs that check them and the
theorems proved about them with TLAPS.

Source paths below are relative to `src/src/name_atlas` (Python) and
`src/gateway/src` (TypeScript).

## 1. The system and its parts

| Part | State it keeps | Operations | What is hard about it |
|---|---|---|---|
| Review-era job record, `folder_refactor/connected_change/job_v3.py` | one record: lifecycle, revision number, candidate plan, preview, revision turn, retry histories, authorization, destination reservation, result paths | build (validator), rehydrate, save, renew | the validator, the transition table and the history checks are three filters written apart; a reload may itself change the record |
| Review service, `.../review_service.py` | nothing of its own; one non-blocking lock per job file | prepare, clarify, revise, keep previous, accept, resume, recover, derivative children | the lock is not held while the provider is asked; several processes serve one job; each can die between two steps |
| Copy transaction, `folder_refactor/transaction.py`, `.../service.py`, `verification/promotion.py` | a hidden pending tree, the final result folder | stage, check, promote without replacing, verify | crash between two steps, inputs that change during the copy, strangers at the final path |
| Planner orchestrator, `folder_refactor/planner_orchestrator.py` | the exchange history inside the record | run, answer a clarification, resume | budgets over several provider calls, checkpoints between them, interrupted calls, several callers |
| Budget ledger, `decision_cards/budget.py` | calls made, cost committed and reported | reserve, report | crash between the two |
| Host service, `foldweave_host_service.py` | the transcript of a hosted model inside the record | create, evidence, question, answer, plan, begin and submit a revision, keep, accept, recover | calls of the model and of its card are lost, repeated and late |
| Jobs directory, `foldweave_host_service.py`, `.../review_service.py`, `.../derivative.py` | all job files of a state root, creation, parent and destination locks | create once per request, derive a child, reserve a destination, resume | decisions are made by reading every file; several requests race for one folder |
| Derivative proposals, `.../review_service.py`, `.../derivative.py` | the child's record with one reserved turn of a model, its provider-call lock | derive, ask and file the first turn, recover it, evidence and submission of a hosted model, one follow-up, keep previous, accept | the record is not locked while its first turn is under way; several surfaces, restarts and changed inputs meet it |
| Matcher, compiler, link rewriting, verification, `.../matcher.py`, `compiler.py`, `markdown_links.py`, ... | none (pure) | plan, revise, copy, prove, verify, match, apply, restore | name collisions, one-to-one assignment, links spelled for other paths |
| Earlier eras, `folder_job_service.py`, `job.py`, `.../job_service.py`, `job_v2.py`, `mcp_service.py` | a v1 or v2 record, the same directories, a server's background operations | plan, copy, recover, block, recreate the original | crash at each step, a browser, a CLI and a server on one job |
| Gateway relay, `device-session.ts` | a durable session record, pending calls in memory, companion sockets | relay, socket messages, revoke | reconnects, late answers, retries, sequence numbers on both sides |
| Companion, `foldweave_companion_client.py`, `foldweave_companion.py` | durable counters, a replay guard in memory | connect, answer the challenge, relay to the local MCP server, pairing control | crash and reconnect, two sequence domains |
| Pairing, `pairing-directory.ts`, `device-session.ts`, `gateway.ts` | one-time codes, attempt counters, sessions, OAuth grants | register, approve, authorize, observe access, revoke, clean up | every operation takes calls to several stores, and may die between two |
| Loopback application, `folder_app.py`, `foldweave_web_service.py` | what the browser shows of the one job, one worker, a submission gate | forms, status reads, review actions, result actions, start | awaits between a read and its use, other surfaces on the same job |
| Name Atlas workflow, `cases.py`, `workflow.py`, `staging.py`, `receipts.py`, `receiver_verifier.py`, `restore.py` | a Migration Case with decisions and cards, handoff directories | decide, ask for a card, stage, finalize, verify, restore | late cards and failures, a changed package, crashes between promotion and record |
| User interfaces (pages, native shell, settings) | session cookies, forms | | see section 5 |

Surfaces call the services; a service loads the record, asks the planner or runs
the copy transaction, and saves a successor. Between processes the only
communication is the record, the locks and the directories. The gateway talks to
the companion over one WebSocket; the companion is a caller of the host service
like any other.

`PROJECT.json` lists the parts with what is and is not modelled of each, and the
hazards with the line where each bites.

## 2. Modules

| Module | What it is |
|---|---|
| `JobV3` | the review-era record: its fields, the validator, what a reload makes of it, what may be saved over it. No variables. |
| `ReviewJob` | one job and its callers: every handler of the review service for planned and receiver jobs, the copy transaction, crashes, faults, changing inputs |
| `ExactAcceptance` | what a job promises its user, in four actions; `ReviewJob` implements it |
| `Planner` | the provider exchange of one job turn by turn, run by several callers over one record, in the v2 and the v3 service |
| `BudgetLedger` | the ledger every provider call pays from; extended by `Planner` |
| `Hosted` | one job planned and revised by a hosted model whose calls are lost, repeated and reordered |
| `JobsDirectory` | many jobs of several state roots: creation once per request, derivative children, one owner of a folder |
| `Derivative` | the children derived from one receiver's review: their first turn by a provider or a hosted model, the follow-up, recovery |
| `ProjectTree`, `Links`, `Matcher` | the pure part: names and result paths; links, their resolution and rewriting; descriptors and the matching of two copies by them |
| `ConnectedChange` | the way of one change from a plan to its result, its Change File and another copy, on those definitions |
| `LegacyJob` | one job of the two earlier eras, with browsers, the CLI and the STDIO server |
| `Relay` | the gateway's device session and the paired companion: public calls, the socket, pairing control, timeouts, reconnects, evictions |
| `Pairing` | registration, approval, authorization and revocation over the directory, the sessions and the grants |
| `CopyTransaction` | what `ReviewJob` takes as one step per phase: scans, copies, proof, promotion, verification and restoration of a folder, file by file, while other programs change it |
| `BrowserApp` | the loopback application's state over one job: forms, workers, page reads, review actions and starts, with another surface at work |
| `Atlas` | one case of the Name Atlas workflow, from its decisions to the receiver's restore |
| `MCReviewJob`, `MCCopy`, `MCPlanner`, `MCHostService`, `MCConnectedChange`, `MCLegacyJob`, `MCRelay`, `MCPairing`, `MCBrowserApp` | instances for TLC. Four of them check several models in one run, a behaviour being of one of them: `MCCopy` (`ReviewJob`, `CopyTransaction`), `MCPlanner` (`Planner`, `ReviewJob`), `MCHostService` (`JobsDirectory`, `Hosted`, `Derivative`), `MCLegacyJob` (`LegacyJob`, `Atlas`) |
| `ReviewProofs` (`ReviewJob`, `CopyTransaction`), `HostServiceProofs` (`JobsDirectory`, `Hosted`, `Derivative`), `ConnectedChangeProofs`, `PlannerProofs`, `LegacyProofs` (`LegacyJob`, `Atlas`), `RelayProofs`, `PairingProofs`, `BrowserAppProofs` | the theorems of section 4 with their inductive invariants and lemmas |

An operator that a comment calls a mutant is a plausible slip in the operator
after it. No action uses it; the property named with it in `PROJECT.json` fails
when it takes the operator's place.

### How `JobV3` corresponds to the record

Fields keep their names. A fingerprint is modelled by what it binds, so two are
equal exactly when the things they were computed from are: a preview is the plan,
the proposal number and the job revision it may be acted on. A candidate plan is
named by its origin: 0 is the first proposal, `n` the answer to revision attempt
`n`. The provider-failure, rejection and ledger histories have one entry for each
finished attempt and are carried by `revision_mutation_bindings`.
`CompleteAuthority` is the pydantic validator, `Rehydrates`/`Rehydrated` are
`rehydrate()` (which raises when the stale successor it builds is itself
invalid), `Saves`/`Saved` are `save()` (which raises, or saves the successor, or
saves a stale record instead).

### How `ReviewJob` corresponds to the service

A handler holds the job's lock from its first read to its last write, so it is one
action, except in two places. A revision reserves its turn under the lock
(`Revise`, `ReserveTurn`), lets go of it to ask the provider, and takes it again
to apply the answer (`ProviderAnswers`) to a record that must be the one it saved
before. And an execution writes directories others can see, so each of its
visible steps is an action: `BeginCopy`, `FinishStaging`, `FinalChecks`,
`Promote`, `RecordVerified`, and the failures between them. The lock is never
waited for: `AnswerLost` is the answer that meets a busy one. `Crash` drops what a
caller held in memory and its lock. `InputChanges` and `StrangerTakesFinal` are
the outside world. Requests may name any preview a surface has ever shown and any
key, so stale and repeated requests are among the behaviours.

### How `Planner` corresponds to the orchestrator

`job` is the record on disk, `mem` each caller's progress in memory, and a
`Checkpoint` writes the one over the other the way the service does it: the v2
writer holds the lock throughout and refuses a progress that rewrites history
(`Succeeds`), the v3 service takes the lock per checkpoint and looks only at the
lifecycle. Each durable step of `run()` is an action: reserve the turn, call, close
the turn with the answer or as failed, reserve an evidence call, record its
result, accept or reject a plan, ask the user. A response is what the orchestrator
tells apart: evidence calls, a plan, a question or a failure. `asked` counts how
often each turn really reached the provider and `spent` what calls really cost;
nothing in the code knows either. `Abandon` is a crash or a busy lock, at any
point.

### How `Hosted` corresponds to the host service

Each call runs under the job's writer lock and is one action; what varies is the
order and the number of calls. `shown` are the reviews any session has been shown
and `log` the calls that took effect; a session may send whatever it could have
formed from something it was shown, at any later time and any number of times.
A call is identified as in the code: evidence and plan calls by call identifiers,
mutations by idempotency keys, a submitted revision by the identifier that the
card derives from the record it reserved (`CallId`). `Recovered` is
`recover_hosted_revision`, asked with nothing but the review on display.

### How `JobsDirectory` corresponds to the services

A caller reads all files of a root, takes the creation lock, reads again and
writes (`LookUp`, `LookAgain`, `Create`); derives a child under its parent's lock
while the parent is still open for decision; accepts under the destination lock
after a scan of all reservations; and promotes without replacing. `folder` is what
lies at a result path, put there by a job or by anybody else. Roots share nothing
but folders.

### How `Derivative` corresponds to the service

`child` is the record of the child that each request made, `holder` its
provider-call lock, `work` what each agent remembers of the call it is in, and
`asked` how often each turn really reached the provider, which nothing in the code
counts. The record is saved under the writer lock, one action per save, but its
first turn is asked for under the provider-call lock alone: `AskFirst` and
`AnswerFirst` (`submit_direct_derivative_revision`, which holds that lock during the
whole call), `BeginSubmission` and `EndSubmission` (the hosted model's submission,
compiled against the record as it was read). The lock is waited for up to five
seconds and then the call raises, which `Quit` stands for, as it does for a crash.

A surface asks for the first turn only of a child it has itself just created
(`DeriveDirect`); one that finds it waiting closes it (`RecoverFirst`). `Admissible`
is what the validator asks of a derivative in each state; `SavedOver` is `save()`,
which raises on an inadmissible record and sets it stale if its inputs changed;
`Reloaded` is `rehydrate()`. An evidence call saves a new revision of the record
(`FindEvidence`); a renewed lease (`RenewLease`) moves no revision, but the record
is another one. A child has two attempts in all, and a failed first turn keeps its
parent's proposal on display and allows no follow-up. `usable` in
`SubmitHostFollowup` is the compiler's verdict.

### How the pure modules correspond to the code

A path is a sequence of names; names carry the attributes the rules look at (what
a case-insensitive comparison sees, the suffix, whether a name is hidden,
sensitive or unusable). A Markdown file is its text outside destinations and its
links in order. Hashes are the values they hash. `Matcher` follows the code's
preflight (unique digests), refinement (rounds of hashing each member with its
links' classes) and the refusal of what stays ambiguous. `ConnectedChange` runs
them in the order of the service: plan, revise, copy and prove, verify, match,
apply and restore, and its recomputations by the verifier use the result only.
A receiver is scanned and described (`Receive`) before the preflight looks at it
(`Preflight`); what both sides' descriptors say stays in `described`. `IsFolder` is
what a folder on a disk is whatever the program does: finitely many files, nothing
below a file, empty folders that are empty.

### How `LegacyJob` corresponds to the two earlier services

The v1 browser service and the v2 job service share the copy transaction, so they
share its actions; they differ in how they begin, recover and finalize, which are
actions of their own named for the version. Planning has an outcome (a question, a
plan, a blocker); its turns are `Planner`'s. A server's operations are a queue whose
first element runs (`_OperationRegistry`). `pending` and `final` tell apart the
states recovery can tell apart: no receipt yet, a receipt without its last
manifests, a finished tree; the job's own copy, an edited one, something else.
Recreating the original layout takes no lock and has its own counter per caller.

### How `Relay` corresponds to the gateway and the companion

`session` is the durable `DeviceSessionRecord` (its sequence numbers, the recent
relay correlations, revocation), `pending` the in-memory `PendingRelayRegistry`
with the sequence number each identifier was forwarded under, `socket` the
gateway's end of each connection, and `call` the handler of each public
invocation. `device` holds the companion's counters on disk, `companion` its
connection, the replay guard it keeps in memory and the relay it works on. `down`
and `up` are ordered per connection and lost with it; `control` is the pairing
control traffic over HTTP, which may be reordered and lost.

`Arrive` runs `relay()` up to the choice of the socket; `Forward` is the claim in a
storage transaction with what follows it, joining an awaited identical request or
sending. Between the two everything else may happen. `Authenticate`, `TakeAnswer`
and `RefuseMessage` are the branches of `webSocketMessage`, `SocketClosed` its
close handler, `Timeout` the timer of a pending call. `Connect` to `Lose` are the
companion's connection loop: a relay is accepted only with a fresh sequence
number, which is written to disk before the local server sees it. `Wait` and
`Expire` are the thirty minutes a correlation is kept, separate from the
twenty-five seconds of a call, so a call in flight can cross the end of its correlation but
not outlast a whole one.

Assumed: the session is registered, approved and authorized; the parties are
honest, so signatures, scopes, nonces and challenge texts are valid; clocks agree;
one companion process per machine (its runtime lock); fewer than the 256
correlations the record keeps; and the Durable Object runtime delivers no event
while a handler waits for storage or runs between two such waits, which is why a
transaction and its continuation are one action. An identifier is a digest of
method and body, as in `gateway.ts`, so one identifier may come with different
headers.

### How `Pairing` corresponds to the gateway

Every action is one transaction of one store (the directory, a session, the OAuth
provider's grants) with the code up to the next one, and each handler may stop
after any of them. Codes are named by the session they were issued for, `grants`
are tokens by session and authorization time, `missing` and `rate` are the
counters of failed and of all submissions (an attempt is its time, numbered, since
only how many there are in a window matters), and `alarm` the directory's clean-up.
A submission carries the time at which a worker took it and reaches the directory
at most `MaxDelay` later, so times come in out of order.

### How `CopyTransaction` corresponds to the copy

`phase` is the position in `transaction.py`'s sequence of scans, copies and
checks; a walk over all files takes one action per file (`next`), so that other
programs act between any two. A file has bytes and an identity (device, inode,
size and times); an open descriptor keeps seeing what its file held. A tree is a
function from paths to contents, a hash is the content it is the hash of, and
authorities say what they are computed from, so `Verified` recomputes each one as
the verifiers do. `kind` is the receipt's version and role; the transaction is
the same, the finalizers and verifiers are not. `Alter...`, `WriteSource`,
`ReplaceSource`, `RenameSource` and `Occupy...` are the other programs.

### How `BrowserApp` corresponds to the application

Handlers run on one event loop, so what happens between two awaits is one action
and the service call in its thread lies between (`Act`, then `ReviseBegins`,
`ReviseEnds`, then `Acted`, or `Reread` and `Refused`). `web` is
`_FolderWebState`, `gate` the submission gate, `worker` the one background task,
`tab` a request. A page that is opened (`Load`) and a working page that polls
(`Poll`) read the record in `_refresh_terminal_checkpoint` (`Read`, `Show`) or are
answered from the state; the script of `working.html` polls again only while the
answer is planning or executing (`Answered`), and every other page reads once. The
job is what a surface can tell of its record; a look at its inputs may make it
stale (`Looked`), `Rehydrated` and `Projected` are what `rehydrate_web_checkpoint`
makes of it and of that its caller gets. A call may raise wherever the service or the
adapter can, also after it changed the record. The `Other...` actions are the CLI, a
second window or a hosted model on the same job.

### How `Atlas` corresponds to the workflow

`dec` and `cards` are the case's decisions and decision cards, `Valid` the
validator of `MigrationCase`, `Save` the commit that rolls back what it refuses.
The session holds the case for life and reloads it in each handler, so a handler
is one action, except that a question to the model (`Ask`, `Answer`) lets other
handlers in and staging (`BeginStage` to `FinalizeCase`) may die between its steps. A
card is named by the order in which it was generated. The receiver's half
(`Receive` to `DropRestore`) is `verify_receipt` and `restore_receipt`.

## 3. Runs

| Run | Question | Result |
|---|---|---|
| `review_job_safety` | do record, directories and provider calls stay consistent, and does the job keep its promise (`ReviewJob`)? Is what is promoted the accepted copy, are alterations found, is what is restored the source (`CopyTransaction`)? | holds, about 300,000 distinct states |
| `job_progress` | is a turn asked once under the v2 lock, is spent budget always committed, is an ended planning left alone, do callers return (`Planner`)? Is every accepted execution and reserved revision brought to an end (`ReviewJob`)? | holds, 82,064 |
| `stale_from_revising` | may any nonterminal job go stale when its inputs change (build specification, transition table)? | violated |
| `restart_recovers_execution` | does a restart recover an execution (CASE-016)? | violated |
| `host_service` | has each call its effect once and does a revision turn keep its review (`Hosted`)? One job per key, children of open reviews only, one owner of a folder (`JobsDirectory`)? Is a child's turn asked for once and what comes back filed with its record (`Derivative`)? | holds, 357,206 |
| `connected_change` | is a match the one there is, and can what was accepted be written, verified, applied and restored? | holds, 38,298 |
| `legacy_jobs` | does a crash alone never cost an accepted job, a finished copy or a folder of the user's, and does an accepted plan end (`LegacyJob`)? Is what is handed over what was decided, by its cards (`Atlas`)? | holds, 496,248 |
| `browser_app` | is a verified result shown only of a verified job, and does a page that polls bring an end to be shown? | holds, 987,644 |
| `question_not_shown` | is the question a worker comes back with never taken for its failure? | violated |
| `pairing` | one grant per approved code, bounded attempts, no relay for a session that is not paired? | holds, 958,130 |
| `relay` | do answers reach the calls they belong to, is one relay shared by identical calls, are honest messages never taken for replays, and does every call return? | holds, 323,759 |
| `late_answer_after_expiry` | is a late answer always discarded harmlessly, as the comment in `webSocketMessage` says? | violated |

Type invariants are checked in the same runs: where a run's list does not name
one, the module's first invariant contains it.

Bounds of `ReviewJob`. Two callers are enough for every race over one lock and one
record: a third could only repeat what one of the two does while the other is in a
handler. Two keys and one text tell a retry from a new request; two revisions is
the limit in the code, so the limit itself is reached. Two crashes allow a crash
of the recovery of a crash; one fault and two changed inputs let an input be
changed and put back, or changed while a stranger takes the final path. In `job_progress`, which looks for
liveness, it has one key, one revision and one crash. Callers and keys are
interchangeable, and the safety runs use that symmetry; `job_progress` does not.
Finished jobs stop, so deadlock is not checked.

Bounds of `CopyTransaction`. One note whose links change, another file, an empty
folder, and one role of each receipt version: every kind of path a tree can have.
Two changes from outside, of which one may keep a file's identity and one may
alter a tree: a change and its undoing, or a change and an alteration; more of
them can only do again what a later check would have to find anyway. That one
change at most keeps a file's identity is a premise too, and a theorem names it:
with two of them, on a clock that does not move, a file can change after the first
scan and back before the second reads it, and when the second began (`moment`) the
source was another (TLC finds this with `MaxSilent = 2`).

Bounds of `Planner`. Two callers, two turns of at most two evidence calls with room
for one, one submission: every limit is reached, and passed in the attempt. Three
calls but cost for two exhaust the ledger by cost, and by count when calls cost
less than they reserve. The source may be edited and restored at any time.

Bounds of `MCHostService`. Three keys are the two revisions of the limit and one
too many; two call identifiers and two submissions reach the last refusal; two
texts tell a turn's own instruction from another's. In the directory, three jobs of
one root and one of another want one folder, two callers and one key: a child, its
parent and a rival fit, and so does a stranger's root. Jobs, callers and texts are
interchangeable; an exchange uses the names of jobs and callers for its keys and
calls, so that one symmetry serves all views. Of derivatives, one is for a provider
and one for a hosted model, with two agents (one asks while the other recovers,
saves or submits too), two submissions (one for each turn, or one sent twice), two
evidence calls and one renewal of the lease: every write that can come between
reading a record and filing an answer with it.

Bounds of `ConnectedChange`. The planning family is one folder with every kind of
file the rules know and all maps over six prefixes and six names, among them case
variants, unusable, hidden and sensitive names and a file's name as a folder; two
names that differ only in case; four folders the scan refuses. The matching family
is every folder of three notes with at most one link each, two of equal text, and
four rings of four notes that refinement alone cannot tell apart; receivers are all
their renamed copies and all single edits of them. Larger folders repeat these
patterns: refinement looks at one link at a time.

Bounds of `LegacyJob`. Two browsers and one server; a queue of two operations, so
one can wait for the one before it; two crashes (one of a recovery), one failure
and two acts of the user.

Bounds of `Atlas`. Two families, so that names can collide, one of them with a
Meaning risk; two descriptors, two questions under way and two paid calls, so
that a question can be asked twice and the budget run out; one crash, one failure
and one change, each at any point.

Bounds of `BrowserApp`. Two tabs (one acts while the other repeats or overtakes),
one page that is kept open, one other surface, three revisions of the record: a review, its
revision and what comes of it. The second tab begins only while the first is
busy, which loses nothing since tabs are interchangeable.

Bounds of `Pairing`. One device registers twice, two browsers submit, one call is
made; windows and lifetimes of one to three ticks that cross each other in every
order. The constraint cuts the product into slices that need not meet: rate
limiting without a session, one session under three ticks with two admitted
submissions, and two sessions under a shorter clock. The clock and the number of
posts are bounded, so deadlock is not checked.

Bounds of `Relay`. Three calls give a call that sends, one that joins or retries
it and one that conflicts with both; two headers tell a conflict from a retry; two
connections give a reconnect with an answer or a relay of the old connection
still under way; one control request is enough for the two sequence domains to
cross; one expiry drops a correlation, which needs a claim of another identifier.
`MCRelay` cuts the product: the environment (arrivals, connections, controls,
expiries) takes five steps at most, one identifier with two headers travels over
two connections and two identifiers over one. It restrains the environment only,
never a step that is fair, and the expiry run goes without it.

Fairness of `ReviewJob`. A handler that was entered runs on, since it never waits
for the lock and the provider answers or fails within its deadline. A started
application reloads the job it finds and closes an interrupted revision or resumes
an execution (`foldweave_web_service.py:144-203`); crashes are bounded, so after the last one an application does start. Users are not assumed to do anything.
`JobSettles` states the ends: of an execution, of a revision, and of a caller in the
planner.

Fairness of `Planner`. A caller in `run()` goes on: its provider call ends by an
answer or the client's timeout. Nobody is assumed to resume.

Fairness of `LegacyJob`. A process that runs goes on, and the user comes back: the
browser looks at the job when it starts (`folder_app.py:636-690`) and resumes what
can be resumed, and the CLI is the user's second way. The server is not assumed to
schedule anything.

Fairness of `BrowserApp`. The worker's thread ends (provider calls time out), a read
that was begun is applied, and a working page goes on polling while its script does
(`working.html:106-131`; a failed request is caught there and polled again). `Polls`
is enabled in no other page: a page of a review, a question or a result reads once,
and nobody need open one (`Load`). Requests and the other surface are free to do
nothing. So `EndIsShown` speaks of a page that polls, or reads, when the job has ended
and no worker owns the browser; a job that another surface ends while only a review
is open need never be shown as ended, and no property says otherwise. Pages are kept
open, and one found again after a restart counts as opened anew.

Fairness of `Relay`. A handler whose claim was made runs on and a timer that was
set fires. Nothing is assumed of the companion, of the network or of who calls.

### What the violated runs show

`stale_from_revising`: `rehydrate()` keeps the pending turn or the revision
failure in the stale record it builds, and the validator refuses such a record.
A job whose source changes during or after a failed revision raises on every
reload and never becomes `stale`, though the transition table has that edge.

`restart_recovers_execution`: a crash between the creation of the pending tree
and the promotion leaves the tree; the restarted execution refuses to start over
it, and the job is recorded as `blocked`.

`late_answer_after_expiry`: a request repeated shortly before its correlation
expires is forwarded under a new sequence number but keeps the old correlation.
When that correlation is dropped by another claim while the answer is still on
its way and nobody waits for it any more, the answer counts as unexpected and the
gateway closes a healthy connection.

`question_not_shown`: a fresh job whose planner asks its one question is handed to
`_review_or_terminal`, which knows reviews and results only; the browser shows a
blocker, and the question appears after the application was started again.

These are consequences of the code as it is, and the other properties are stated
and hold with them included: `JobSettles` names the exceptions the first two
cause, and `OwnAnswer` speaks of the time before a correlation expires where it
says that no late answer closes a connection.

### What else the models show

These are behaviours of the code that are in the models and that the properties,
as stated, allow for.

- `Planner`: a crash between the checkpoint of the last rejected plan and the one
  that blocks the job (`planner_orchestrator.py:383`) leaves a planning record with
  all submissions used. Resuming asks another turn; the next plan is one too many
  for the progress model (`planner_contracts.py:375`), and the job can neither go
  on nor end (`PlanTooMany`).
- `Planner`, v3: two callers that resume one planning put the same turn to the
  provider twice and overwrite each other's progress, the sole answer included;
  `AskedOnce` therefore speaks of v2 and `PlanningEndsOnce` of ended plannings.
- `Hosted`: a sparse revision is bound to the base candidate only; that it answers
  its own turn rests on the card naming its call after the record it reserved
  (`foldweave_host_service.py:1949`).
- `LegacyJob`: a v1 crash after the receipt and before the last manifests leaves a
  tree that `resume_existing_job` refuses for ever and that the browser's start
  blocks (the exception of `CrashNeverBlocks`). v1, and v2 through the browser's
  start, may end `stale` with the result already promoted. v1 finalizes a result
  it promoted earlier without looking at it again. A server whose provider cannot
  be made blocks the job even if another process has meanwhile advanced it.
- `Pairing`: a new registration revokes the grants there are, but an approved code
  of the older session, or an authorization under way, can still make one for it
  afterwards. A revocation that dies after the session was revoked cannot be
  repeated (the request is then refused as unauthenticated) and leaves the grants
  in place; `RelayedWhilePaired` shows that they open nothing.
- `ConnectedChange`: a target may take a name that the scan protects as sensitive;
  if that file has links, the result is refused as a source later. A source with
  two names that differ only in case cannot be restored on a disk that ignores
  case.
- `CopyTransaction`: an explicit empty folder that is renamed in the pending
  directory between the check of the staged payloads (`transaction.py:1126`) and
  the finalizer's scan goes unnoticed, since folders are counted
  (`receipt.py:798-811`). The verifiers of versions 2 and 3 miss additional entries
  at the bag's root, empty folders beside the proof and a missing tag manifest,
  which version 1's `_require_result_tree_shape` finds. A restored copy that is
  edited after its own scan is promoted as it is.
- `BrowserApp`: a record in revision is projected as a blocker to a polling page
  (`foldweave_web_service.py:561`); the status of a review ignores a verified
  checkpoint (`folder_app.py:1169-1197`), so an open review is not told of a result
  that another surface made; a repeated keep-proposal shows a review of a job that
  ended since (`foldweave_web_service.py:380`); reading a review's status closes the
  revision another surface has under way; an acceptance that meets a busy lock blocks
  the browser while another surface executes.
- `Atlas`: a late card turns a refused decision into a pending one and a late
  failure into an unresolved one; after a family with a Meaning risk was edited, no
  new card for it can be kept, so it can no longer be decided otherwise; after an
  approval the answer to a second question replaces the card, and the approval then
  names one that nobody saw; a live call whose answer is dropped is paid again.
- `Derivative`: a hosted submission is dropped without a word, and its turn stays
  open, if an evidence call or a renewal of the lease saved the record while it was
  compiled (`review_service.py:2495`). A direct follow-up that meets a provider
  failure cannot be closed: `job_v3.py:1396` leaves the provider failures out of
  the count that lines 1223-1226 include them in, so `_persist_revision_provider_failure`
  raises and the child stays in revision. A child whose first turn failed cannot go
  stale, and a waiting one cannot be blocked, since the validator has no such
  record. A start that meets a child waiting for its first turn calls the recovery
  of ordinary revisions, which raises (`foldweave_web_service.py:397-398`).
- Read, without a model: a status poll that overtakes an approval makes the
  approval look replayed (`foldweave_companion_client.py:414`); a process that dies
  between saving a matching job and its review leaves a job that repeated requests
  return as it is (`foldweave_host_service.py:641-651`), and the browser's restart
  asks for it under a key the service refuses (`review_service.py:1899`).

## 4. Theorems

Each holds for every value of the module's constants: any sets of callers, keys,
texts, jobs, connections and requests, any bounds. The property is the definition
that a run checks on a small instance.

| Module | Theorem | Property | In words |
|---|---|---|---|
| `ReviewJob` | `TypeCorrect` | `TypeOK` | types, and the record on disk always passes the validator |
| | `Exclusive` | `ExecutionIsExclusive` | never two callers in the copy transaction |
| | `AuthorizedResult`, `AcceptedOutput`, `VerifiedResult` | `ResultIsAuthorized`, `OutputNeedsAcceptance`, `VerifiedHasItsResult` | what is promoted was accepted, and a verified record has it |
| | `CopyAgrees` | none: `CopyInProgress` is only proved | record, directories and handlers agree on how far a copy got |
| | `TerminalStays` | `TerminalIsFinal` | a finished record is never written again |
| | `Promised` | `KeepsPromise` | `ReviewJob` implements `ExactAcceptance` |
| | `TurnsPaidOnce` | `RevisionTurns` | a revision turn is asked for once, and every attempt is accounted for |
| `Planner` | `TurnsAskedOnce` | `AskedOnce` | under the v2 writer no response turn is asked for twice |
| | `SpendIsCovered` | `SpendCovered` | what calls cost is within what was committed, and that within the limits |
| | `PlanningEndsForGood` | `PlanningEndsOnce` | an ended planning is never written again |
| `JobsDirectory` | `KeysHaveOneJob` | `OneJobPerKey` | one job per request in a root |
| | `FoldersHaveOneJob` | `FolderIsOneJobs` | a folder belongs to one job of its root at most |
| | `ChildrenHaveOpenParents` | `ChildOfOpenReview` | a child is created only of an open review |
| `Hosted` | `CallsTakeEffectOnce` | `EffectOnce` | a repeated or late call takes effect once at most |
| | `TranscriptStaysReadable` | `TranscriptIsReadable` | what a call leaves is what the record's validators read |
| | `TurnsKeepTheirReview` | `TurnKeepsItsReview` | a turn stays bound to the review it was formed from |
| `Derivative` | `TurnsAskedForOnce` | `NoTurnAskedTwice` | no turn of a child is asked for twice |
| | `AnswersStayWithTheirRecord` | `AnswersAreKept` | an answer is filed with the record and the evidence it was made for |
| `LegacyJob` | `CrashesAreSurvived` | `CrashNeverBlocks` | crashes alone never block an accepted job; the writer lock excludes |
| | `CopiesAreKept` | `FinishedCopyIsKept` | a finished copy is promoted or left, and what the user may own is never replaced |
| `Atlas` | `HandoffsAreAuthorized` | `HandoffIsAuthorized` | what is handed over was decided by a human, by the cards it names |
| | `DecisionsLast` | `DecisionsStand` | only a human's act changes a decision to export |
| | `RestoresAreOriginal` | `RestoredIsOriginal` | what is restored is the original |
| `CopyTransaction` | `ResultsAreAccepted` | `ResultIsAccepted` | what is promoted, or left behind proved, is the accepted copy of the source at one moment |
| | `AlterationsFound` | `AlterationsAreFound` | no result verifies in which something is altered that its proof covers |
| | `RestoresAreSource` | `RestoredIsSource` | what is restored is the source as it was scanned, and takes nothing's place |
| `Relay` | `AnswersAreOwn` | `OwnAnswer` | a call gets the answer to its own request; no late answer costs a connection |
| | `RelaysAreShared` | `SharedRelay` | identical calls share one relay |
| | `MessagesKeepOrder` | `MessagesInOrder` | no honest message counts as a replay |
| `Pairing` | `OneGrantPerApproval` | `GrantPerApproval` | an approved code makes one grant at most |
| | `RelaysAreAuthorized` | `RelayedWhilePaired` | only a paired session is relayed for |
| | `AttemptsAreBounded` | `AttemptsBounded` | no more attempts pass in a window, less the disorder of their arrival, than the limit |
| `ConnectedChange` | `MatchesAreExact` | `MatchIsExact` | a match is the same project, in the only way it can be; nothing that could be matched is told to have changed |
| | `AcceptancesAreKept` | `AcceptanceIsKept` | what was accepted is written, verified, applied and restored; links lead where they led |
| | `RelativePathsLead` | | the canonical destination between any two files leads to the target |
| | `PlansAreDerivable` | | deriving the rewritten links refuses no valid plan of a folder that can be read |
| `BrowserApp` | `ResultsAreProved` | `NothingUnproved` | a verified result is shown only of a verified job |

The arguments, each along an invariant that TLC checked before it was proved:

- `ReviewJob`. `TypeInv` is the type invariant together with the validator's
  verdict on the record, the relation between program counters and the lock, and
  the types of what a caller remembers while it is in a handler: a save is well
  typed only because its caller is where it is. Exclusion follows, since whoever is
  in the transaction holds the lock. `ResultIsAuthorized` is not inductive: a
  promotion makes the pending tree the result, so the tree must belong to the
  reserved destination (`OutputNeedsAcceptance`), the caller at `promoting` must
  still have it and nobody else may have taken it away (`CopyInProgress`, with
  exclusion); and the record must still be the authorized one, which follows from
  the validator and from `save()` keeping the reservation. `SafeInv` is their
  conjunction. The refinement maps the offer to the preview, the choice to the
  reservation (which outlives the authorization in a stale record), the delivery
  to the plan in the final folder, and closing to a terminal lifecycle; each action
  is one abstract step or a stutter, and `SafeInv` supplies that what is delivered
  is what was chosen.
- `RevisionTurns` (`TurnInv`) relates the callers to the history: who holds the
  lock for a new turn has a key no turn is bound to (`ReservingIsNew`), the turn
  that waits is the last attempt and one that ended is filed (`TurnIsLast`), and
  every key that was paid for is bound, with no more of them than turns
  (`SpendIsFiled`). A stale record has given up its pending turn, so the last of
  these is about the others.
- `Planner`. Every progress, on disk or in memory, passes its validator, and where
  a caller stands says what its progress is like (`Control`). Under v2 the one
  caller that runs holds the lock and has the progress on disk (`Alone`); no turn
  above the count of turns was asked for, nor the one about to be (`Once`). What
  calls cost, with those under way at their full reservation, is committed
  (`Covered`).
- `JobsDirectory`. A decision is made on files read earlier, so the invariant says
  which lock a caller holds at each step and what it found under it that is still
  so: the key is free, the parent open, the folder without an owner (`CallersOK`).
  `Respects` is what a step of one caller leaves to all the others, and is proved of
  every action once.
- `Hosted`. `LogOK` ties the history of calls that took effect to what the record
  remembers of each, so that a repeated call is recognized by the record alone.
  `TurnsOK` adds that a settled turn's review is older than the one on display, and
  that while a turn waits nothing else writes the record.
- `Derivative`. `DInv`: a child's follow-ups asked for are fewer than its attempts
  (`ChildOK`); of the agents told that they made a child there is one, and nobody
  has asked yet (`MakerOK`); whoever asks or submits holds the call lock and began
  with a record that waits for its first answer, and the record of one who asks is
  still that, or stale (`CallerOK`).
- `LegacyJob`. `LInv` says of the lock's holder what the record and the two trees
  are at each of its steps (`Phase`, `HolderOK`), and of the rest how the record and
  the trees agree when nobody is at work (`RecordOK`). While the user has changed
  nothing, a process that dies leaves one of a few disks (`Untouched`), and
  `Classified` finds each of them recoverable but the one of version 1 with its
  receipt and without the last manifests (`BlockedOK`).
- `Atlas`. A decision to export names the card it was made by and the count of
  cards at that moment; a card that comes later has a higher number, so the two
  differ for good and the ledger that opens staging refuses the decision
  (`CardsOK`). While the case is staged nothing else writes it (`StagingOK`), so the
  ledger still holds when the directory is promoted. That every question is within
  the reservation needs the calls under way counted in (`Counted`). An edited bag
  never becomes whole again (`RestoreOK`), so a bag that is whole at the last check
  was whole when it was copied.
- `CopyTransaction`. Until the proof is complete, what the pending directory holds
  was written by the transaction or edited by others (`Written`), so a receipt that
  verifies is of the accepted copy. Afterwards, whatever others make of a finished
  tree keeps the receipt or an edited one, and a tag manifest, if it is not edited,
  that lists every proof file left as it was (`Derived`); a `Derived` tree that
  verifies therefore agrees with what was proved. That the proof is of the source
  at one moment rests on identities: a file whose identity is the scanned one has
  the scanned bytes, or was written silently (`ScanOK`, `MomentOK`), so that no
  file differs from the first scan and from the second one alike; and what the
  last look passed has not changed since, or did so later (`LookOK`).
- `Relay`. Messages travel in rising order, and whatever the companion may still
  receive, or the gateway from its present connection, is newer than what either
  has taken (`DownOrdered`, `UpOrdered`). An awaited identifier has one request and
  no newer relay (`Awaited`). Before the first expiry an identifier stands for one
  remembered request (`Correlated`), which is why `OwnAnswer` is about that time.
- `Pairing`. A code is a token: it is with the device that publishes it, in the
  directory, with the browser that consumed it, or spent on its grant, and never at
  two of these places (`TokenOK`). For the attempts (`RateInv`), the record holds
  every admitted one that is remembered, with an expiry a window after it but for the
  delay (`RecordOK`), and what is forgotten, by a later attempt or by the alarm, is a
  window old but for the delay (`Forgotten`). Of the attempts in a stretch the last to
  be admitted therefore still found all the others in the record (`Bounded`).
- `ConnectedChange`, matching. `Phase` says of each step what has been chosen,
  planned, produced, received and coloured. A `Coloring` undoes no distinction of the
  rounds before it, has the same tally on both sides, and is respected by every
  pairing under which the two projects are the same. The initial classes are one, and
  a round makes another of it: along such a pairing, signatures agree
  (`TwinSignatures`), so if the tallies differ there is none, and the receiver did
  change. A round that changes no class ends the refinement; each other one has added
  a class, of which there are at most as many as roles (`RoundsSpent`), so the bound
  on rounds is never what ends it. Classes of one role and one file that a round
  leaves alone are a pairing under which links agree as well (`StableIsSame`), and
  every pairing that respects them is that one (`MappingPairs`).
- `ConnectedChange`, acceptance (`Kept`). Accepted targets, and the folders they
  need, differ from each other under `Fold`, so neither disk takes one for another
  (`PlansAreWritable`). A file that is not rewritten reads as it did, so originals and
  the rest of the result give the source back and the rows, links and payloads follow
  from it (`PackageRecovers`, `PackageVerifies`). A matched receiver's plan sends each
  file where its role went (`PlacedFollows`); along the pairing both plans are valid
  and links are spelled alike, and so the trees are equal (`FollowersLand`).
- `Links`. From a file one goes up to the last folder the two paths share and down
  again; `Resolved` walks exactly these folders (`PathsLead`), so the canonical
  destination leads to its target (`RelativePathsLead`). A file that has links and can
  be read is not protected, so `Derivable` adds no refusal to `ValidPlan`
  (`PlansAreDerivable`): that check of the code is a safeguard, which no plan meets.
- `BrowserApp`. What a page, a request or the worker has read may be applied when
  the job is long elsewhere, so the invariant is about every view still held, not
  only about what is shown: a view of a result is of a job that is verified now
  (`ViewOK`). A repeated request may return a record of any lifecycle, so what it
  returns need only name a revision (`TabOK`). That needs the job to be verified once and for all: whoever copies
  has the lock and finds the job executing (`TabOK`, `OtherOK`), and each step
  leaves the others what they rely on (`Respects`).

Assumptions: those the modules state, which TLC evaluates on every run. `None`,
`Nil`, `Nobody` or `Nothing` is no element of the sets it is set apart from, there is a caller
of a job, those of a planning are finitely many, bounds are numbers, and the locks
of a root are not jobs; a migration package has a family; what is selected or
received is a folder as it can be on a disk, and what is proposed for a file is a
path (`FoldersAssumption`). `HostedAssumption` is a
hypothesis of the theorems about `Hosted`, `AtlasAssumption` of those about
`Atlas`, and `CopyAssumption` of two about `CopyTransaction` (a walk lists each file
once, empty folders are finitely many); `MCHostService`, `MCLegacyJob` and `MCCopy`
assume them. `ResultsAreAccepted` also assumes `MaxSilent <= 1` (see the bounds in
section 3); it bounds neither the other changes nor the alterations of a tree.

Only model-checked:

- liveness and whatever has ENABLED (`JobSettles`, `ExecutionEnds`, `EndIsShown`,
  `CallsReturn`), which the prover does not do.

Every other property of a passing run is a theorem. The recursive `Resolved` of `Links`
is a walk from folder to folder; that there is only one walk is shown by its least
place of disagreement (`WalksAgree`), so no induction theorem is needed.

## 5. Not modelled

- File contents, hashing, receipts' wording and BagIt (modelled by their
  verdicts); torn writes (an atomic replace is one step); limits on sizes; Markdown
  syntax itself, percent-encoding and normalisation (links, spellings and folded
  names stand for them).
- The match report and the preview are not recomputed by the model's verifier.
- Of the copy: the race between checking the pending path and creating it, the
  optional comparison of a restored copy with a source the user names, free disk
  space, and the adoption of a completed run.
- Decision capabilities beyond a derivative's lease, the host service's selections
  of local folders, views of a job, the delta of a derivative proposal.
- v1's stepwise check of planner progress, and v1 records as historical evidence.
- Companion process supervision, native settings and the local pairing page;
  signatures, scopes, CSRF, rendering and tool schemas of the gateway and servers.
- Of the Name Atlas workflow: sessions without a case, the adoption of a revision
  conflict, the pages' view model, the rules of the package import.
- User interfaces: what they call when they start is in `ReviewJob` and
  `LegacyJob`.

## 6. Plan

1. The companion's supervision, and the host service's selections of local folders.
2. The delta of a derivative, and the decision capability of `ReviewJob`.
