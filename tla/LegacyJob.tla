------------------------------- MODULE LegacyJob -------------------------------
(***************************************************************************)
(* One job of the two earlier eras, from its creation to its verified copy. *)
(*                                                                         *)
(* A v1 job (folder_refactor/job.py) belongs to JobBackedFolderRunService  *)
(* (folder_job_service.py): the browser and the CLI.  A v2 job             *)
(* (connected_change/job_v2.py) belongs to ConnectedChangeJobService       *)
(* (job_service.py) and its planning service: the browser, the CLI and the *)
(* STDIO server (mcp_service.py), which works in background operations.    *)
(* Both hold the record's writer lock for all of a call, except that v2    *)
(* lets go of it between planning and execution.  An accepted plan is      *)
(* executed at once; nobody reviews it.                                    *)
(*                                                                         *)
(* The planning exchange itself is Planner's; here it has an outcome.      *)
(***************************************************************************)
EXTENDS Naturals, Sequences, SequencesExt

CONSTANTS Callers,      \* processes that work on the job
          Servers,      \* those that are STDIO servers
          None,
          MaxOperations,   \* bound on a server's queue
          MaxCrashes, MaxFailures, MaxChanges   \* bounds on the environment

ASSUME LegacyAssumption ==
    /\ Servers \subseteq Callers /\ None \notin Callers
    /\ {MaxOperations, MaxCrashes, MaxFailures, MaxChanges} \subseteq Nat

VARIABLES era,        \* "v1" or "v2"
          authority,  \* "planned", or in v2 "capsule": a Change File to apply
          job,        \* the durable record
          lock,       \* who holds its writer lock
          pc,         \* what each caller does
          ops,        \* a server's background operations, the first one running
          pending,    \* the job's hidden tree
          final,      \* what is at the result path
          restored,   \* what is where the original layout is to be recreated
          rc,         \* what each caller does about that
          changed,    \* the source or the Change File is not as the job knows it
          crashes, failures, changes

disk == <<pending, final>>
recreation == <<restored, rc>>
bounds == <<crashes, failures, changes>>
vars == <<era, authority, job, lock, pc, ops, disk, recreation, changed, bounds>>

Lives == {"planning", "awaiting", "executing", "verified", "stale", "blocked"}
Ended == {"verified", "stale", "blocked"}
\* `paths`: pending_result_path and final_result_path are recorded.
Record == [life : Lives, accepted : BOOLEAN, answered : BOOLEAN, paths : BOOLEAN]

\* A tree without a receipt, one whose receipt is written but not its last
\* manifests, and a finished one, which verifies.
Trees == {"absent", "partial", "receipt", "whole"}

\* At a place of the user's: the job's own copy, one the user edited since, or
\* something else.
Places == {"absent", "own", "edited", "stranger"}

\* Steps under the writer lock; the first ones are the copy transaction's.
Copying == {"copying", "staged", "sealing", "sealed", "scanned"}
Locked == Copying \cup {"planning", "begun", "recovering", "repromoting", "promoted", "failed"}
\* "started" is to take the lock again; "reporting" is a server whose operation
\* raised.
Steps == Locked \cup {"idle", "started", "reporting"}

Free == lock = None
Start(c, step) == lock' = c /\ pc' = [pc EXCEPT ![c] = step]
Go(c, step) == pc' = [pc EXCEPT ![c] = step] /\ UNCHANGED lock
\* The call is over; a server turns to its next operation.
Leave(c) ==
    /\ pc' = [pc EXCEPT ![c] = "idle"]
    /\ lock' = IF lock = c THEN None ELSE lock
    /\ ops' = IF c \in Servers /\ ops[c] # <<>> THEN [ops EXCEPT ![c] = Tail(@)] ELSE ops

Ends(life) == job' = [job EXCEPT !.life = life]
Keep == UNCHANGED <<era, authority, recreation, changed, bounds>>
-----------------------------------------------------------------------------
(* The durable record *)

\* rehydrate: changed inputs end the job.
Stale(c) == changed /\ Ends("stale") /\ Leave(c)

\* v2's mark_blocked saves, and a save rescans first; v1 records the blocker.
Block(c) == Ends(IF era = "v2" /\ changed THEN "stale" ELSE "blocked") /\ Leave(c)

\* An exception nobody turns into a record; a server's operation reports it.
Raise(c) ==
    /\ UNCHANGED job
    /\ IF c \in Servers
         THEN /\ pc' = [pc EXCEPT ![c] = "reporting"]
              /\ lock' = IF lock = c THEN None ELSE lock
              /\ UNCHANGED ops
         ELSE Leave(c)

Init ==
    /\ era \in {"v1", "v2"}
    /\ authority \in (IF era = "v1" THEN {"planned"} ELSE {"planned", "capsule"})
    /\ job = [life |-> "planning", accepted |-> FALSE, answered |-> FALSE, paths |-> FALSE]
    /\ lock = None
    /\ pc = [c \in Callers |-> "idle"]
    /\ ops = [s \in Servers |-> <<>>]
    /\ pending = "absent" /\ final = "absent" /\ changed = FALSE
    /\ restored = "absent" /\ rc = [c \in Callers |-> "idle"]
    /\ crashes = 0 /\ failures = 0 /\ changes = 0
-----------------------------------------------------------------------------
(* Planning, as far as the record shows it *)

\* _continue_job (v1), _continue_planner (v2): rehydrate, then plan or answer
\* under the lock.
Replan(c, life) ==
    /\ Free /\ job.life = life /\ authority = "planned"
    /\ \/ Stale(c)
       \/ /\ ~changed /\ Start(c, "planning") /\ UNCHANGED ops
          /\ job' = [job EXCEPT !.life = "planning", !.answered = @ \/ life = "awaiting"]
    /\ UNCHANGED disk /\ Keep

\* The planner asks its one question, gives up, or has a plan, which is at once
\* authority to execute: v1 goes on under its lock, v2 starts anew.
Asks(c) == ~job.answered /\ Ends("awaiting") /\ Leave(c)
Accepts(c) ==
    /\ job' = [job EXCEPT !.life = "executing", !.accepted = TRUE]
    /\ IF era = "v1" THEN Go(c, "begun") ELSE lock' = None /\ pc' = [pc EXCEPT ![c] = "started"]
    /\ UNCHANGED ops
Plan(c) ==
    /\ pc[c] = "planning"
    /\ \/ Stale(c)
       \/ ~changed /\ (Asks(c) \/ Accepts(c) \/ (Ends("blocked") /\ Leave(c)))
    /\ UNCHANGED disk /\ Keep
-----------------------------------------------------------------------------
(* Version 1 *)

\* Mutant: only a tree with a receipt is known as the job's own.
ClassifiedByReceipt ==
    CASE disk = <<"absent", "absent">> -> "ready"
      [] job.paths /\ pending = "whole" /\ final = "absent" -> "finished"
      [] job.paths /\ pending = "absent" /\ final = "own" -> "promoted"
      [] OTHER -> "ambiguous"

\* classify_job_recovery_state, with the verification of what it finds.
Classified ==
    CASE disk = <<"absent", "absent">> -> "ready"
      [] job.paths /\ pending = "partial" /\ final = "absent" -> "incomplete"
      [] job.paths /\ pending = "whole" /\ final = "absent" -> "finished"
      [] job.paths /\ pending = "absent" /\ final = "own" -> "promoted"
      [] OTHER -> "ambiguous"

\* _recover_terminal_checkpoint, where it recovers: the inputs are compared
\* first, also when the result is promoted already.
RecoverV1(c) ==
    \/ Classified \in {"promoted", "finished"} /\ Stale(c)
    \/ ~changed /\ Classified = "promoted" /\ Ends("verified") /\ Leave(c)
    \/ ~changed /\ Classified = "finished" /\ Start(c, "repromoting") /\ UNCHANGED <<job, ops>>

Runnable == Classified \in {"ready", "incomplete"}

\* resume_existing_job on an executing job.  It raises, and nothing changes,
\* where the state is ambiguous.
ResumeV1(c) ==
    /\ era = "v1" /\ pc[c] = "idle" /\ Free /\ job.life = "executing"
    /\ \/ RecoverV1(c)
       \/ Runnable /\ Stale(c)
       \/ Runnable /\ ~changed /\ Start(c, "begun") /\ UNCHANGED <<job, ops>>
    /\ UNCHANGED disk /\ Keep

\* Mutant: it reports the ambiguity and leaves the job executing.
WebCheckpointReports(c) ==
    /\ era = "v1" /\ pc[c] = "idle" /\ Free
    /\ \/ job.life = "executing" /\ RecoverV1(c)
       \/ (job.life = "executing" => Runnable) /\ job.life \notin Ended /\ Stale(c)
    /\ UNCHANGED disk /\ Keep

\* web_checkpoint, the browser's look at the job: it recovers the same way, but
\* blocks the job where the state is ambiguous.
WebCheckpoint(c) ==
    /\ era = "v1" /\ pc[c] = "idle" /\ Free
    /\ \/ job.life = "executing" /\ RecoverV1(c)
       \/ job.life = "executing" /\ Classified = "ambiguous" /\ Block(c)
       \/ (job.life = "executing" => Runnable) /\ job.life \notin Ended /\ Stale(c)
    /\ UNCHANGED disk /\ Keep

\* _execute up to the copy: what is incomplete is removed, and both paths are
\* recorded before anything is written there.
BeginV1(c) ==
    /\ era = "v1" /\ pc[c] = "begun"
    /\ \/ Classified = "ambiguous" /\ Raise(c) /\ UNCHANGED disk
       \/ Runnable /\ ~job.paths /\ Stale(c) /\ UNCHANGED disk
       \/ /\ Runnable /\ (job.paths \/ ~changed)
          /\ pending' = "absent" /\ UNCHANGED final
          /\ job' = [job EXCEPT !.paths = TRUE] /\ Go(c, "copying") /\ UNCHANGED ops
    /\ Keep
-----------------------------------------------------------------------------
(* Version 2 *)

\* rehydrate on its own: the browser and the CLI look at the inputs when they
\* start, and end the job even if its result is promoted already.
Rehydrate(c) ==
    /\ era = "v2" /\ pc[c] = "idle" /\ Free /\ job.life \notin Ended /\ Stale(c)
    /\ UNCHANGED disk /\ Keep

\* prepare_connected_change_application: the Change File fits, and its plan is
\* the job's, or it does not.
Prepare(c) ==
    \/ job' = [job EXCEPT !.life = "executing", !.accepted = TRUE]
       /\ Start(c, "begun") /\ UNCHANGED ops
    \/ Block(c)

\* run_or_resume up to an executing job: a promoted result is looked at before
\* the inputs are.
RunV2(c) ==
    LET promoted == job.paths /\ pending = "absent" /\ final # "absent"
    IN  /\ era = "v2" /\ Free
        /\ \/ job.life \in Ended /\ UNCHANGED job /\ Leave(c)
           \/ /\ job.life = "executing" /\ promoted
              /\ (final = "own" /\ Ends("verified") /\ Leave(c)) \/ (final # "own" /\ Block(c))
           \/ job.life \notin Ended /\ ~(job.life = "executing" /\ promoted) /\ Stale(c)
           \/ job.life = "planning" /\ authority = "capsule" /\ ~changed /\ Prepare(c)
           \/ job.life = "executing" /\ ~promoted /\ ~changed /\ Start(c, "begun") /\ UNCHANGED <<job, ops>>
        /\ UNCHANGED disk /\ Keep

\* The browser and the CLI resume, or go on from the plan just accepted; in the
\* second case a lock that is taken ends the call.
ResumeV2(c) ==
    \/ c \notin Servers /\ pc[c] = "idle" /\ RunV2(c)
       /\ (job.life = "executing" \/ (job.life = "planning" /\ authority = "capsule"))
    \/ pc[c] = "started" /\ RunV2(c)
    \/ /\ pc[c] = "started" /\ ~Free /\ UNCHANGED job /\ Leave(c)
       /\ UNCHANGED disk /\ Keep

\* begin_execution, if the paths are not recorded yet.
BeginV2(c) ==
    /\ era = "v2" /\ pc[c] = "begun"
    /\ \/ job.paths /\ Go(c, "recovering") /\ UNCHANGED <<job, ops>>
       \/ ~job.paths /\ disk # <<"absent", "absent">> /\ Block(c)
       \/ ~job.paths /\ disk = <<"absent", "absent">> /\ Stale(c)
       \/ /\ ~job.paths /\ disk = <<"absent", "absent">> /\ ~changed
          /\ job' = [job EXCEPT !.paths = TRUE] /\ Go(c, "recovering") /\ UNCHANGED ops
    /\ UNCHANGED disk /\ Keep

\* _rehydrate_prepared and _recover_if_possible: a tree that verifies is kept,
\* one that does not is removed and copied again.
RecoverV2(c) ==
    /\ pc[c] = "recovering" /\ UNCHANGED final
    /\ \/ Stale(c) /\ UNCHANGED pending
       \/ ~changed /\ final = "own" /\ pending = "absent" /\ Ends("verified") /\ Leave(c) /\ UNCHANGED pending
       \/ ~changed /\ final # "absent" /\ disk # <<"absent", "own">> /\ Block(c) /\ UNCHANGED pending
       \/ /\ ~changed /\ final = "absent" /\ pending = "whole" /\ UNCHANGED <<pending, job, ops>>
          /\ Go(c, "repromoting")
       \/ /\ ~changed /\ final = "absent" /\ pending # "whole" /\ pending' = "absent"
          /\ Go(c, "copying") /\ UNCHANGED <<job, ops>>
    /\ Keep
-----------------------------------------------------------------------------
(* The copy, of either version *)

\* A recovered tree is promoted without replacing anything.
Repromote(c) ==
    /\ pc[c] = "repromoting"
    /\ \/ /\ final = "absent" /\ final' = "own" /\ pending' = "absent"
          /\ Go(c, "promoted") /\ UNCHANGED <<job, ops>>
       \/ /\ final # "absent" /\ UNCHANGED disk
          /\ (era = "v1" /\ Raise(c)) \/ (era = "v2" /\ Block(c))
    /\ Keep

CopyStep(c, from, to, tree) ==
    /\ pc[c] = from /\ Go(c, to)
    /\ pending' = tree /\ UNCHANGED <<final, job, ops>> /\ Keep

\* execute_accepted_folder_plan: copy, compare the source, write the receipt and
\* the last manifests, compare the source again, promote.  Only the second time
\* is the Change File looked at too.
Copy(c) ==
    \/ final = "absent" /\ CopyStep(c, "copying", "staged", "partial")
    \/ (~changed \/ authority = "capsule") /\ CopyStep(c, "staged", "sealing", "receipt")
    \/ CopyStep(c, "sealing", "sealed", "whole")
    \/ ~changed /\ CopyStep(c, "sealed", "scanned", "whole")
Promote(c) ==
    /\ pc[c] = "scanned" /\ final = "absent"
    /\ final' = "own" /\ pending' = "absent"
    /\ Go(c, "promoted") /\ UNCHANGED <<job, ops>> /\ Keep

\* Mutant: it is set after the last check instead.
FinalizedLast(c) == pc[c] = "scanned"

\* receipt_finalized: from where on the tree survives a failure.  Version 1 sets
\* it with the receipt, version 2 with the finished tree.
Finalized(c) == pc[c] \in {"sealed", "scanned"} \/ (era = "v1" /\ pc[c] = "sealing")

\* A step of the copy fails: the result path is taken, the source has changed,
\* or the disk or a check refuses.
CopyFails(c) ==
    /\ pc[c] \in Copying
    /\ \/ pc[c] \in {"copying", "scanned"} /\ final # "absent" /\ UNCHANGED failures
       \/ pc[c] \in {"staged", "sealed"} /\ changed /\ UNCHANGED failures
       \/ failures < MaxFailures /\ failures' = failures + 1
    /\ Go(c, "failed")
    /\ pending' = IF Finalized(c) THEN pending ELSE "absent"
    /\ UNCHANGED <<era, authority, job, ops, final, recreation, changed, crashes, changes>>

\* The failure is recorded, unless the inputs changed.
Settle(c) ==
    /\ pc[c] = "failed"
    /\ Stale(c) \/ (~changed /\ Ends("blocked") /\ Leave(c))
    /\ UNCHANGED disk /\ Keep

\* finalize_verified does not look at the inputs again, nor version 1 at more of
\* the result than that it is there.
Finalize(c) ==
    /\ pc[c] = "promoted"
    /\ \/ (final = "own" \/ (era = "v1" /\ final # "absent")) /\ Ends("verified") /\ Leave(c)
       \/ era = "v1" /\ final = "absent" /\ Raise(c)
       \/ era = "v2" /\ final # "own" /\ Block(c)
    /\ UNCHANGED disk /\ Keep
-----------------------------------------------------------------------------
(* Recreating the original layout, without the lock *)

Turn(c, step) == rc' = [rc EXCEPT ![c] = step]
RecreationOnly == UNCHANGED <<era, authority, job, lock, pc, ops, disk, changed, bounds>>

\* The result must verify and the destination be absent.  The server's tool has
\* one fixed destination, and reports what is there already if it is the original.
Recreate(c) ==
    /\ rc[c] \in {"idle", "told"} /\ job.life = "verified" /\ final = "own"
    /\ \/ restored = "absent" /\ Turn(c, "verified")
       \/ c \in Servers /\ restored = "own" /\ Turn(c, "told")
    /\ UNCHANGED restored /\ RecreationOnly

\* Every member is compared as it is copied into a hidden folder of the call's
\* own, which is removed if one differs.
CopyOriginal(c) ==
    /\ rc[c] = "verified"
    /\ Turn(c, IF final = "own" THEN "copied" ELSE "idle")
    /\ UNCHANGED restored /\ RecreationOnly

\* Version 2 verifies the result once more; nothing is replaced.
PromoteOriginal(c) ==
    /\ rc[c] = "copied"
    /\ IF restored = "absent" /\ (era = "v1" \/ final = "own")
         THEN restored' = "own" /\ Turn(c, "told")
         ELSE UNCHANGED restored /\ Turn(c, "idle")
    /\ RecreationOnly
-----------------------------------------------------------------------------
(* The STDIO server *)

\* _OperationRegistry.launch: the operation registered last is not repeated
\* while it runs; another one waits for it.
Launch(s, kind) ==
    /\ ops[s] # <<>> => Last(ops[s]) # kind
    /\ Len(ops[s]) < MaxOperations
    /\ ops' = [ops EXCEPT ![s] = Append(@, kind)]

\* recover_nonterminal_jobs, and a repeated plan or apply call.
Schedule(s) ==
    /\ era = "v2" /\ job.life \notin Ended \cup {"awaiting"}
    /\ Launch(s, "job")
    /\ UNCHANGED <<job, lock, pc, disk>> /\ Keep

\* answer_clarification: the answer is durable before the operation is launched;
\* the same answer again launches it again.
AnswerByTool(s) ==
    /\ era = "v2"
    /\ \/ Free /\ job.life = "awaiting" /\ changed /\ Ends("stale") /\ UNCHANGED ops
       \/ /\ Free /\ job.life = "awaiting" /\ ~changed
          /\ job' = [job EXCEPT !.life = "planning", !.answered = TRUE] /\ Launch(s, "answer")
       \/ Free /\ job.life = "planning" /\ job.answered /\ UNCHANGED job /\ Launch(s, "answer")
    /\ UNCHANGED <<lock, pc, disk>> /\ Keep

\* _resume_origin and _resume_application: nothing to do; planning; execution;
\* the provider cannot be made; or the job stays taken.
Operate(s) ==
    /\ pc[s] = "idle" /\ ops[s] # <<>>
    /\ \/ /\ job.life \in Ended \cup {"awaiting"} /\ UNCHANGED <<job, disk>>
          /\ Leave(s) /\ Keep
       \/ Replan(s, "planning")
       \/ (job.life = "executing" \/ authority = "capsule") /\ RunV2(s)
       \/ /\ job.life = "planning" /\ failures < MaxFailures /\ failures' = failures + 1
          /\ Raise(s) /\ UNCHANGED <<era, authority, disk, recreation, changed, crashes, changes>>
       \/ ~Free /\ UNCHANGED <<job, disk>> /\ Leave(s) /\ Keep

\* _persist_background_blocker, if the record is free.
Report(s) ==
    /\ pc[s] = "reporting"
    /\ \/ Free /\ job.life \notin Ended /\ Block(s)
       \/ (~Free \/ job.life \in Ended) /\ UNCHANGED job /\ Leave(s)
    /\ UNCHANGED disk /\ Keep
-----------------------------------------------------------------------------
(* The environment *)

Crash(c) ==
    /\ crashes < MaxCrashes /\ crashes' = crashes + 1
    /\ pc[c] # "idle" \/ rc[c] # "idle" \/ (c \in Servers /\ ops[c] # <<>>)
    /\ pc' = [pc EXCEPT ![c] = "idle"] /\ Turn(c, "idle")
    /\ lock' = IF lock = c THEN None ELSE lock
    /\ ops' = IF c \in Servers THEN [ops EXCEPT ![c] = <<>>] ELSE ops
    /\ UNCHANGED <<era, authority, job, disk, restored, changed, failures, changes>>

\* What becomes of a place that the user or another program touches.
Touched(place) ==
    CASE place = "absent" -> {"stranger"} [] place = "own" -> {"edited", "absent"} [] OTHER -> {"absent"}

\* The user edits an input, or touches the result or the recreated folder.
Disturb ==
    /\ changes < MaxChanges /\ changes' = changes + 1
    /\ \/ ~changed /\ changed' = TRUE /\ UNCHANGED <<final, restored>>
       \/ final' \in Touched(final) /\ UNCHANGED <<changed, restored>>
       \/ job.life = "verified" /\ restored' \in Touched(restored) /\ UNCHANGED <<changed, final>>
    /\ UNCHANGED <<era, authority, job, lock, pc, ops, pending, rc, crashes, failures>>

Work(c) ==
    \/ Plan(c) \/ BeginV1(c) \/ BeginV2(c) \/ RecoverV2(c) \/ Repromote(c)
    \/ Copy(c) \/ Promote(c) \/ CopyFails(c) \/ Settle(c) \/ Finalize(c)

\* What the user, or a browser, does with a job it finds.
Reopen(c) ==
    \/ ResumeV1(c) \/ WebCheckpoint(c) \/ Rehydrate(c) \/ ResumeV2(c)
    \/ /\ pc[c] = "idle" /\ c \notin Servers
       /\ Replan(c, "planning") \/ Replan(c, "awaiting")

Next ==
    \/ \E c \in Callers : Work(c) \/ Crash(c)
    \/ \E c \in Callers : Recreate(c) \/ CopyOriginal(c) \/ PromoteOriginal(c)
    \/ \E c \in Callers \ Servers : Reopen(c)
    \/ \E s \in Servers : Schedule(s) \/ AnswerByTool(s) \/ Operate(s) \/ Report(s) \/ ResumeV2(s)
    \/ Disturb

Spec == Init /\ [][Next]_vars

\* A process that runs goes on, and the user comes back to the job.
FairSpec ==
    /\ Spec
    /\ \A c \in Callers : WF_vars(Work(c))
    /\ \A c \in Callers \ Servers : WF_vars(Reopen(c))
-----------------------------------------------------------------------------
(* Properties *)

TypeOK ==
    /\ era \in {"v1", "v2"} /\ authority \in {"planned", "capsule"}
    /\ job \in Record
    /\ pc \in [Callers -> Steps]
    /\ lock = None <=> \A c \in Callers : pc[c] \notin Locked
    /\ lock # None => pc[lock] \in Locked /\ \A c \in Callers \ {lock} : pc[c] \notin Locked
    /\ \A s \in Servers : ops[s] \in Seq({"job", "answer"})
    /\ pending \in Trees /\ final \in Places /\ restored \in Places
    /\ rc \in [Callers -> {"idle", "verified", "copied", "told"}]

\* A crash alone never blocks an accepted job, whoever finds it and in whatever
\* order: what was copied is finished, promoted or copied again.  Version 1 makes
\* an exception of a crash after the receipt and before the last manifests.  And
\* who holds the lock is where the lock is held.
CrashNeverBlocks ==
    /\ job.life = "blocked" /\ job.accepted /\ changes = 0 /\ failures = 0
         => era = "v1" /\ pending = "receipt"
    /\ TypeOK

\* A finished copy is never removed, only promoted; nothing the user may own is
\* ever replaced; version 2 verifies a job only with its copy at its place; and
\* whoever is told that the original was recreated finds it.
FinishedCopyIsKept ==
    [][/\ pending = "whole" => pending' = "whole" \/ (final = "absent" /\ final' = "own")
       /\ changes' = changes =>
              (final # "absent" => final' = final) /\ (restored # "absent" => restored' = restored)
       /\ era = "v2" /\ job.life # "verified" /\ job'.life = "verified"
              => final' = "own" /\ pending' = "absent"
       /\ \A c \in Callers : rc[c] # "told" /\ rc'[c] = "told" => restored' = "own"]_vars

\* An accepted plan is carried out or its job ended, if the user comes back.
ExecutionEnds == job.life = "executing" ~> job.life \in Ended
=============================================================================
