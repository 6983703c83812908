---------------------------- MODULE JobsDirectory ----------------------------
(***************************************************************************)
(* Several jobs side by side: how the host and review services create them *)
(* once per request (foldweave_host_service.py), derive a child from a     *)
(* receiver's review, and let one job at most own a result folder          *)
(* (connected_change/review_service.py).  A state root is a directory of   *)
(* job files; the services decide by reading all of them, under locks that *)
(* a process holds and loses when it dies.  Jobs of different roots see    *)
(* nothing of each other but the folders they promote.                     *)
(***************************************************************************)
EXTENDS Integers, FiniteSets

CONSTANTS Callers,   \* threads and processes
          Jobs,      \* job identifiers that may be drawn
          Roots,     \* state roots
          RootOf,    \* the root in which an identifier is drawn
          RequestKeys,  \* idempotency keys
          Folders,   \* result folders
          Nil

VARIABLES jobs,    \* the job files
          folder,  \* what lies at each result folder
          lock,    \* who holds each lock
          pc, ctx  \* what each caller does, and for which request or job

directory == <<jobs, folder, lock, pc, ctx>>
-----------------------------------------------------------------------------
FileLives == {"matching", "open", "reviewing", "executing", "verified", "stale", "blocked"}
EndedLives == {"verified", "stale", "blocked"}

\* The requests that create a job: plan a folder with the host's model, apply a
\* Change File, or derive a child from such a receiver's review.
Kinds == {"hosted", "receiver", "child"}

\* A job file: the request that created it, the job it derives from, and the
\* folder its reviewed plan names.  "open" is planning, revising and the like.
Files == [key : RequestKeys, kind : Kinds, parent : Jobs \cup {Nil}, life : FileLives,
          target : Folders \cup {Nil}]

RootLocks == Roots \X {"create", "children", "destinations"}
Locks == Jobs \cup RootLocks

\* Lock files of a root lie beside the directories of its jobs, never in one.
ASSUME DirectoryAssumption ==
    /\ RootOf \in [Jobs -> Roots]
    /\ Nil \notin Callers \cup Jobs \cup RequestKeys \cup Folders
    /\ Nil \notin Files
    /\ Jobs \cap RootLocks = {}

Steps == {"idle", "look", "enter", "derive", "look_again", "save", "match",
          "accept", "scan", "authorize", "run", "promote", "finish"}

Contexts == [key : RequestKeys \cup {Nil}, kind : Kinds \cup {Nil}, root : Roots \cup {Nil},
             parent : Jobs \cup {Nil}, job : Jobs \cup {Nil}]
NoContext == [key |-> Nil, kind |-> Nil, root |-> Nil, parent |-> Nil, job |-> Nil]

Exists(j) == jobs[j] # Nil
Root(j) == RootOf[j]
At(c, step) == pc[c] = step
Free(l) == lock[l] = Nil
Goto(c, step) == pc' = [pc EXCEPT ![c] = step]
Take(c, l) == lock' = [lock EXCEPT ![l] = c]
Release(l) == lock' = [lock EXCEPT ![l] = Nil]

\* The caller is done, or dies: the locks of a process go with it.
Leave(c) ==
    /\ Goto(c, "idle")
    /\ ctx' = [ctx EXCEPT ![c] = NoContext]
    /\ lock' = [l \in Locks |-> IF lock[l] = c THEN Nil ELSE lock[l]]

Write(j, life) == jobs' = [jobs EXCEPT ![j].life = life]
-----------------------------------------------------------------------------
(* Creation *)

\* Root jobs and derived children hash their keys in separate domains.
SameDomain(kind, j) == (kind = "child") <=> (jobs[j].kind = "child")
Holders(r, key, kind) ==
    {j \in Jobs : Exists(j) /\ Root(j) = r /\ jobs[j].key = key /\ SameDomain(kind, j)}
Found(c) == Holders(ctx[c].root, ctx[c].key, ctx[c].kind)

\* create_or_resume_planning_job, prepare_change_application and
\* create_or_resume_derivative_child: look for the key without a lock.
Ask(c) ==
    /\ At(c, "idle")
    /\ \E key \in RequestKeys, root \in Roots :
         \/ \E kind \in {"hosted", "receiver"} :
              ctx' = [ctx EXCEPT ![c] = [NoContext EXCEPT !.key = key, !.kind = kind,
                                                          !.root = root]]
         \/ \E parent \in {j \in Jobs : Exists(j) /\ Root(j) = root
                                         /\ jobs[j].kind = "receiver"} :
              ctx' = [ctx EXCEPT ![c] = [key |-> key, kind |-> "child", root |-> root,
                                         parent |-> parent, job |-> Nil]]
    /\ Goto(c, "look")
    /\ UNCHANGED <<jobs, folder, lock>>

\* A key found returns its job as it stands if the request is the same one, or
\* is refused.
Resolve(c) ==
    /\ pc[c] \in {"look", "look_again"}
    /\ Found(c) # {}
    /\ Leave(c)
    /\ UNCHANGED <<jobs, folder>>

\* A key not found goes on to the locks; others may ask in between.
LookMissed(c) ==
    /\ At(c, "look") /\ Found(c) = {}
    /\ Goto(c, "enter")
    /\ UNCHANGED <<jobs, folder, lock, ctx>>

\* A new root job waits for the creation lock of its root.
EnterCreation(c) ==
    /\ At(c, "enter") /\ ctx[c].kind # "child"
    /\ Free(<<ctx[c].root, "create">>) /\ Take(c, <<ctx[c].root, "create">>)
    /\ Goto(c, "look_again")
    /\ UNCHANGED <<jobs, folder, ctx>>

\* A child needs its parent's writer lock first, then a parent still in review,
\* then the lock of the root's children.
LockParent(c) ==
    /\ At(c, "enter") /\ ctx[c].kind = "child"
    /\ Free(ctx[c].parent) /\ Take(c, ctx[c].parent)
    /\ Goto(c, "derive")
    /\ UNCHANGED <<jobs, folder, ctx>>

\* Mutant: the parent is only read under its lock.
EnterChildrenUnlocked(c) ==
    /\ At(c, "derive") /\ jobs[ctx[c].parent].life = "reviewing"
    /\ Free(<<ctx[c].root, "children">>)
    /\ lock' = [lock EXCEPT ![<<ctx[c].root, "children">>] = c, ![ctx[c].parent] = Nil]
    /\ Goto(c, "look_again")
    /\ UNCHANGED <<jobs, folder, ctx>>

EnterChildren(c) ==
    /\ At(c, "derive") /\ jobs[ctx[c].parent].life = "reviewing"
    /\ Free(<<ctx[c].root, "children">>) /\ Take(c, <<ctx[c].root, "children">>)
    /\ Goto(c, "look_again")
    /\ UNCHANGED <<jobs, folder, ctx>>

\* _require_fresh_derivative_parent refuses a parent out of review.
RefuseParent(c) ==
    /\ At(c, "derive") /\ jobs[ctx[c].parent].life # "reviewing"
    /\ Leave(c)
    /\ UNCHANGED <<jobs, folder>>

\* Mutant: the lookup before the lock is trusted.
LookAgainNot(c) ==
    /\ At(c, "look_again") /\ Goto(c, "save")
    /\ UNCHANGED <<jobs, folder, lock, ctx>>

\* The key is looked for again under the lock.
LookAgain(c) ==
    /\ At(c, "look_again") /\ Found(c) = {}
    /\ Goto(c, "save")
    /\ UNCHANGED <<jobs, folder, lock, ctx>>

SaveNew(c) ==
    /\ At(c, "save")
    /\ \E j \in Jobs :
         /\ ~Exists(j) /\ Root(j) = ctx[c].root
         /\ LET file == [key |-> ctx[c].key, kind |-> ctx[c].kind,
                         parent |-> ctx[c].parent, life |-> "open", target |-> Nil]
            IN IF ctx[c].kind = "receiver"
                 THEN /\ jobs' = [jobs EXCEPT ![j] = [file EXCEPT !.life = "matching"]]
                      /\ ctx' = [ctx EXCEPT ![c].job = j]
                      /\ Goto(c, "match") /\ UNCHANGED lock
                 ELSE jobs' = [jobs EXCEPT ![j] = file] /\ Leave(c)
    /\ UNCHANGED folder

\* A reviewable plan, or none.
OpenReview(j) ==
    \/ \E f \in Folders :
         jobs' = [jobs EXCEPT ![j].life = "reviewing", ![j].target = f]
    \/ Write(j, "blocked")

\* prepare_application_review matches the Change File in the same call, still
\* under the creation lock.
Match(c) ==
    /\ At(c, "match") /\ Free(ctx[c].job)
    /\ IF jobs[ctx[c].job].life = "matching" THEN OpenReview(ctx[c].job) ELSE UNCHANGED jobs
    /\ Leave(c)
    /\ UNCHANGED folder

\* Planning or the derived revision ends.
Plan(j) ==
    /\ Exists(j) /\ jobs[j].life = "open" /\ Free(j)
    /\ OpenReview(j)
    /\ UNCHANGED <<folder, lock, pc, ctx>>

\* Any rehydration may find changed inputs; a promoted result is not stale.
TurnStale(j) ==
    /\ Exists(j) /\ jobs[j].life \notin EndedLives /\ Free(j)
    /\ jobs[j].life = "executing" => folder[jobs[j].target] = Nil
    /\ Write(j, "stale")
    /\ UNCHANGED <<folder, lock, pc, ctx>>
-----------------------------------------------------------------------------
(* Acceptance *)

\* accept and resume_authorized_execution under the job's writer lock.
AcceptReview(c) ==
    /\ At(c, "idle")
    /\ \E j \in Jobs :
         /\ Exists(j) /\ jobs[j].life \in {"reviewing", "executing"} /\ Free(j)
         /\ Take(c, j)
         /\ ctx' = [ctx EXCEPT ![c] = [NoContext EXCEPT !.job = j, !.root = Root(j)]]
    /\ Goto(c, "accept")
    /\ UNCHANGED <<jobs, folder>>

\* Mutant: the destination lock is not held while the authorization is written.
LockDestinationsNot(c) ==
    /\ At(c, "accept") /\ Goto(c, "scan") /\ UNCHANGED <<jobs, folder, lock, ctx>>

LockDestinations(c) ==
    /\ At(c, "accept")
    /\ LET l == <<ctx[c].root, "destinations">>
       IN Free(l) /\ Take(c, l)
    /\ Goto(c, "scan")
    /\ UNCHANGED <<jobs, folder, ctx>>

\* _require_unique_destination_reservation: no other executing or verified job
\* of the root names the folder.
Owners(r, f) == {j \in Jobs : Exists(j) /\ Root(j) = r /\ jobs[j].target = f
                              /\ jobs[j].life \in {"executing", "verified"}}

Target(c) == jobs[ctx[c].job].target
Others(c) == Owners(ctx[c].root, Target(c)) \ {ctx[c].job}

Scan(c) ==
    /\ At(c, "scan")
    /\ IF Others(c) # {}
         THEN Leave(c)
         ELSE IF jobs[ctx[c].job].life = "executing"
           THEN /\ Goto(c, "run") /\ Release(<<ctx[c].root, "destinations">>)
                /\ UNCHANGED ctx
           ELSE Goto(c, "authorize") /\ UNCHANGED <<lock, ctx>>
    /\ UNCHANGED <<jobs, folder>>

\* Still under the destination lock: nothing lies at the folder, and the
\* authorization is persisted before any copy.
Authorize(c) ==
    /\ At(c, "authorize")
    /\ IF folder[Target(c)] # Nil
         THEN Leave(c) /\ UNCHANGED jobs
         ELSE /\ Write(ctx[c].job, "executing")
              /\ Goto(c, "run") /\ Release(<<ctx[c].root, "destinations">>)
              /\ UNCHANGED ctx
    /\ UNCHANGED folder

\* _execute_locked: a folder already there is this job's own promoted result or
\* the end of the job.
OwnsResult(j) == folder[jobs[j].target] = j
RecoverPromoted(c) ==
    /\ At(c, "run") /\ folder[Target(c)] # Nil
    /\ Write(ctx[c].job, IF OwnsResult(ctx[c].job) THEN "verified" ELSE "blocked")
    /\ Leave(c)
    /\ UNCHANGED folder

Copy(c) ==
    /\ At(c, "run") /\ folder[Target(c)] = Nil
    /\ Goto(c, "promote")
    /\ UNCHANGED <<jobs, folder, lock, ctx>>

CopyFails(c) ==
    /\ At(c, "promote")
    /\ Write(ctx[c].job, "blocked")
    /\ Leave(c)
    /\ UNCHANGED folder

\* promote_directory_no_replace
Promote(c) ==
    /\ At(c, "promote")
    /\ IF folder[Target(c)] = Nil
         THEN /\ folder' = [folder EXCEPT ![Target(c)] = ctx[c].job]
              /\ Goto(c, "finish") /\ UNCHANGED <<jobs, lock, ctx>>
         ELSE Write(ctx[c].job, "blocked") /\ Leave(c) /\ UNCHANGED folder

Finish(c) ==
    /\ At(c, "finish")
    /\ Write(ctx[c].job, "verified")
    /\ Leave(c)
    /\ UNCHANGED folder

\* A caller gives up on a busy lock or an unreadable file, or its process dies;
\* what it has written stays.
Stop(c) ==
    /\ ~At(c, "idle") /\ Leave(c) /\ UNCHANGED <<jobs, folder>>

\* Somebody puts a folder of their own where a result should go (external).
Occupy(f) ==
    /\ folder[f] = Nil
    /\ folder' = [folder EXCEPT ![f] = "stranger"]
    /\ UNCHANGED <<jobs, lock, pc, ctx>>
-----------------------------------------------------------------------------
DirectoryInit ==
    /\ jobs = [j \in Jobs |-> Nil]
    /\ folder = [f \in Folders |-> Nil]
    /\ lock = [l \in Locks |-> Nil]
    /\ pc = [c \in Callers |-> "idle"]
    /\ ctx = [c \in Callers |-> NoContext]

DirectoryNext ==
    \/ \E c \in Callers :
         \/ Ask(c) \/ Resolve(c) \/ LookMissed(c) \/ EnterCreation(c)
         \/ LockParent(c) \/ EnterChildren(c) \/ RefuseParent(c)
         \/ LookAgain(c) \/ SaveNew(c) \/ Match(c)
         \/ AcceptReview(c) \/ LockDestinations(c) \/ Scan(c) \/ Authorize(c)
         \/ RecoverPromoted(c) \/ Copy(c) \/ CopyFails(c) \/ Promote(c) \/ Finish(c)
         \/ Stop(c)
    \/ \E j \in Jobs : Plan(j) \/ TurnStale(j)
    \/ \E f \in Folders : Occupy(f)

DirectorySpec == DirectoryInit /\ [][DirectoryNext]_directory
-----------------------------------------------------------------------------
(* Properties *)

\* Every variable has its values, and a caller past the review holds the writer
\* lock of the job it works on.
DirectoryTypeOK ==
    /\ jobs \in [Jobs -> Files \cup {Nil}]
    /\ folder \in [Folders -> Jobs \cup {Nil, "stranger"}]
    /\ lock \in [Locks -> Callers \cup {Nil}]
    /\ pc \in [Callers -> Steps] /\ ctx \in [Callers -> Contexts]
    /\ \A c \in Callers :
         pc[c] \in {"run", "promote", "finish"} =>
           lock[ctx[c].job] = c /\ jobs[ctx[c].job].life = "executing"

\* A double click, a retry or two surfaces asking at once with one key make one
\* job, and one child; the lookup before the lock decides nothing.
OneJobPerKey ==
    \A r \in Roots, key \in RequestKeys, kind \in Kinds :
      Cardinality(Holders(r, key, kind)) <= 1

\* A child is written only while the review it was derived from is still open
\* for decision: nobody has accepted, staled or blocked the parent meanwhile.
ChildOfOpenReview ==
    [][\A j \in Jobs : ~Exists(j) /\ jobs'[j] # Nil /\ jobs'[j].parent # Nil =>
         jobs[jobs'[j].parent].life = "reviewing"]_directory

\* At most one job of a root is authorized for, or owns, a result folder, also
\* when jobs are accepted at the same moment and executions are resumed.
OneOwner ==
    \A r \in Roots, f \in Folders : Cardinality(Owners(r, f)) <= 1

\* A verified job's folder is the one it promoted itself, whatever other roots
\* and users put there before it, meanwhile or after it.
ResultIsOwn ==
    \A j \in Jobs : Exists(j) /\ jobs[j].life = "verified" => folder[jobs[j].target] = j

\* Both together, on well-typed states: a folder is one job's, from its acceptance
\* to its result.
FolderIsOneJobs == DirectoryTypeOK /\ OneOwner /\ ResultIsOwn
==============================================================================
