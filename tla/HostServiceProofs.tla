--------------------------- MODULE HostServiceProofs ---------------------------
(***************************************************************************)
(* What the host service and the review service promise, for any callers,  *)
(* jobs, roots, calls and agents, along three invariants: of the jobs of   *)
(* the state roots (JobsDirectory), of one job in the hands of a hosted    *)
(* model (Hosted), and of the children of a review (Derivative).           *)
(***************************************************************************)
EXTENDS JobsDirectory, Hosted, Derivative, FiniteSetTheorems, SequenceTheorems, TLAPS

-----------------------------------------------------------------------------
(***************************************************************************)
(* JobsDirectory for any number of callers, jobs, roots and folders: one   *)
(* job per key, children of open reviews only, one owner of a folder. What *)
(* makes them inductive is which lock a caller holds at which step         *)
(* (CallerOK), and that what it found under the lock is still so.          *)
(***************************************************************************)

\* Every variable has its values.
DirTyped ==
    /\ jobs \in [Jobs -> Files \cup {Nil}]
    /\ folder \in [Folders -> Jobs \cup {Nil, "stranger"}]
    /\ lock \in [Locks -> Callers \cup {Nil}]
    /\ pc \in [Callers -> Steps] /\ ctx \in [Callers -> Contexts]

Creating == {"look", "enter", "derive", "look_again", "save"}
UnderJob == {"accept", "scan", "authorize", "run", "promote", "finish"}
Running == {"run", "promote", "finish"}

HoldsLock(c, l) == lock[l] = c

\* What a request carries while it looks for its key.
RequestOK(c) ==
    pc[c] \in Creating =>
      /\ ctx[c].key \in RequestKeys /\ ctx[c].kind \in Kinds /\ ctx[c].root \in Roots
      /\ ctx[c].job = Nil
      /\ ctx[c].kind = "child" => ctx[c].parent \in Jobs /\ Exists(ctx[c].parent)
      /\ ctx[c].kind # "child" => ctx[c].parent = Nil

\* A caller that creates holds the lock of its kind, a child's parent stays in
\* review with it, and at the save the key is still free.
CreatorOK(c) ==
    /\ pc[c] \in {"look_again", "save"} =>
         IF ctx[c].kind = "child"
           THEN HoldsLock(c, <<ctx[c].root, "children">>)
           ELSE HoldsLock(c, <<ctx[c].root, "create">>)
    /\ pc[c] = "derive" => ctx[c].kind = "child"
    /\ pc[c] \in {"derive", "look_again", "save"} /\ ctx[c].kind = "child" =>
         HoldsLock(c, ctx[c].parent)
    /\ pc[c] \in {"look_again", "save"} /\ ctx[c].kind = "child" =>
         jobs[ctx[c].parent].life = "reviewing"
    /\ pc[c] = "save" => Found(c) = {}
    /\ pc[c] = "match" => ctx[c].job \in Jobs /\ Exists(ctx[c].job)

\* A caller that accepts holds the job and, until the authorization is written,
\* the lock of the root's destinations; the folder it found free of owners is so.
AcceptorOK(c) ==
    /\ pc[c] \in UnderJob =>
         /\ ctx[c].job \in Jobs /\ Exists(ctx[c].job)
         /\ ctx[c].root = Root(ctx[c].job)
         /\ HoldsLock(c, ctx[c].job)
         /\ jobs[ctx[c].job].life \in {"reviewing", "executing"}
    /\ pc[c] \in {"scan", "authorize"} => HoldsLock(c, <<ctx[c].root, "destinations">>)
    /\ pc[c] = "authorize" =>
         jobs[ctx[c].job].life = "reviewing" /\ Others(c) = {}
    /\ pc[c] \in Running => jobs[ctx[c].job].life = "executing"
    /\ pc[c] = "finish" => folder[Target(c)] = ctx[c].job

CallersOK == \A c \in Callers : RequestOK(c) /\ CreatorOK(c) /\ AcceptorOK(c)

\* A job in review, in execution or done has a folder's name.
TargetsNamed ==
    \A j \in Jobs : Exists(j) /\ jobs[j].life \in {"reviewing", "executing", "verified"} =>
      jobs[j].target \in Folders

SameKey(j, k) ==
    Root(j) = Root(k) /\ jobs[j].key = jobs[k].key
      /\ ((jobs[j].kind = "child") <=> (jobs[k].kind = "child"))
KeysUnique == \A j, k \in Jobs : Exists(j) /\ Exists(k) /\ SameKey(j, k) => j = k

Owns(j) == Exists(j) /\ jobs[j].life \in {"executing", "verified"}
OwnersUnique ==
    \A j, k \in Jobs :
      Owns(j) /\ Owns(k) /\ Root(j) = Root(k) /\ jobs[j].target = jobs[k].target => j = k

DirInv ==
    DirTyped /\ CallersOK /\ TargetsNamed /\ KeysUnique /\ OwnersUnique /\ ResultIsOwn
-----------------------------------------------------------------------------
(***************************************************************************)
(* What a step of c leaves to the others: their own state, the locks they  *)
(* hold, the jobs they hold; new jobs and new owners need c's locks.       *)
(***************************************************************************)
Yields(c) ==
    /\ \A d \in Callers \ {c} : pc'[d] = pc[d] /\ ctx'[d] = ctx[d]
    /\ \A l \in Locks : \A d \in Callers \ {c} : lock[l] = d => lock'[l] = d

Respects(c) ==
    /\ Yields(c)
    /\ \A j \in Jobs : Exists(j) =>
         /\ Exists(j)' /\ jobs'[j].key = jobs[j].key /\ jobs'[j].kind = jobs[j].kind
         /\ lock[j] \in Callers \ {c} => jobs'[j] = jobs[j]
         /\ Owns(j) => jobs'[j].target = jobs[j].target
         /\ Owns(j)' /\ ~Owns(j) => HoldsLock(c, <<Root(j), "destinations">>)
    /\ \A j \in Jobs : ~Exists(j) /\ Exists(j)' =>
         /\ ~Owns(j)'
         /\ IF jobs'[j].kind = "child"
              THEN HoldsLock(c, <<Root(j), "children">>)
              ELSE HoldsLock(c, <<Root(j), "create">>)
    /\ \A f \in Folders : folder[f] # Nil => folder'[f] = folder[f]

LEMMA LockNames ==
    ASSUME NEW r \in Roots, NEW n \in {"create", "children", "destinations"}, NEW j \in Jobs
    PROVE  <<r, n>> \in Locks /\ j \in Locks /\ j # <<r, n>>
BY DirectoryAssumption DEF Locks, RootLocks

LEMMA OthersKept ==
    ASSUME DirInv, DirTyped', NEW c, Respects(c), NEW d \in Callers \ {c}
    PROVE  RequestOK(d)' /\ CreatorOK(d)' /\ AcceptorOK(d)'
<1>1. /\ RequestOK(d) /\ CreatorOK(d) /\ AcceptorOK(d)
      /\ pc'[d] = pc[d] /\ ctx'[d] = ctx[d]
      /\ d \in Callers /\ d # c
      /\ ctx[d] \in Contexts
  BY DEF DirInv, CallersOK, Respects, Yields, DirTyped
<1>2. RequestOK(d)'
  BY <1>1 DEF RequestOK, Respects, Yields, Exists
<1>3. CreatorOK(d)'
  <2>1. ASSUME pc[d] \in {"look_again", "save"}
        PROVE  IF ctx[d].kind = "child"
                 THEN HoldsLock(d, <<ctx[d].root, "children">>)'
                 ELSE HoldsLock(d, <<ctx[d].root, "create">>)'
    <3>1. ctx[d].root \in Roots
      BY <1>1, <2>1 DEF RequestOK, Creating
    <3> QED
      BY <1>1, <2>1, <3>1, LockNames DEF CreatorOK, HoldsLock, Respects, Yields, Locks, RootLocks
  <2>2. ASSUME pc[d] \in {"derive", "look_again", "save"}, ctx[d].kind = "child"
        PROVE  /\ HoldsLock(d, ctx[d].parent)'
               /\ pc[d] # "derive" => jobs'[ctx[d].parent].life = "reviewing"
    <3>1. ctx[d].parent \in Jobs /\ Exists(ctx[d].parent)
      BY <1>1, <2>2 DEF RequestOK, Creating
    <3>2. lock[ctx[d].parent] = d
      BY <1>1, <2>2 DEF CreatorOK, HoldsLock
    <3>3. lock'[ctx[d].parent] = d /\ jobs'[ctx[d].parent] = jobs[ctx[d].parent]
      BY <1>1, <3>1, <3>2 DEF Respects, Yields, Locks
    <3>4. pc[d] # "derive" => jobs[ctx[d].parent].life = "reviewing"
      BY <1>1, <2>2 DEF CreatorOK
    <3> QED
      BY <1>1, <3>3, <3>4 DEF HoldsLock
  <2>3. ASSUME pc[d] = "save"
        PROVE  Found(d)' = {}
    <3>1. SUFFICES ASSUME NEW j \in Jobs, Exists(j)', Root(j) = ctx[d].root,
                          jobs'[j].key = ctx[d].key,
                          (ctx[d].kind = "child") <=> (jobs'[j].kind = "child")
                   PROVE  FALSE
      BY <1>1 DEF Found, Holders, SameDomain, Exists, Root
    <3>2. CASE Exists(j)
      BY <1>1, <2>3, <3>1, <3>2 DEF CreatorOK, Found, Holders, SameDomain, Respects, Yields
    <3>3. CASE ~Exists(j)
      <4>1. IF ctx[d].kind = "child"
              THEN HoldsLock(c, <<ctx[d].root, "children">>)
              ELSE HoldsLock(c, <<ctx[d].root, "create">>)
        BY <3>1, <3>3 DEF Respects, Yields
      <4> QED
        BY <1>1, <2>3, <4>1 DEF CreatorOK, HoldsLock
    <3> QED
      BY <3>2, <3>3
  <2> QED
    BY <1>1, <2>1, <2>2, <2>3 DEF CreatorOK, HoldsLock, Exists, Respects, Yields
<1>4. AcceptorOK(d)'
  <2>1. ASSUME pc[d] \in UnderJob
        PROVE  /\ ctx[d].job \in Jobs /\ Exists(ctx[d].job)
               /\ ctx[d].root = Root(ctx[d].job) /\ ctx[d].root \in Roots
               /\ HoldsLock(d, ctx[d].job)'
               /\ jobs'[ctx[d].job] = jobs[ctx[d].job]
    BY <1>1, <2>1, DirectoryAssumption
       DEF AcceptorOK, Respects, Yields, HoldsLock, Locks, Root
  <2>2. ASSUME pc[d] \in {"scan", "authorize"}
        PROVE  HoldsLock(d, <<ctx[d].root, "destinations">>)'
    <3>1. lock[<<ctx[d].root, "destinations">>] = d
      BY <1>1, <2>2 DEF AcceptorOK, HoldsLock
    <3>2. <<ctx[d].root, "destinations">> \in Locks
      BY <2>1, <2>2 DEF UnderJob, Locks, RootLocks
    <3> QED
      BY <1>1, <3>1, <3>2 DEF Respects, Yields, HoldsLock
  <2>3. ASSUME pc[d] = "authorize"
        PROVE  Others(d)' = {}
    <3>1. SUFFICES ASSUME NEW j \in Jobs, Owns(j)', Root(j) = ctx[d].root,
                          jobs'[j].target = Target(d), j # ctx[d].job
                   PROVE  FALSE
      BY <1>1, <2>1, <2>3 DEF Others, Owners, Owns, Exists, Target, Root, UnderJob
    <3>2. CASE Owns(j)
      BY <1>1, <2>3, <3>1, <3>2 DEF AcceptorOK, Others, Owners, Owns, Respects, Yields
    <3>3. CASE ~Owns(j)
      <4>1. HoldsLock(c, <<ctx[d].root, "destinations">>)
        BY <3>1, <3>3 DEF Respects, Yields, Owns
      <4> QED
        BY <1>1, <2>3, <4>1 DEF AcceptorOK, HoldsLock
    <3> QED
      BY <3>2, <3>3
  <2>4. ASSUME pc[d] = "finish"
        PROVE  folder'[Target(d)'] = ctx[d].job
    <3>1. Target(d)' = Target(d) /\ Target(d) \in Folders /\ ctx[d].job # Nil
      BY <1>1, <2>1, <2>4, DirectoryAssumption
         DEF Target, UnderJob, DirInv, TargetsNamed, AcceptorOK
    <3> QED
      BY <1>1, <2>4, <3>1 DEF AcceptorOK, Respects, Yields
  <2> QED
    BY <1>1, <2>1, <2>2, <2>3, <2>4 DEF AcceptorOK, UnderJob, Running, Exists
<1> QED
  BY <1>2, <1>3, <1>4

OwnOK(c) == RequestOK(c) /\ CreatorOK(c) /\ AcceptorOK(c)

LEMMA CallersKept ==
    ASSUME DirInv, DirTyped', NEW c, Respects(c), c \in Callers => OwnOK(c)'
    PROVE  CallersOK'
<1> SUFFICES ASSUME NEW d \in Callers
             PROVE  OwnOK(d)'
  BY DEF CallersOK, OwnOK
<1> QED
  BY OthersKept DEF OwnOK

\* A step that leaves job files and folders alone.
LEMMA QuietStep ==
    ASSUME DirInv, NEW c \in Callers, UNCHANGED <<jobs, folder>>, DirTyped', Yields(c), OwnOK(c)'
    PROVE  DirInv'
<1>1. Respects(c)
  BY DEF Respects, Exists, Owns, DirInv, DirTyped
<1>2. CallersOK'
  BY <1>1, CallersKept
<1> QED
  BY <1>2 DEF DirInv, TargetsNamed, KeysUnique, SameKey, OwnersUnique, Owns, ResultIsOwn, Exists

LEMMA LeaveStep ==
    ASSUME DirTyped, NEW c \in Callers, Leave(c)
    PROVE  /\ lock' \in [Locks -> Callers \cup {Nil}]
           /\ pc' \in [Callers -> Steps] /\ ctx' \in [Callers -> Contexts]
           /\ Yields(c) /\ OwnOK(c)'
<1>1. /\ pc' = [pc EXCEPT ![c] = "idle"] /\ ctx' = [ctx EXCEPT ![c] = NoContext]
      /\ lock' = [l \in Locks |-> IF lock[l] = c THEN Nil ELSE lock[l]]
  BY DEF Leave, Goto
<1>2. NoContext \in Contexts
  BY DEF NoContext, Contexts
<1>3. /\ lock' \in [Locks -> Callers \cup {Nil}]
      /\ pc' \in [Callers -> Steps] /\ ctx' \in [Callers -> Contexts]
  BY <1>1, <1>2 DEF DirTyped, Steps
<1>4. Yields(c)
  BY <1>1 DEF DirTyped, Yields
<1>5. pc'[c] = "idle"
  BY <1>1 DEF DirTyped
<1>6. OwnOK(c)'
  BY <1>5 DEF OwnOK, RequestOK, CreatorOK, AcceptorOK, Creating, UnderJob, Running
<1> QED
  BY <1>3, <1>4, <1>6

LEMMA LeaveQuietly ==
    ASSUME DirInv, NEW c \in Callers, Leave(c), UNCHANGED <<jobs, folder>>
    PROVE  DirInv'
<1>1. DirTyped'
  BY LeaveStep DEF DirInv, DirTyped
<1> QED
  BY <1>1, LeaveStep, QuietStep DEF DirInv

LEMMA TakeStep ==
    ASSUME DirTyped, NEW c \in Callers, NEW l \in Locks, Free(l), Take(c, l)
    PROVE  /\ lock' \in [Locks -> Callers \cup {Nil}]
           /\ lock'[l] = c
           /\ \A m \in Locks, d \in Callers : lock[m] = d => lock'[m] = d
BY DirectoryAssumption DEF DirTyped, Free, Take

LEMMA GotoStep ==
    ASSUME DirTyped, NEW c \in Callers, NEW step \in Steps, Goto(c, step)
    PROVE  /\ pc' \in [Callers -> Steps] /\ pc'[c] = step
           /\ \A d \in Callers \ {c} : pc'[d] = pc[d]
BY DEF DirTyped, Goto
-----------------------------------------------------------------------------
(* The steps of a caller that write no job file. *)

LEMMA AskKeeps ==
    ASSUME DirInv, NEW c \in Callers, Ask(c)
    PROVE  DirInv'
<1>1. DirTyped /\ Goto(c, "look") /\ UNCHANGED <<jobs, folder, lock>>
  BY DEF DirInv, Ask
<1>2. PICK x \in Contexts :
        /\ ctx' = [ctx EXCEPT ![c] = x]
        /\ x.key \in RequestKeys /\ x.kind \in Kinds /\ x.root \in Roots /\ x.job = Nil
        /\ x.kind = "child" => x.parent \in Jobs /\ Exists(x.parent)
        /\ x.kind # "child" => x.parent = Nil
  <2>1. PICK key \in RequestKeys, root \in Roots :
         \/ \E kind \in {"hosted", "receiver"} :
              ctx' = [ctx EXCEPT ![c] = [NoContext EXCEPT !.key = key, !.kind = kind,
                                                          !.root = root]]
         \/ \E parent \in {j \in Jobs : Exists(j) /\ Root(j) = root
                                         /\ jobs[j].kind = "receiver"} :
              ctx' = [ctx EXCEPT ![c] = [key |-> key, kind |-> "child", root |-> root,
                                         parent |-> parent, job |-> Nil]]
    BY DEF Ask
  <2>2. ASSUME NEW kind \in {"hosted", "receiver"}
        PROVE  LET x == [NoContext EXCEPT !.key = key, !.kind = kind, !.root = root]
               IN /\ x \in Contexts /\ x.key = key /\ x.kind = kind /\ x.root = root
                  /\ x.parent = Nil /\ x.job = Nil
    BY DEF NoContext, Contexts, Kinds
  <2>3. ASSUME NEW parent \in Jobs
        PROVE  LET x == [key |-> key, kind |-> "child", root |-> root,
                         parent |-> parent, job |-> Nil]
               IN /\ x \in Contexts /\ x.key = key /\ x.kind = "child" /\ x.root = root
                  /\ x.parent = parent /\ x.job = Nil
    BY DEF Contexts, Kinds
  <2>4. CASE \E kind \in {"hosted", "receiver"} :
               ctx' = [ctx EXCEPT ![c] = [NoContext EXCEPT !.key = key, !.kind = kind,
                                                           !.root = root]]
    <3>1. PICK kind \in {"hosted", "receiver"} :
            ctx' = [ctx EXCEPT ![c] = [NoContext EXCEPT !.key = key, !.kind = kind,
                                                        !.root = root]]
      BY <2>4
    <3> DEFINE x == [NoContext EXCEPT !.key = key, !.kind = kind, !.root = root]
    <3>2. /\ x \in Contexts /\ x.key = key /\ x.kind = kind /\ x.root = root
          /\ x.parent = Nil /\ x.job = Nil
      BY <2>2
    <3> HIDE DEF x
    <3> QED
      BY <3>1, <3>2 DEF Kinds, x
  <2>5. CASE \E parent \in {j \in Jobs : Exists(j) /\ Root(j) = root
                                         /\ jobs[j].kind = "receiver"} :
               ctx' = [ctx EXCEPT ![c] = [key |-> key, kind |-> "child", root |-> root,
                                          parent |-> parent, job |-> Nil]]
    BY <2>3, <2>5 DEF Kinds
  <2> QED
    BY <2>1, <2>4, <2>5
<1>3. DirTyped' /\ pc'[c] = "look" /\ ctx'[c] = x /\ Yields(c)
  BY <1>1, <1>2, GotoStep DEF DirTyped, Steps, Yields
<1>4. OwnOK(c)'
  BY <1>1, <1>2, <1>3
     DEF OwnOK, RequestOK, CreatorOK, AcceptorOK, Creating, UnderJob, Running, Exists
<1> QED
  BY <1>1, <1>3, <1>4, QuietStep

LEMMA LookKeeps ==
    ASSUME DirInv, NEW c \in Callers, LookMissed(c) \/ LookAgain(c)
    PROVE  DirInv'
<1>1. DirTyped /\ OwnOK(c) /\ UNCHANGED <<jobs, folder, lock, ctx>>
  BY DEF DirInv, CallersOK, OwnOK, LookMissed, LookAgain
<1>2. CASE LookMissed(c)
  <2>1. DirTyped' /\ pc'[c] = "enter" /\ Yields(c)
    BY <1>1, <1>2, GotoStep DEF DirTyped, Steps, Yields, LookMissed
  <2>2. OwnOK(c)'
    BY <1>1, <1>2, <2>1
       DEF OwnOK, RequestOK, CreatorOK, AcceptorOK, Creating, UnderJob, Running, Exists,
           LookMissed, At
  <2> QED
    BY <1>1, <2>1, <2>2, QuietStep
<1>3. CASE LookAgain(c)
  <2>1. DirTyped' /\ pc'[c] = "save" /\ Yields(c)
    BY <1>1, <1>3, GotoStep DEF DirTyped, Steps, Yields, LookAgain
  <2>2. Found(c)' = {}
    BY <1>1, <1>3 DEF LookAgain, Found, Holders, Exists, SameDomain
  <2>3. OwnOK(c)'
    BY <1>1, <1>3, <2>1, <2>2
       DEF OwnOK, RequestOK, CreatorOK, AcceptorOK, Creating, UnderJob, Running, Exists,
           LookAgain, At, HoldsLock
  <2> QED
    BY <1>1, <2>1, <2>3, QuietStep
<1> QED
  BY <1>2, <1>3

LEMMA EnterKeeps ==
    ASSUME DirInv, NEW c \in Callers, EnterCreation(c) \/ LockParent(c) \/ EnterChildren(c)
    PROVE  DirInv'
<1>1. DirTyped /\ OwnOK(c) /\ UNCHANGED <<jobs, folder, ctx>>
  BY DEF DirInv, CallersOK, OwnOK, EnterCreation, LockParent, EnterChildren
<1>2. /\ ctx[c].root \in Roots /\ ctx[c].kind \in Kinds
      /\ ctx[c].kind = "child" => ctx[c].parent \in Jobs /\ Exists(ctx[c].parent)
  BY <1>1 DEF OwnOK, RequestOK, Creating, EnterCreation, LockParent, EnterChildren, At
<1>3. CASE EnterCreation(c)
  <2> DEFINE l == <<ctx[c].root, "create">>
  <2>1. l \in Locks /\ Free(l) /\ Take(c, l) /\ Goto(c, "look_again")
    BY <1>2, <1>3 DEF EnterCreation, Locks, RootLocks
  <2>2. DirTyped' /\ pc'[c] = "look_again" /\ lock'[l] = c /\ Yields(c)
    BY <1>1, <2>1, TakeStep, GotoStep DEF DirTyped, Steps, Yields
  <2>3. OwnOK(c)'
    BY <1>1, <1>3, <2>2
       DEF OwnOK, RequestOK, CreatorOK, AcceptorOK, Creating, UnderJob, Running, Exists,
           EnterCreation, At, HoldsLock
  <2> QED
    BY <1>1, <2>2, <2>3, QuietStep
<1>4. CASE LockParent(c)
  <2> DEFINE l == ctx[c].parent
  <2>1. l \in Locks /\ Free(l) /\ Take(c, l) /\ Goto(c, "derive")
    BY <1>2, <1>4 DEF LockParent, Locks
  <2>2. DirTyped' /\ pc'[c] = "derive" /\ lock'[l] = c /\ Yields(c)
    BY <1>1, <2>1, TakeStep, GotoStep DEF DirTyped, Steps, Yields
  <2>3. OwnOK(c)'
    BY <1>1, <1>4, <2>2
       DEF OwnOK, RequestOK, CreatorOK, AcceptorOK, Creating, UnderJob, Running, Exists,
           LockParent, At, HoldsLock
  <2> QED
    BY <1>1, <2>2, <2>3, QuietStep
<1>5. CASE EnterChildren(c)
  <2> DEFINE l == <<ctx[c].root, "children">>
  <2>1. /\ l \in Locks /\ Free(l) /\ Take(c, l) /\ Goto(c, "look_again")
        /\ At(c, "derive") /\ ctx[c].kind = "child" /\ lock[ctx[c].parent] = c
    BY <1>1, <1>2, <1>5
       DEF EnterChildren, Locks, RootLocks, OwnOK, CreatorOK, At, HoldsLock
  <2>2. /\ DirTyped' /\ pc'[c] = "look_again" /\ lock'[l] = c /\ Yields(c)
        /\ lock'[ctx[c].parent] = c
    BY <1>1, <1>2, <2>1, TakeStep, GotoStep DEF DirTyped, Steps, Yields, Locks
  <2>3. OwnOK(c)'
    BY <1>1, <1>5, <2>1, <2>2
       DEF OwnOK, RequestOK, CreatorOK, AcceptorOK, Creating, UnderJob, Running, Exists,
           EnterChildren, At, HoldsLock
  <2> QED
    BY <1>1, <2>2, <2>3, QuietStep
<1> QED
  BY <1>3, <1>4, <1>5

LEMMA DirAcceptKeeps ==
    ASSUME DirInv, NEW c \in Callers, AcceptReview(c) \/ LockDestinations(c)
    PROVE  DirInv'
<1>1. DirTyped /\ OwnOK(c) /\ UNCHANGED <<jobs, folder>>
  BY DEF DirInv, CallersOK, OwnOK, AcceptReview, LockDestinations
<1>2. CASE AcceptReview(c)
  <2>1. PICK j \in Jobs :
          /\ Exists(j) /\ jobs[j].life \in {"reviewing", "executing"} /\ Free(j)
          /\ Take(c, j)
          /\ ctx' = [ctx EXCEPT ![c] = [NoContext EXCEPT !.job = j, !.root = Root(j)]]
    BY <1>2 DEF AcceptReview
  <2>2. Root(j) \in Roots
    BY DirectoryAssumption DEF Root
  <2>3. ASSUME NEW r \in Roots
        PROVE  LET x == [NoContext EXCEPT !.job = j, !.root = r]
               IN x \in Contexts /\ x.job = j /\ x.root = r
    BY DEF NoContext, Contexts
  <2>4. /\ [NoContext EXCEPT !.job = j, !.root = Root(j)] \in Contexts
        /\ [NoContext EXCEPT !.job = j, !.root = Root(j)].job = j
        /\ [NoContext EXCEPT !.job = j, !.root = Root(j)].root = Root(j)
    BY <2>2, <2>3
  <2>5. /\ DirTyped' /\ pc'[c] = "accept" /\ lock'[j] = c /\ Yields(c)
        /\ ctx'[c].job = j /\ ctx'[c].root = Root(j)
    <3> DEFINE x == [NoContext EXCEPT !.job = j, !.root = Root(j)]
    <3>1. x \in Contexts /\ x.job = j /\ x.root = Root(j) /\ ctx' = [ctx EXCEPT ![c] = x]
      BY <2>1, <2>4
    <3> HIDE DEF x
    <3>2. j \in Locks /\ Goto(c, "accept")
      BY <1>2 DEF Locks, AcceptReview
    <3> QED
      BY <1>1, <2>1, <3>1, <3>2, TakeStep, GotoStep DEF DirTyped, Steps, Yields
  <2>6. OwnOK(c)'
    BY <1>1, <2>1, <2>5
       DEF OwnOK, RequestOK, CreatorOK, AcceptorOK, Creating, UnderJob, Running, Exists,
           HoldsLock, Root
  <2> QED
    BY <1>1, <2>5, <2>6, QuietStep
<1>3. CASE LockDestinations(c)
  <2> DEFINE l == <<ctx[c].root, "destinations">>
  <2>1. /\ ctx[c].job \in Jobs /\ Exists(ctx[c].job) /\ ctx[c].root = Root(ctx[c].job)
        /\ lock[ctx[c].job] = c /\ jobs[ctx[c].job].life \in {"reviewing", "executing"}
    BY <1>1, <1>3 DEF LockDestinations, At, OwnOK, AcceptorOK, UnderJob, HoldsLock
  <2>2. l \in Locks /\ Free(l) /\ Take(c, l) /\ Goto(c, "scan") /\ ctx' = ctx
    BY <1>3, <2>1, DirectoryAssumption DEF LockDestinations, Locks, RootLocks, Root
  <2>3. /\ DirTyped' /\ pc'[c] = "scan" /\ lock'[l] = c /\ Yields(c)
        /\ lock'[ctx[c].job] = c
    BY <1>1, <2>1, <2>2, TakeStep, GotoStep DEF DirTyped, Steps, Yields, Locks
  <2>4. OwnOK(c)'
    BY <1>1, <2>1, <2>2, <2>3
       DEF OwnOK, RequestOK, CreatorOK, AcceptorOK, Creating, UnderJob, Running, Exists,
           HoldsLock, Root
  <2> QED
    BY <1>1, <2>3, <2>4, QuietStep
<1> QED
  BY <1>2, <1>3
-----------------------------------------------------------------------------
(* One job file is written. *)

OneWritten(j) ==
    /\ jobs' \in [Jobs -> Files \cup {Nil}]
    /\ \A k \in Jobs \ {j} : jobs'[k] = jobs[k]
    /\ Exists(j)' /\ jobs'[j].key = jobs[j].key /\ jobs'[j].kind = jobs[j].kind

FoldersKept == \A f \in Folders : folder[f] # Nil => folder'[f] = folder[f]

LEMMA FileUpdate ==
    ASSUME NEW x \in Files, NEW life \in FileLives, NEW f \in Folders \cup {Nil}
    PROVE  /\ LET y == [x EXCEPT !.life = life]
              IN /\ y \in Files /\ y.life = life /\ y.key = x.key /\ y.kind = x.kind
                 /\ y.target = x.target
           /\ LET y == [x EXCEPT !.target = f]
              IN /\ y \in Files /\ y.life = x.life /\ y.key = x.key /\ y.kind = x.kind
                 /\ y.target = f
BY DEF Files

LEMMA WriteStep ==
    ASSUME DirTyped, NEW j \in Jobs, Exists(j), NEW life \in FileLives, Write(j, life)
    PROVE  OneWritten(j) /\ jobs'[j].life = life /\ jobs'[j].target = jobs[j].target
<1> DEFINE y == [jobs[j] EXCEPT !.life = life]
<1>1. jobs[j] \in Files /\ Nil \notin Files
  BY DirectoryAssumption DEF DirTyped, Exists
<1>2. /\ y \in Files /\ y.life = life /\ y.key = jobs[j].key /\ y.kind = jobs[j].kind
      /\ y.target = jobs[j].target
  BY <1>1, FileUpdate
<1>3. jobs' = [jobs EXCEPT ![j] = y]
  BY DEF Write
<1> HIDE DEF y
<1> QED
  BY <1>1, <1>2, <1>3 DEF OneWritten, DirTyped, Exists

LEMMA ReviewStep ==
    ASSUME DirTyped, NEW j \in Jobs, Exists(j), OpenReview(j)
    PROVE  /\ OneWritten(j)
           /\ \/ jobs'[j].life = "reviewing" /\ jobs'[j].target \in Folders
              \/ jobs'[j].life = "blocked"
<1>1. CASE Write(j, "blocked")
  BY <1>1, WriteStep DEF FileLives
<1>2. CASE \E f \in Folders :
             jobs' = [jobs EXCEPT ![j].life = "reviewing", ![j].target = f]
  <2>1. PICK f \in Folders :
          jobs' = [jobs EXCEPT ![j].life = "reviewing", ![j].target = f]
    BY <1>2
  <2> DEFINE x == [jobs[j] EXCEPT !.life = "reviewing"]
             y == [x EXCEPT !.target = f]
  <2>2. jobs[j] \in Files /\ Nil \notin Files
    BY DirectoryAssumption DEF DirTyped, Exists
  <2>3. /\ y \in Files /\ y.life = "reviewing" /\ y.key = jobs[j].key
        /\ y.kind = jobs[j].kind /\ y.target = f
    <3>1. x \in Files /\ x.life = "reviewing" /\ x.key = jobs[j].key /\ x.kind = jobs[j].kind
      BY <2>2, FileUpdate DEF FileLives
    <3>2. f \in Folders \cup {Nil} /\ "open" \in FileLives
      BY DEF FileLives
    <3> HIDE DEF x
    <3> QED
      BY <3>1, <3>2, FileUpdate
  <2>4. jobs' = [jobs EXCEPT ![j] = y]
    BY <2>1 DEF DirTyped
  <2> HIDE DEF x, y
  <2> QED
    BY <2>2, <2>3, <2>4 DEF OneWritten, DirTyped, Exists
<1> QED
  BY <1>1, <1>2 DEF OpenReview

\* A file rewritten by whoever holds its job, or by nobody's leave when its lock
\* is free, keeps what all the files say together.
LEMMA FileKeeps ==
    ASSUME DirInv, NEW j \in Jobs, Exists(j), OneWritten(j), FoldersKept,
           jobs'[j].life \in {"reviewing", "executing", "verified"} =>
             jobs'[j].target \in Folders,
           Owns(j)' =>
             \/ Owns(j) /\ jobs'[j].target = jobs[j].target
             \/ \A k \in Jobs \ {j} : Owns(k) /\ Root(k) = Root(j) =>
                   jobs[k].target # jobs'[j].target,
           jobs'[j].life = "verified" => folder'[jobs'[j].target] = j
    PROVE  TargetsNamed' /\ KeysUnique' /\ OwnersUnique' /\ ResultIsOwn'
<1>1. \A k \in Jobs : Exists(k)' => Exists(k)
  BY DEF OneWritten, Exists
<1>2. TargetsNamed'
  BY <1>1 DEF DirInv, TargetsNamed, OneWritten
<1>3. KeysUnique'
  BY <1>1 DEF DirInv, KeysUnique, SameKey, OneWritten, Root
<1>4. OwnersUnique'
  <2>1. \A k \in Jobs \ {j} : (Owns(k)' <=> Owns(k)) /\ jobs'[k].target = jobs[k].target
    BY <1>1 DEF Owns, OneWritten, Exists
  <2> QED
    BY <1>1, <2>1 DEF DirInv, OwnersUnique, Root
<1>5. ResultIsOwn'
  <2>1. ASSUME NEW k \in Jobs \ {j}, Exists(k)', jobs'[k].life = "verified"
        PROVE  folder'[jobs'[k].target] = k
    <3>1. jobs[k].target \in Folders /\ folder[jobs[k].target] = k /\ k # Nil
      BY <1>1, <2>1, DirectoryAssumption DEF DirInv, ResultIsOwn, TargetsNamed, OneWritten
    <3> QED
      BY <2>1, <3>1 DEF FoldersKept, OneWritten
  <2> QED
    BY <2>1 DEF ResultIsOwn
<1> QED
  BY <1>2, <1>3, <1>4, <1>5

LEMMA FileRespects ==
    ASSUME DirInv, NEW c, Yields(c), NEW j \in Jobs, Exists(j), OneWritten(j), FoldersKept,
           lock[j] \notin Callers \ {c},
           Owns(j) => jobs'[j].target = jobs[j].target,
           Owns(j)' /\ ~Owns(j) => HoldsLock(c, <<Root(j), "destinations">>)
    PROVE  Respects(c)
BY DEF Respects, OneWritten, FoldersKept, Exists, Owns

LEMMA HeldJob ==
    ASSUME DirInv, NEW c \in Callers, pc[c] \in UnderJob
    PROVE  /\ ctx[c].job \in Jobs /\ Exists(ctx[c].job)
           /\ ctx[c].root = Root(ctx[c].job) /\ ctx[c].root \in Roots
           /\ lock[ctx[c].job] = c
           /\ jobs[ctx[c].job].life \in {"reviewing", "executing"}
           /\ Target(c) \in Folders
<1>1. /\ ctx[c].job \in Jobs /\ Exists(ctx[c].job)
      /\ ctx[c].root = Root(ctx[c].job)
      /\ lock[ctx[c].job] = c
      /\ jobs[ctx[c].job].life \in {"reviewing", "executing"}
  BY DEF DirInv, CallersOK, AcceptorOK, HoldsLock
<1>2. Root(ctx[c].job) \in Roots
  BY <1>1, DirectoryAssumption DEF Root
<1>3. jobs[ctx[c].job].target \in Folders
  BY <1>1 DEF DirInv, TargetsNamed
<1> QED
  BY <1>1, <1>2, <1>3 DEF Target
-----------------------------------------------------------------------------
(* The steps of a caller under a job's lock. *)

\* The caller writes its own job and leaves.
LEMMA LeaveWriting ==
    ASSUME DirInv, NEW c \in Callers, Leave(c), NEW j \in Jobs, Exists(j), OneWritten(j),
           FoldersKept, folder' \in [Folders -> Jobs \cup {Nil, "stranger"}],
           lock[j] \notin Callers \ {c},
           Owns(j) => jobs'[j].target = jobs[j].target,
           Owns(j)' => Owns(j),
           jobs'[j].life \in {"reviewing", "executing", "verified"} =>
             jobs'[j].target \in Folders,
           jobs'[j].life = "verified" => folder'[jobs'[j].target] = j
    PROVE  DirInv'
<1>1. DirTyped' /\ Yields(c) /\ OwnOK(c)'
  BY LeaveStep DEF DirInv, DirTyped, OneWritten
<1>2. Respects(c)
  BY <1>1, FileRespects
<1>3. TargetsNamed' /\ KeysUnique' /\ OwnersUnique' /\ ResultIsOwn'
  BY FileKeeps
<1> QED
  BY <1>1, <1>2, <1>3, CallersKept DEF DirInv

LEMMA ReleaseStep ==
    ASSUME DirInv, NEW c \in Callers, pc[c] \in {"scan", "authorize"},
           Release(<<ctx[c].root, "destinations">>)
    PROVE  /\ lock' \in [Locks -> Callers \cup {Nil}]
           /\ lock'[ctx[c].job] = c
           /\ \A m \in Locks : \A d \in Callers \ {c} : lock[m] = d => lock'[m] = d
<1>1. /\ ctx[c].job \in Jobs /\ ctx[c].root \in Roots /\ lock[ctx[c].job] = c
  BY HeldJob DEF UnderJob
<1>2. lock[<<ctx[c].root, "destinations">>] = c
  BY DEF DirInv, CallersOK, AcceptorOK, HoldsLock
<1>3. ctx[c].job # <<ctx[c].root, "destinations">> /\ ctx[c].job \in Locks
  BY <1>1, LockNames
<1> QED
  BY <1>1, <1>2, <1>3 DEF Release, DirInv, DirTyped

LEMMA ScanKeeps ==
    ASSUME DirInv, NEW c \in Callers, Scan(c)
    PROVE  DirInv'
<1>1. DirTyped /\ pc[c] = "scan" /\ UNCHANGED <<jobs, folder>>
  BY DEF DirInv, Scan, At
<1>2. /\ ctx[c].job \in Jobs /\ Exists(ctx[c].job) /\ ctx[c].root = Root(ctx[c].job)
      /\ lock[ctx[c].job] = c /\ jobs[ctx[c].job].life \in {"reviewing", "executing"}
  BY <1>1, HeldJob DEF UnderJob
<1>3. CASE Others(c) # {}
  BY <1>1, <1>3, LeaveQuietly DEF Scan
<1>4. CASE Others(c) = {} /\ jobs[ctx[c].job].life = "executing"
  <2>1. Goto(c, "run") /\ Release(<<ctx[c].root, "destinations">>) /\ ctx' = ctx
    BY <1>4 DEF Scan
  <2>2. DirTyped' /\ pc'[c] = "run" /\ lock'[ctx[c].job] = c /\ Yields(c)
    BY <1>1, <2>1, GotoStep, ReleaseStep DEF DirTyped, Steps, Yields
  <2>3. OwnOK(c)'
    BY <1>1, <1>2, <1>4, <2>1, <2>2
       DEF OwnOK, RequestOK, CreatorOK, AcceptorOK, Creating, UnderJob, Running, Exists,
           HoldsLock, Root
  <2> QED
    BY <1>1, <2>2, <2>3, QuietStep
<1>5. CASE Others(c) = {} /\ jobs[ctx[c].job].life # "executing"
  <2>1. Goto(c, "authorize") /\ UNCHANGED <<lock, ctx>>
    BY <1>5 DEF Scan
  <2>2. DirTyped' /\ pc'[c] = "authorize" /\ Yields(c)
    BY <1>1, <2>1, GotoStep DEF DirTyped, Steps, Yields
  <2>3. Others(c)' = {} /\ lock[<<ctx[c].root, "destinations">>] = c
    BY <1>1, <1>5, <2>1
       DEF Others, Owners, Target, Exists, DirInv, CallersOK, AcceptorOK, HoldsLock
  <2>4. OwnOK(c)'
    BY <1>1, <1>2, <1>5, <2>1, <2>2, <2>3
       DEF OwnOK, RequestOK, CreatorOK, AcceptorOK, Creating, UnderJob, Running, Exists,
           HoldsLock, Root
  <2> QED
    BY <1>1, <2>2, <2>4, QuietStep
<1> QED
  BY <1>3, <1>4, <1>5

LEMMA AuthorizeKeeps ==
    ASSUME DirInv, NEW c \in Callers, Authorize(c)
    PROVE  DirInv'
<1>0. PICK j \in Jobs : j = ctx[c].job
  BY HeldJob DEF Authorize, At, UnderJob
<1>1. DirTyped /\ pc[c] = "authorize" /\ folder' = folder
  BY DEF DirInv, Authorize, At
<1>2. /\ j = ctx[c].job /\ Exists(j) /\ ctx[c].root = Root(j) /\ lock[j] = c
      /\ jobs[j].target \in Folders
      /\ Others(c) = {} /\ HoldsLock(c, <<Root(j), "destinations">>)
      /\ jobs[j].life = "reviewing"
  BY <1>0, <1>1, HeldJob DEF UnderJob, DirInv, CallersOK, AcceptorOK, Target
<1>3. CASE folder[Target(c)] # Nil
  BY <1>1, <1>3, LeaveQuietly DEF Authorize
<1>4. CASE folder[Target(c)] = Nil
  <2>1. /\ Write(j, "executing") /\ Goto(c, "run") /\ ctx' = ctx
        /\ Release(<<ctx[c].root, "destinations">>)
    BY <1>2, <1>4 DEF Authorize
  <2>2. OneWritten(j) /\ jobs'[j].life = "executing" /\ jobs'[j].target = jobs[j].target
    BY <1>1, <1>2, <2>1, WriteStep DEF FileLives
  <2>3. DirTyped' /\ pc'[c] = "run" /\ lock'[j] = c /\ Yields(c)
    BY <1>1, <1>2, <2>1, <2>2, GotoStep, ReleaseStep DEF DirTyped, Steps, Yields, OneWritten
  <2>4. FoldersKept
    BY <1>1 DEF FoldersKept
  <2>5. Respects(c)
    BY <1>2, <2>2, <2>3, <2>4, FileRespects
  <2>6. \A k \in Jobs \ {j} : Owns(k) /\ Root(k) = Root(j) => jobs[k].target # jobs[j].target
    BY <1>2 DEF Others, Owners, Owns, Target
  <2>7. TargetsNamed' /\ KeysUnique' /\ OwnersUnique' /\ ResultIsOwn'
    BY <1>2, <2>2, <2>4, <2>6, FileKeeps
  <2>8. OwnOK(c)'
    BY <1>2, <2>1, <2>2, <2>3
       DEF OwnOK, RequestOK, CreatorOK, AcceptorOK, Creating, UnderJob, Running, Exists,
           HoldsLock, Root, OneWritten
  <2> QED
    BY <2>3, <2>5, <2>7, <2>8, CallersKept DEF DirInv
<1> QED
  BY <1>3, <1>4

LEMMA RunKeeps ==
    ASSUME DirInv, NEW c \in Callers,
           RecoverPromoted(c) \/ Copy(c) \/ CopyFails(c) \/ Promote(c) \/ Finish(c)
    PROVE  DirInv'
<1>0. PICK j \in Jobs : j = ctx[c].job
  BY HeldJob DEF RecoverPromoted, Copy, CopyFails, Promote, Finish, At, UnderJob
<1>1. DirTyped /\ pc[c] \in Running /\ pc[c] \in UnderJob
  BY DEF DirInv, RecoverPromoted, Copy, CopyFails, Promote, Finish, At, Running, UnderJob
<1>2. /\ j = ctx[c].job /\ Exists(j) /\ ctx[c].root = Root(j) /\ lock[j] = c
      /\ jobs[j].target \in Folders /\ Target(c) = jobs[j].target
      /\ jobs[j].life = "executing" /\ Owns(j)
  BY <1>0, <1>1, HeldJob DEF DirInv, CallersOK, AcceptorOK, Target, Owns
<1>3. ASSUME NEW life \in {"verified", "blocked"}, Write(j, life), Leave(c), folder' = folder,
             life = "verified" => folder[jobs[j].target] = j
      PROVE  DirInv'
  <2>1. OneWritten(j) /\ jobs'[j].life = life /\ jobs'[j].target = jobs[j].target
    BY <1>1, <1>2, <1>3, WriteStep DEF FileLives
  <2>2. FoldersKept /\ folder' \in [Folders -> Jobs \cup {Nil, "stranger"}]
    BY <1>1, <1>3 DEF FoldersKept, DirTyped
  <2> QED
    BY <1>2, <1>3, <2>1, <2>2, LeaveWriting
<1>4. CASE RecoverPromoted(c)
  BY <1>2, <1>3, <1>4 DEF RecoverPromoted, OwnsResult
<1>5. CASE Copy(c)
  <2>1. DirTyped' /\ pc'[c] = "promote" /\ Yields(c) /\ UNCHANGED <<jobs, folder, lock, ctx>>
    BY <1>1, <1>5, GotoStep DEF DirTyped, Steps, Yields, Copy
  <2>2. OwnOK(c)'
    BY <1>2, <2>1
       DEF OwnOK, RequestOK, CreatorOK, AcceptorOK, Creating, UnderJob, Running, Exists,
           HoldsLock, Root
  <2> QED
    BY <2>1, <2>2, QuietStep
<1>6. CASE CopyFails(c)
  BY <1>2, <1>3, <1>6 DEF CopyFails
<1>7. CASE Promote(c)
  <2>1. CASE folder[Target(c)] # Nil
    BY <1>2, <1>3, <1>7, <2>1 DEF Promote
  <2>2. CASE folder[Target(c)] = Nil
    <3>1. /\ pc[c] = "promote" /\ folder' = [folder EXCEPT ![Target(c)] = j]
          /\ Goto(c, "finish") /\ UNCHANGED <<jobs, lock, ctx>>
      BY <1>2, <1>7, <2>2 DEF Promote, At
    <3>2. /\ DirTyped' /\ pc'[c] = "finish" /\ Yields(c) /\ folder'[Target(c)] = j
          /\ FoldersKept
      BY <1>1, <1>2, <2>2, <3>1, GotoStep DEF DirTyped, Steps, Yields, Target, FoldersKept
    <3>3. OwnOK(c)'
      BY <1>2, <3>1, <3>2
         DEF OwnOK, RequestOK, CreatorOK, AcceptorOK, Creating, UnderJob, Running, Exists,
             HoldsLock, Root, Target
    <3>4. OneWritten(j)
      BY <1>1, <1>2, <3>1 DEF OneWritten, DirTyped, Exists
    <3>5. jobs'[j] = jobs[j] /\ (Owns(j)' <=> Owns(j)) /\ lock[j] \notin Callers \ {c}
      BY <1>2, <3>1 DEF Owns, Exists
    <3>6. Respects(c)
      BY <1>2, <3>2, <3>4, <3>5, FileRespects
    <3>7. TargetsNamed' /\ KeysUnique' /\ OwnersUnique' /\ ResultIsOwn'
      BY <1>2, <3>2, <3>4, <3>5, FileKeeps
    <3> QED
      BY <3>2, <3>3, <3>6, <3>7, CallersKept DEF DirInv
  <2> QED
    BY <2>1, <2>2
<1>8. CASE Finish(c)
  <2>1. folder[jobs[j].target] = j
    BY <1>2, <1>8 DEF Finish, At, DirInv, CallersOK, AcceptorOK, Target
  <2> QED
    BY <1>2, <1>3, <1>8, <2>1 DEF Finish
<1> QED
  BY <1>4, <1>5, <1>6, <1>7, <1>8
-----------------------------------------------------------------------------
(* The steps that create a job, and those nobody holds a lock for. *)

LEMMA SaveNewKeeps ==
    ASSUME DirInv, NEW c \in Callers, SaveNew(c)
    PROVE  DirInv'
<1>1. DirTyped /\ pc[c] = "save" /\ folder' = folder /\ OwnOK(c)
  BY DEF DirInv, SaveNew, At, CallersOK, OwnOK
<1>2. /\ ctx[c].key \in RequestKeys /\ ctx[c].kind \in Kinds /\ ctx[c].root \in Roots
      /\ ctx[c].parent \in Jobs \cup {Nil} /\ ctx[c] \in Contexts
      /\ Found(c) = {}
      /\ IF ctx[c].kind = "child"
           THEN HoldsLock(c, <<ctx[c].root, "children">>)
           ELSE HoldsLock(c, <<ctx[c].root, "create">>)
  BY <1>1 DEF OwnOK, RequestOK, CreatorOK, Creating, DirTyped, Contexts
<1>3. PICK j \in Jobs, life \in {"open", "matching"} :
        /\ ~Exists(j) /\ Root(j) = ctx[c].root
        /\ jobs' = [jobs EXCEPT ![j] = [key |-> ctx[c].key, kind |-> ctx[c].kind,
                      parent |-> ctx[c].parent, life |-> life, target |-> Nil]]
        /\ \/ ctx' = [ctx EXCEPT ![c].job = j] /\ Goto(c, "match") /\ UNCHANGED lock
           \/ Leave(c)
  <2>1. PICK j \in Jobs :
         /\ ~Exists(j) /\ Root(j) = ctx[c].root
         /\ LET file == [key |-> ctx[c].key, kind |-> ctx[c].kind,
                         parent |-> ctx[c].parent, life |-> "open", target |-> Nil]
            IN IF ctx[c].kind = "receiver"
                 THEN /\ jobs' = [jobs EXCEPT ![j] = [file EXCEPT !.life = "matching"]]
                      /\ ctx' = [ctx EXCEPT ![c].job = j]
                      /\ Goto(c, "match") /\ UNCHANGED lock
                 ELSE jobs' = [jobs EXCEPT ![j] = file] /\ Leave(c)
    BY DEF SaveNew
  <2>2. [[key |-> ctx[c].key, kind |-> ctx[c].kind, parent |-> ctx[c].parent,
          life |-> "open", target |-> Nil] EXCEPT !.life = "matching"]
        = [key |-> ctx[c].key, kind |-> ctx[c].kind, parent |-> ctx[c].parent,
           life |-> "matching", target |-> Nil]
    OBVIOUS
  <2> QED
    BY <2>1, <2>2
<1> DEFINE x == [key |-> ctx[c].key, kind |-> ctx[c].kind,
                 parent |-> ctx[c].parent, life |-> life, target |-> Nil]
<1>4. /\ x \in Files /\ x # Nil /\ x.key = ctx[c].key /\ x.kind = ctx[c].kind
      /\ x.life \in {"open", "matching"}
  <2>1. x \in Files
    BY <1>2 DEF Files, FileLives
  <2> QED
    BY <2>1, DirectoryAssumption
<1>5. jobs' = [jobs EXCEPT ![j] = x]
  BY <1>3
<1> HIDE DEF x
<1>6. /\ jobs' \in [Jobs -> Files \cup {Nil}] /\ jobs'[j] = x
      /\ \A k \in Jobs \ {j} : jobs'[k] = jobs[k]
  BY <1>1, <1>4, <1>5 DEF DirTyped
<1>7. DirTyped' /\ Yields(c) /\ OwnOK(c)'
  <2>1. CASE Leave(c)
    BY <1>1, <1>6, <2>1, LeaveStep DEF DirTyped
  <2>2. CASE ctx' = [ctx EXCEPT ![c].job = j] /\ Goto(c, "match") /\ UNCHANGED lock
    <3> DEFINE y == [ctx[c] EXCEPT !.job = j]
    <3>1. y \in Contexts /\ y.job = j
      BY <1>2 DEF Contexts
    <3>2. ctx' = [ctx EXCEPT ![c] = y]
      BY <2>2
    <3> HIDE DEF y
    <3>3. DirTyped' /\ Yields(c) /\ pc'[c] = "match" /\ ctx'[c].job = j
      BY <1>1, <1>6, <2>2, <3>1, <3>2, GotoStep DEF DirTyped, Steps, Yields
    <3> QED
      BY <1>4, <1>6, <3>3
         DEF OwnOK, RequestOK, CreatorOK, AcceptorOK, Creating, UnderJob, Running, Exists
  <2> QED
    BY <1>3, <2>1, <2>2
<1>8. /\ Exists(j)' /\ ~Owns(j)' /\ ~Exists(j) /\ jobs'[j].life \notin {"reviewing", "verified"}
      /\ jobs'[j].life # "executing"
      /\ \A k \in Jobs \ {j} : (Exists(k)' <=> Exists(k)) /\ (Owns(k)' <=> Owns(k))
  BY <1>3, <1>4, <1>6 DEF Exists, Owns
<1>9. Respects(c)
  <2>1. ASSUME NEW k \in Jobs, Exists(k)
        PROVE  k # j /\ jobs'[k] = jobs[k]
    BY <1>6, <1>8, <2>1
  <2>2. ASSUME NEW k \in Jobs, ~Exists(k), Exists(k)'
        PROVE  k = j
    BY <1>8, <2>2
  <2> QED
    BY <1>1, <1>2, <1>3, <1>4, <1>6, <1>7, <1>8, <2>1, <2>2 DEF Respects
<1>10. KeysUnique'
  <2>1. ASSUME NEW k \in Jobs \ {j}, Exists(k)
        PROVE  ~SameKey(j, k)' /\ ~SameKey(k, j)'
    <3>1. k \notin Found(c)
      BY <1>2
    <3> QED
      BY <1>3, <1>4, <1>6, <2>1, <3>1 DEF Found, Holders, SameDomain, SameKey, Root
  <2> QED
    BY <1>6, <1>8, <2>1 DEF DirInv, KeysUnique, SameKey, Root
<1>11. TargetsNamed' /\ OwnersUnique' /\ ResultIsOwn'
  BY <1>1, <1>6, <1>8 DEF DirInv, TargetsNamed, OwnersUnique, ResultIsOwn, Root
<1> QED
  BY <1>7, <1>9, <1>10, <1>11, CallersKept DEF DirInv

\* A plan for review, a block or staleness, of a job that no folder names yet.
LEMMA DirEndKeeps ==
    ASSUME DirInv, NEW j \in Jobs, Exists(j), OneWritten(j), ~Owns(j) \/ ~Owns(j)',
           jobs'[j].life \notin {"executing", "verified"},
           jobs'[j].life = "reviewing" => jobs'[j].target \in Folders,
           Free(j), UNCHANGED <<folder, lock, pc, ctx>>,
           Owns(j) => jobs'[j].target = jobs[j].target
    PROVE  DirInv'
<1>1. DirTyped' /\ Yields(Nil) /\ FoldersKept
  BY DEF DirInv, DirTyped, Yields, OneWritten, FoldersKept
<1>2. lock[j] \notin Callers \ {Nil} /\ ~Owns(j)'
  BY DirectoryAssumption DEF Free, Owns
<1>3. Respects(Nil)
  BY <1>1, <1>2, FileRespects
<1>4. TargetsNamed' /\ KeysUnique' /\ OwnersUnique' /\ ResultIsOwn'
  BY <1>1, <1>2, FileKeeps
<1> QED
  BY <1>1, <1>3, <1>4, CallersKept, DirectoryAssumption DEF DirInv

LEMMA DirPlanKeeps ==
    ASSUME DirInv, NEW j \in Jobs, Plan(j) \/ TurnStale(j)
    PROVE  DirInv'
<1>1. CASE Plan(j)
  <2>1. /\ OneWritten(j)
        /\ \/ jobs'[j].life = "reviewing" /\ jobs'[j].target \in Folders
           \/ jobs'[j].life = "blocked"
    BY <1>1, ReviewStep DEF Plan, DirInv
  <2> QED
    BY <1>1, <2>1, DirEndKeeps DEF Plan, Owns
<1>2. CASE TurnStale(j)
  <2>1. OneWritten(j) /\ jobs'[j].life = "stale" /\ jobs'[j].target = jobs[j].target
    BY <1>2, WriteStep DEF TurnStale, FileLives, DirInv
  <2> QED
    BY <1>2, <2>1, DirEndKeeps DEF TurnStale, Owns
<1> QED
  BY <1>1, <1>2

LEMMA MatchKeeps ==
    ASSUME DirInv, NEW c \in Callers, Match(c)
    PROVE  DirInv'
<1>0. PICK j \in Jobs : j = ctx[c].job
  BY DEF DirInv, Match, At, CallersOK, CreatorOK
<1>1. /\ DirTyped /\ j = ctx[c].job /\ Exists(j) /\ Free(j) /\ Leave(c)
      /\ folder' = folder
  BY <1>0 DEF DirInv, Match, At, CallersOK, CreatorOK
<1>2. CASE jobs[j].life # "matching"
  BY <1>1, <1>2, LeaveQuietly DEF Match
<1>3. CASE jobs[j].life = "matching"
  <2>1. /\ OneWritten(j)
        /\ \/ jobs'[j].life = "reviewing" /\ jobs'[j].target \in Folders
           \/ jobs'[j].life = "blocked"
    BY <1>1, <1>3, ReviewStep DEF Match
  <2>2. /\ FoldersKept /\ folder' \in [Folders -> Jobs \cup {Nil, "stranger"}]
        /\ lock[j] \notin Callers \ {c} /\ ~Owns(j) /\ ~Owns(j)'
    BY <1>1, <1>3, <2>1, DirectoryAssumption DEF FoldersKept, DirTyped, Free, Owns
  <2> QED
    BY <1>1, <2>1, <2>2, LeaveWriting
<1> QED
  BY <1>2, <1>3

LEMMA OccupyKeeps ==
    ASSUME DirInv, NEW f \in Folders, Occupy(f)
    PROVE  DirInv'
<1>1. DirTyped' /\ FoldersKept /\ UNCHANGED <<jobs, lock, pc, ctx>>
  BY DEF DirInv, DirTyped, Occupy, FoldersKept
<1>2. Respects(Nil)
  BY <1>1 DEF Respects, Yields, FoldersKept, Exists, Owns
<1>3. ResultIsOwn'
  <2>1. ASSUME NEW k \in Jobs, Exists(k), jobs[k].life = "verified"
        PROVE  folder'[jobs[k].target] = k
    <3>1. jobs[k].target \in Folders /\ folder[jobs[k].target] = k /\ k # Nil
      BY <2>1, DirectoryAssumption DEF DirInv, TargetsNamed, ResultIsOwn
    <3> QED
      BY <1>1, <3>1 DEF FoldersKept
  <2> QED
    BY <1>1, <2>1 DEF ResultIsOwn, Exists
<1>4. TargetsNamed' /\ KeysUnique' /\ OwnersUnique'
  BY <1>1 DEF DirInv, TargetsNamed, KeysUnique, SameKey, OwnersUnique, Owns, Exists
<1> QED
  BY <1>1, <1>2, <1>3, <1>4, CallersKept, DirectoryAssumption DEF DirInv
-----------------------------------------------------------------------------
LEMMA DirInvInit ==
    ASSUME DirectoryInit
    PROVE  DirInv
<1>1. DirTyped
  <2>1. NoContext \in Contexts
    BY DEF NoContext, Contexts
  <2> QED
    BY <2>1 DEF DirectoryInit, DirTyped, Steps
<1>2. \A j \in Jobs : ~Exists(j)
  BY DEF DirectoryInit, Exists
<1>3. CallersOK
  BY DEF DirectoryInit, CallersOK, RequestOK, CreatorOK, AcceptorOK, Creating, UnderJob, Running
<1> QED
  BY <1>1, <1>2, <1>3 DEF DirInv, TargetsNamed, KeysUnique, OwnersUnique, Owns, ResultIsOwn

LEMMA DirInvNext ==
    ASSUME DirInv, [DirectoryNext]_directory
    PROVE  DirInv'
<1>1. ASSUME NEW c \in Callers, Resolve(c) \/ RefuseParent(c) \/ Stop(c)
      PROVE  DirInv'
  BY <1>1, LeaveQuietly DEF Resolve, RefuseParent, Stop
<1>2. CASE UNCHANGED directory
  BY <1>2
  DEF directory, DirInv, DirTyped, CallersOK, RequestOK, CreatorOK, AcceptorOK, HoldsLock, Found,
              Holders, SameDomain, Others, Owners, Target, Exists, TargetsNamed, KeysUnique,
              SameKey, OwnersUnique, Owns, ResultIsOwn
<1> QED
  BY <1>1, <1>2, AskKeeps, LookKeeps, EnterKeeps, DirAcceptKeeps, ScanKeeps, AuthorizeKeeps,
     RunKeeps, SaveNewKeeps, DirPlanKeeps, MatchKeeps, OccupyKeeps DEF DirectoryNext

LEMMA DirInvAlways == DirectorySpec => []DirInv
BY DirInvInit, DirInvNext, PTL DEF DirectorySpec

LEMMA AtMostOne ==
    ASSUME NEW S, \A x, y \in S : x = y
    PROVE  Cardinality(S) <= 1
<1>1. CASE S = {}
  BY <1>1, FS_EmptySet
<1>2. CASE S # {}
  <2>1. PICK x \in S : S = {x}
    BY <1>2
  <2> QED
    BY <2>1, FS_Singleton
<1> QED
  BY <1>1, <1>2

\* Every variable has its values, and who runs a job holds it.
LEMMA InvTyped == DirInv => DirectoryTypeOK
  BY HeldJob DEF DirInv, DirTyped, DirectoryTypeOK, CallersOK, AcceptorOK, Running, UnderJob

\* Double clicks, retries and several surfaces make one job of a key
\* (create_or_resume_planning_job, create_or_resume_derivative_child).
THEOREM KeysHaveOneJob == DirectorySpec => []OneJobPerKey
<1>1. ASSUME DirInv
      PROVE  OneJobPerKey
  <2>1. ASSUME NEW r \in Roots, NEW key \in RequestKeys, NEW kind \in Kinds
        PROVE  Cardinality(Holders(r, key, kind)) <= 1
    BY <1>1, AtMostOne DEF DirInv, KeysUnique, SameKey, Holders, SameDomain
  <2> QED
    BY <2>1 DEF OneJobPerKey
<1> QED
  BY <1>1, DirInvAlways, PTL

\* A folder has one authorized owner, and a verified job's folder is its own
\* (_require_unique_destination_reservation, _execute_locked).
THEOREM FoldersHaveOneJob == DirectorySpec => []FolderIsOneJobs
<1>1. ASSUME DirInv
      PROVE  FolderIsOneJobs
  <2>1. ASSUME NEW r \in Roots, NEW f \in Folders
        PROVE  Cardinality(Owners(r, f)) <= 1
    BY <1>1, AtMostOne DEF DirInv, OwnersUnique, Owns, Owners
  <2> QED
    BY <1>1, <2>1, InvTyped DEF FolderIsOneJobs, OneOwner, DirInv
<1> QED
  BY <1>1, DirInvAlways, PTL

\* Only a save creates a file, and its caller holds a parent still in review
\* (_require_fresh_derivative_parent under the parent's lock).
LEMMA ChildSaved ==
    ASSUME DirInv, [DirectoryNext]_directory, NEW j \in Jobs, ~Exists(j), jobs'[j] # Nil,
           jobs'[j].parent # Nil
    PROVE  jobs[jobs'[j].parent].life = "reviewing"
<1>1. PICK c \in Callers : SaveNew(c)
  <2>1. ASSUME NEW k \in Jobs, Exists(k), OneWritten(k)
        PROVE  FALSE
    BY <2>1 DEF OneWritten, Exists
  <2>2. ASSUME NEW k \in Jobs, Plan(k) \/ TurnStale(k)
        PROVE  FALSE
    BY <2>1, <2>2, ReviewStep, WriteStep DEF Plan, TurnStale, DirInv, FileLives
  <2>3. ASSUME NEW c \in Callers, Match(c)
        PROVE  FALSE
    BY <2>1, <2>3, ReviewStep DEF Match, At, DirInv, CallersOK, CreatorOK, Exists
  <2>4. ASSUME NEW c \in Callers,
               Authorize(c) \/ RecoverPromoted(c) \/ CopyFails(c) \/ Promote(c) \/ Finish(c)
        PROVE  FALSE
    <3>1. PICK k \in Jobs : k = ctx[c].job
      BY <2>4, HeldJob
         DEF Authorize, RecoverPromoted, CopyFails, Promote, Finish, At, UnderJob
    <3>2. Exists(k) /\ DirTyped
      BY <2>4, <3>1, HeldJob
         DEF Authorize, RecoverPromoted, CopyFails, Promote, Finish, At, UnderJob, DirInv
    <3>3. UNCHANGED jobs \/ \E life \in FileLives : Write(k, life)
      BY <2>4, <3>1 DEF Authorize, RecoverPromoted, CopyFails, Promote, Finish, FileLives
    <3> QED
      BY <2>1, <3>2, <3>3, WriteStep DEF Exists
  <2>5. ~UNCHANGED jobs
    BY DEF Exists
  <2> QED
    BY <2>2, <2>3, <2>4, <2>5
       DEF DirectoryNext, directory, Ask, Resolve, LookMissed, EnterCreation, LockParent, EnterChildren,
           RefuseParent, LookAgain, AcceptReview, LockDestinations, Scan, Copy, Stop, Occupy
<1>2. jobs'[j].parent = ctx[c].parent
  <2>1. PICK k \in Jobs :
          \E x \in {"open", "matching"} :
            jobs' = [jobs EXCEPT ![k] = [key |-> ctx[c].key, kind |-> ctx[c].kind,
                      parent |-> ctx[c].parent, life |-> x, target |-> Nil]]
    BY <1>1 DEF SaveNew
  <2> QED
    BY <2>1 DEF Exists, DirInv, DirTyped
<1>3. ctx[c].kind = "child" /\ jobs[ctx[c].parent].life = "reviewing"
  BY <1>1, <1>2 DEF SaveNew, At, DirInv, CallersOK, RequestOK, CreatorOK, Creating
<1> QED
  BY <1>2, <1>3

\* A child is derived from a review that is still open for decision.
THEOREM ChildrenHaveOpenParents == DirectorySpec => ChildOfOpenReview
<1>1. ASSUME DirInv, [DirectoryNext]_directory
      PROVE  \A j \in Jobs : ~Exists(j) /\ jobs'[j] # Nil /\ jobs'[j].parent # Nil =>
               jobs[jobs'[j].parent].life = "reviewing"
  BY <1>1, ChildSaved
<1> QED
  BY <1>1, DirInvAlways, PTL DEF ChildOfOpenReview, DirectorySpec
-----------------------------------------------------------------------------
(***************************************************************************)
(* Hosted for any keys, calls, texts and limits: each delivered call takes *)
(* effect once, the transcript stays readable, and a revision turn belongs *)
(* to one review.  The history of effective calls is tied to what the      *)
(* record remembers of each (LogOK), which is what a repeated call meets.  *)
(***************************************************************************)

Ops == {"evidence", "ask", "answer", "plan", "revise", "submit", "keep", "accept"}
HostedRequests == [op : Ops, id : Keys \cup Calls \cup Nat \cup {None},
             at : Reviews \cup {None}, body : Texts \cup Verdicts \cup {None}]

HostTyped ==
    /\ job \in Records
    /\ changed \in BOOLEAN /\ shown \subseteq Reviews /\ log \in Seq(HostedRequests)

\* A job that waits for an answer has its question last, and turns start at one.
TranscriptOK ==
    /\ Contiguous
    /\ \A i \in DOMAIN job.events : job.events[i].turn >= 1
    /\ job.life = "awaiting" =>
         job.events # <<>> /\ job.events[Len(job.events)].kind = "question"

\* Revisions only grow: a settled turn's review is older than the preview, and
\* while a turn waits nothing else writes the record.
TurnsOK ==
    /\ job.preview <= job.rev
    /\ (job.life = "revising") <=> (job.pending # None)
    /\ job.pending # None => job.pending.at = Review(job) /\ job.rev = job.preview + 1
    /\ \A i \in DOMAIN job.settled :
         /\ job.settled[i].call = CallId(job.settled[i].at)
         /\ job.settled[i].at.rev < job.preview

Counted ==
    /\ job.attempts = Len(job.settled) + (IF job.pending = None THEN 0 ELSE 1)
    /\ job.attempts <= MaxRevisions
    /\ Cardinality(Submissions) <= MaxSubmissions
    /\ Cardinality(Evidence) <= MaxEvidence

\* What the record remembers of an effective call.
Waits(r) == job.pending # None /\ job.pending = [id |-> r.id, at |-> r.at, body |-> r.body]
SettledAs(r) == \E i \in DOMAIN job.settled :
                  job.settled[i].id = r.id /\ job.settled[i].at = r.at
Remembered(r) ==
    /\ r.op = "evidence" => ~Fresh(r.id, Evidence)
    /\ r.op = "plan" => ~Fresh(r.id, Submissions)
    /\ r.op \in {"ask", "answer"} => r.id \in job.mutations
    /\ r.op = "revise" => Waits(r) \/ SettledAs(r)
    /\ r.op = "submit" => \E i \in DOMAIN job.settled : job.settled[i].call = r.id
    /\ r.op = "keep" => r.id \in job.kept
    /\ r.op = "accept" => job.life \in {"executing", "stale"}

LogOK ==
    /\ \A r \in Range(log) : Remembered(r)
    /\ job.pending # None => \E r \in Reserved : Waits(r)
    /\ \A i \in DOMAIN job.settled : \E r \in Reserved : r.at = job.settled[i].at

HostInv == HostTyped /\ TranscriptOK /\ TurnsOK /\ Counted /\ LogOK /\ EffectOnce
-----------------------------------------------------------------------------
(* The three ways a call ends: the record is stale, it is as it was, or the *)
(* call took effect and is in the history.                                  *)

LEMMA HandleCases ==
    ASSUME NEW r, NEW outcome, Handle(r, outcome)
    PROVE  /\ \/ ~Readable /\ job' = GoStale /\ log' = log
              \/ job' = job /\ log' = log
              \/ Readable /\ outcome # job /\ job' = outcome /\ log' = Append(log, r)
           /\ shown' = IF job'.life \in {"reviewing", "failed"}
                         THEN shown \cup {Review(job')} ELSE shown
           /\ changed' = changed
BY DEF Handle

\* What is shown of a record is a review.
LEMMA ShownTyped ==
    ASSUME HostTyped, job' \in Records, log' \in Seq(HostedRequests), changed' \in BOOLEAN,
           shown' = IF job'.life \in {"reviewing", "failed"}
                      THEN shown \cup {Review(job')} ELSE shown
    PROVE  HostTyped'
<1>1. Review(job') \in Reviews
  BY DEF Review, Reviews, Records
<1> QED BY <1>1 DEF HostTyped

\* Nothing but the reviews on display and the inputs changed.
LEMMA SameRecord ==
    ASSUME HostInv, job' = job, log' = log, HostTyped'
    PROVE  HostInv'
<1>1. TranscriptOK'
  BY DEF HostInv, TranscriptOK, Contiguous, IsSubmission, OpensTurn
<1>2. TurnsOK'
  BY DEF HostInv, TurnsOK, Review, CallId
<1>3. Counted'
  BY DEF HostInv, Counted, Submissions, Evidence, EventsOf
<1>4. LogOK'
  BY DEF HostInv, LogOK, Remembered, Waits, SettledAs, Fresh, Evidence, Submissions,
         EventsOf, Reserved
<1>5. EffectOnce'
  BY DEF HostInv, EffectOnce
<1> QED BY <1>1, <1>2, <1>3, <1>4, <1>5 DEF HostInv

\* The record goes stale.
LEMMA StaleKeeps ==
    ASSUME HostInv, ~Readable, job' = GoStale, log' = log,
           shown' = IF job'.life \in {"reviewing", "failed"}
                      THEN shown \cup {Review(job')} ELSE shown,
           changed' = changed
    PROVE  HostInv'
<1>1. CASE job.life = "revising"
  <2>1. job' = job
    BY <1>1 DEF GoStale
  <2>2. HostTyped'
    BY <2>1, ShownTyped DEF HostInv, HostTyped
  <2> QED BY <2>1, <2>2, SameRecord
<1>2. CASE job.life # "revising"
  <2>1. job' = [job EXCEPT !.life = "stale", !.rev = @ + 1]
    BY <1>2 DEF GoStale
  <2>2. job \in Records
    BY DEF HostInv, HostTyped
  <2> DEFINE next == job.rev + 1
  <2>n. next \in Nat
    BY <2>2 DEF Records
  <2>s. job' = [job EXCEPT !.life = "stale", !.rev = next]
    BY <2>1
  <2> HIDE DEF next
  <2>3. job' \in Records
    BY <2>s, <2>n, <2>2 DEF Records, Lives
  <2>4. /\ job'.life = "stale" /\ job'.rev = next
        /\ job'.events = job.events /\ job'.turns = job.turns
        /\ job'.preview = job.preview /\ job'.candidate = job.candidate
        /\ job'.attempts = job.attempts /\ job'.pending = job.pending
        /\ job'.settled = job.settled /\ job'.mutations = job.mutations
        /\ job'.kept = job.kept
    BY <2>s, <2>2 DEF Records
  <2> USE DEF next
  <2>5. job.rev \in Nat /\ job.preview \in Nat
    BY <2>2 DEF Records
  <2>6. HostTyped'
    BY <2>3, ShownTyped DEF HostInv, HostTyped
  <2>7. TranscriptOK'
    BY <2>4 DEF HostInv, TranscriptOK, Contiguous, IsSubmission, OpensTurn
  <2>8. TurnsOK'
    BY <2>4, <2>5, <1>2 DEF HostInv, TurnsOK, Review, CallId
  <2>9. Counted'
    BY <2>4 DEF HostInv, Counted, Submissions, Evidence, EventsOf
  <2>10. LogOK'
    BY <2>4 DEF HostInv, LogOK, Remembered, Waits, SettledAs, Fresh, Evidence,
                Submissions, EventsOf, Reserved
  <2>11. EffectOnce'
    BY DEF HostInv, EffectOnce
  <2> QED BY <2>6, <2>7, <2>8, <2>9, <2>10, <2>11 DEF HostInv
<1> QED BY <1>1, <1>2
-----------------------------------------------------------------------------
(* A call that took effect. *)

\* The history with one more call.
LEMMA LogGrows ==
    ASSUME log \in Seq(HostedRequests), NEW r \in HostedRequests, log' = Append(log, r)
    PROVE  /\ log' \in Seq(HostedRequests)
           /\ Range(log') = Range(log) \cup {r}
           /\ Range(log) \subseteq HostedRequests
           /\ Reserved' = Reserved \cup {q \in {r} : q.op = "revise"}
<1>1. log' \in Seq(HostedRequests) /\ Len(log') = Len(log) + 1 /\ log'[Len(log) + 1] = r
  BY AppendProperties
<1>2. \A i \in 1..Len(log) : log'[i] = log[i]
  BY AppendProperties
<1>3. DOMAIN log = 1..Len(log) /\ DOMAIN log' = 1..(Len(log) + 1) /\ Len(log) \in Nat
  BY <1>1
<1>4. Range(log') = Range(log) \cup {r}
  <2>1. ASSUME NEW q \in Range(log') PROVE q \in Range(log) \cup {r}
    <3>1. PICK i \in 1..(Len(log) + 1) : q = log'[i]
      BY <1>3 DEF Range
    <3>2. CASE i = Len(log) + 1
      BY <3>1, <3>2, <1>1
    <3>3. CASE i \in 1..Len(log)
      BY <3>1, <3>3, <1>2, <1>3 DEF Range
    <3> QED BY <3>1, <3>2, <3>3, <1>3
  <2>2. ASSUME NEW q \in Range(log) PROVE q \in Range(log')
    <3>1. PICK i \in 1..Len(log) : q = log[i]
      BY <1>3 DEF Range
    <3>2. q = log'[i] /\ i \in DOMAIN log'
      BY <3>1, <1>2, <1>3
    <3> QED BY <3>2 DEF Range
  <2>3. r \in Range(log')
    BY <1>1, <1>3 DEF Range
  <2> QED BY <2>1, <2>2, <2>3
<1>5. Range(log) \subseteq HostedRequests
  BY <1>3 DEF Range
<1>6. Reserved' = Reserved \cup {q \in {r} : q.op = "revise"}
  BY <1>4 DEF Reserved
<1> QED BY <1>1, <1>4, <1>5, <1>6

\* A call no earlier call of its kind and identifier precedes is once in it.
LEMMA OnceMore ==
    ASSUME EffectOnce, log \in Seq(HostedRequests), NEW r \in HostedRequests,
           log' = Append(log, r),
           \A q \in Range(log) : q.op = r.op => q.id # r.id
    PROVE  EffectOnce'
<1>1. Len(log') = Len(log) + 1 /\ log'[Len(log) + 1] = r /\ log' \in Seq(HostedRequests)
  BY AppendProperties
<1>2. \A i \in 1..Len(log) : log'[i] = log[i]
  BY AppendProperties
<1>3. DOMAIN log = 1..Len(log) /\ DOMAIN log' = 1..(Len(log) + 1) /\ Len(log) \in Nat
  BY <1>1
<1>4. \A i \in 1..Len(log) : log[i].op # r.op \/ log[i].id # r.id
  BY <1>3 DEF Range
<1>5. ASSUME NEW i \in DOMAIN log', NEW j \in DOMAIN log', i # j
      PROVE  log'[i].op # log'[j].op \/ log'[i].id # log'[j].id
  <2>1. CASE i \in 1..Len(log) /\ j \in 1..Len(log)
    BY <2>1, <1>2, <1>3, <1>5 DEF EffectOnce
  <2>2. CASE i = Len(log) + 1
    <3>1. j \in 1..Len(log)
      BY <2>2, <1>3, <1>5
    <3> QED BY <3>1, <2>2, <1>1, <1>2, <1>4
  <2>3. CASE j = Len(log) + 1
    <3>1. i \in 1..Len(log)
      BY <2>3, <1>3, <1>5
    <3> QED BY <3>1, <2>3, <1>1, <1>2, <1>4
  <2> QED BY <2>1, <2>2, <2>3, <1>3
<1> QED BY <1>5 DEF EffectOnce

\* The transcript with one more event.
LEMMA EventAdded ==
    ASSUME HostTyped, TranscriptOK, NEW e \in Events,
           job' \in Records, job'.events = Append(job.events, e),
           job'.turns = (IF job.turns > e.turn THEN job.turns ELSE e.turn),
           \/ e.turn = NextTurn(job.turns, job.events)
           \/ e.kind = "answer" /\ e.turn = AnswerTurn(job.turns) /\ job.life = "awaiting"
    PROVE  /\ Contiguous'
           /\ \A i \in DOMAIN job'.events : job'.events[i].turn >= 1
           /\ job'.events # <<>> /\ job'.events[Len(job'.events)] = e
<1>1. job.events \in Seq(Events) /\ job.turns \in Nat
  BY DEF HostTyped, Records
<1> DEFINE n == Len(job.events)
<1>2. /\ Len(job'.events) = n + 1 /\ job'.events[n + 1] = e
      /\ job'.events \in Seq(Events) /\ job'.events # <<>>
  BY <1>1, AppendProperties
<1>3. \A i \in 1..n : job'.events[i] = job.events[i]
  BY <1>1, AppendProperties
<1>4. n \in Nat /\ DOMAIN job.events = 1..n /\ DOMAIN job'.events = 1..(n + 1)
  BY <1>1, <1>2
<1>5. e.turn \in Nat
  BY DEF Events
<1>6. CASE job.events = <<>>
  <2>1. n = 0 /\ job.turns = 0
    BY <1>6 DEF TranscriptOK, Contiguous
  <2>2. e.turn = 1
    BY <2>1, <1>6 DEF NextTurn, SameTurn, AnswerTurn, TranscriptOK
  <2>3. Contiguous'
    BY <2>1, <2>2, <1>2 DEF Contiguous
  <2> QED BY <2>1, <2>2, <2>3, <1>2, <1>4
<1>7. CASE job.events # <<>>
  <2>1. n >= 1 /\ job.turns = job.events[n].turn /\ job.events[1].turn = 1
    BY <1>7, <1>1, <1>4, EmptySeq DEF TranscriptOK, Contiguous
  <2>2. job.turns >= 1
    BY <2>1, <1>4 DEF TranscriptOK
  <2>3. \/ e.turn = job.turns + 1 /\ OpensTurn(job.events[n], e)
        \/ e.turn = job.turns /\ ~IsSubmission(job.events[n])
    <3>1. CASE e.kind = "answer" /\ e.turn = AnswerTurn(job.turns) /\ job.life = "awaiting"
      BY <3>1 DEF AnswerTurn, OpensTurn, TranscriptOK
    <3>2. CASE e.turn = NextTurn(job.turns, job.events) /\ IsSubmission(job.events[n])
      BY <3>2, <1>7 DEF NextTurn, OpensTurn, Last
    <3>3. CASE e.turn = NextTurn(job.turns, job.events) /\ ~IsSubmission(job.events[n])
      <4>1. e.turn = SameTurn(job.turns, job.events)
        BY <3>3, <1>7 DEF NextTurn, Last
      <4>2. e.turn = job.turns
        BY <4>1, <2>2, <1>1 DEF SameTurn
      <4> QED BY <4>2, <3>3
    <3> QED BY <3>1, <3>2, <3>3
  <2>4. job'.turns = e.turn
    BY <2>3, <1>1, <1>5
  <2>5. job'.events[1].turn = 1
    BY <2>1, <1>3, <1>4
  <2>6. ASSUME NEW i \in 1..n
        PROVE  LET before == job'.events[i]
                   after == job'.events[i + 1]
               IN IF after.turn = before.turn + 1 THEN OpensTurn(before, after)
                  ELSE after.turn = before.turn /\ ~IsSubmission(before)
    <3>1. CASE i \in 1..(n - 1)
      <4>1. job'.events[i] = job.events[i] /\ job'.events[i + 1] = job.events[i + 1]
        BY <3>1, <1>3, <1>4
      <4> QED BY <4>1, <3>1 DEF TranscriptOK, Contiguous
    <3>2. CASE i = n
      BY <3>2, <1>1, <1>2, <1>3, <2>1, <2>3
    <3> QED BY <3>1, <3>2, <1>4
  <2>7. Contiguous'
    <3>1. Len(job'.events) - 1 = n
      BY <1>2, <1>4
    <3> HIDE DEF n
    <3> QED BY <3>1, <2>4, <2>5, <2>6, <1>2
               DEF Contiguous, OpensTurn, IsSubmission
  <2>8. \A i \in DOMAIN job'.events : job'.events[i].turn >= 1
    <3>1. e.turn >= 1
      BY <2>2, <2>3, <1>1, <1>5
    <3> QED BY <3>1, <1>2, <1>3, <1>4 DEF TranscriptOK
  <2> QED BY <2>7, <2>8, <1>2
<1> QED BY <1>6, <1>7

\* The positions of a kind's events, and the identifiers found there.
LEMMA PositionsGrow ==
    ASSUME HostTyped, NEW e \in Events,
           job' \in Records, job'.events = Append(job.events, e), NEW kinds
    PROVE  /\ EventsOf(kinds)' = EventsOf(kinds)
                  \cup (IF e.kind \in kinds THEN {Len(job.events) + 1} ELSE {})
           /\ IsFiniteSet(EventsOf(kinds))
           /\ Cardinality(EventsOf(kinds)') =
                 Cardinality(EventsOf(kinds)) + (IF e.kind \in kinds THEN 1 ELSE 0)
           /\ \A id : ~Fresh(id, EventsOf(kinds)) => ~Fresh(id, EventsOf(kinds))'
           /\ e.kind \in kinds => ~Fresh(e.id, EventsOf(kinds))'
<1>1. job.events \in Seq(Events)
  BY DEF HostTyped, Records
<1> DEFINE n == Len(job.events)
<1>2. /\ Len(job'.events) = n + 1 /\ job'.events[n + 1] = e
      /\ job'.events \in Seq(Events)
  BY <1>1, AppendProperties
<1>3. \A i \in 1..n : job'.events[i] = job.events[i]
  BY <1>1, AppendProperties
<1>4. n \in Nat /\ DOMAIN job.events = 1..n /\ DOMAIN job'.events = 1..(n + 1)
  BY <1>1, <1>2
<1> HIDE DEF n
<1>5. EventsOf(kinds)' = EventsOf(kinds) \cup (IF e.kind \in kinds THEN {n + 1} ELSE {})
  BY <1>2, <1>3, <1>4 DEF EventsOf
<1>6. IsFiniteSet(EventsOf(kinds)) /\ n + 1 \notin EventsOf(kinds)
  <2>1. IsFiniteSet(1..n)
    BY <1>4, FS_Interval
  <2>2. EventsOf(kinds) \subseteq 1..n
    BY <1>4 DEF EventsOf
  <2> QED BY <2>1, <2>2, <1>4, FS_Subset
<1>7. Cardinality(EventsOf(kinds)') =
         Cardinality(EventsOf(kinds)) + (IF e.kind \in kinds THEN 1 ELSE 0)
  <2>1. Cardinality(EventsOf(kinds)) \in Nat
    BY <1>6, FS_CardinalityType
  <2>2. CASE e.kind \in kinds
    <3>1. EventsOf(kinds)' = EventsOf(kinds) \cup {n + 1}
      BY <1>5, <2>2
    <3>2. Cardinality(EventsOf(kinds) \cup {n + 1}) = Cardinality(EventsOf(kinds)) + 1
      BY <1>6, FS_AddElement
    <3> QED BY <2>2, <3>1, <3>2
  <2>3. CASE e.kind \notin kinds
    BY <2>3, <2>1, <1>5
  <2> QED BY <2>2, <2>3
<1>8. ASSUME NEW id, ~Fresh(id, EventsOf(kinds)) PROVE ~Fresh(id, EventsOf(kinds))'
  <2>1. PICK i \in EventsOf(kinds) : job.events[i].id = id
    BY <1>8 DEF Fresh
  <2>2. i \in 1..n
    BY <1>4 DEF EventsOf
  <2>3. i \in EventsOf(kinds)' /\ job'.events[i].id = id
    BY <2>1, <2>2, <1>3, <1>5
  <2> QED BY <2>3 DEF Fresh
<1>9. e.kind \in kinds => ~Fresh(e.id, EventsOf(kinds))'
  BY <1>2, <1>5 DEF Fresh
<1> QED BY <1>5, <1>6, <1>7, <1>8, <1>9 DEF n

\* A settled turn's review, its preview and its call are numbers.
LEMMA SettledTyped ==
    ASSUME HostTyped
    PROVE  /\ job.settled \in Seq(Settled)
           /\ \A i \in DOMAIN job.settled :
                /\ job.settled[i] \in Settled /\ job.settled[i].at \in Reviews
                /\ job.settled[i].at.rev \in Nat
           /\ job.rev \in Nat /\ job.preview \in Nat /\ job.candidate \in Nat
           /\ job.attempts \in Nat /\ Len(job.settled) \in Nat
<1>1. job.settled \in Seq(Settled) /\ job \in Records
  BY DEF HostTyped, Records
<1>2. job.rev \in Nat /\ job.preview \in Nat /\ job.candidate \in Nat /\ job.attempts \in Nat
  BY <1>1 DEF Records
<1>3. \A i \in DOMAIN job.settled : job.settled[i] \in Settled
  BY <1>1
<1>4. \A i \in DOMAIN job.settled :
        job.settled[i].at \in Reviews /\ job.settled[i].at.rev \in Nat
  BY <1>3 DEF Settled, Reviews
<1> QED BY <1>1, <1>2, <1>3, <1>4

\* A call of an earlier kind and identifier is remembered, so a new one is new.
LEMMA EventCall ==
    ASSUME HostedAssumption, HostInv, NEW e \in Events, NEW r \in HostedRequests,
           job' \in Records, job'.events = Append(job.events, e),
           job'.turns = (IF job.turns > e.turn THEN job.turns ELSE e.turn),
           \/ e.turn = NextTurn(job.turns, job.events)
           \/ e.kind = "answer" /\ e.turn = AnswerTurn(job.turns) /\ job.life = "awaiting",
           job.life \in {"planning", "awaiting"},
           job'.life \in {"planning", "awaiting", "blocked", "reviewing"},
           job'.life = "awaiting" => e.kind = "question",
           job'.rev = job.rev + 1, job'.preview \in {job.preview, job.rev + 1},
           job'.candidate = job.candidate, job'.attempts = job.attempts,
           job'.pending = job.pending, job'.settled = job.settled,
           job'.kept = job.kept, job.mutations \subseteq job'.mutations,
           log' = Append(log, r), changed' = changed,
           shown' = IF job'.life \in {"reviewing", "failed"}
                      THEN shown \cup {Review(job')} ELSE shown,
           \/ /\ r.op = "evidence" /\ e.kind = "evidence" /\ r.id = e.id
              /\ Fresh(r.id, Evidence) /\ Cardinality(Evidence) < MaxEvidence
           \/ /\ r.op = "plan" /\ e.kind \in {"accepted", "rejected"} /\ r.id = e.id
              /\ Fresh(r.id, Submissions) /\ Cardinality(Submissions) < MaxSubmissions
           \/ /\ r.op \in {"ask", "answer"} /\ e.kind \in {"question", "answer"}
              /\ r.id \notin job.mutations /\ r.id \in job'.mutations
    PROVE  HostInv'
<1>1. HostTyped /\ TranscriptOK /\ TurnsOK /\ Counted /\ LogOK /\ EffectOnce
  BY DEF HostInv
<1>2. log \in Seq(HostedRequests) /\ changed \in BOOLEAN
  BY <1>1 DEF HostTyped
<1>3. /\ log' \in Seq(HostedRequests) /\ Range(log') = Range(log) \cup {r}
      /\ Reserved' = Reserved \cup {q \in {r} : q.op = "revise"}
  BY <1>2, LogGrows
<1>4. HostTyped'
  BY <1>1, <1>2, <1>3, ShownTyped
<1>5. TranscriptOK'
  <2>1. /\ Contiguous'
        /\ \A i \in DOMAIN job'.events : job'.events[i].turn >= 1
        /\ job'.events # <<>> /\ job'.events[Len(job'.events)] = e
    BY <1>1, EventAdded
  <2> QED BY <2>1 DEF TranscriptOK
<1>6. job.rev \in Nat /\ job.preview \in Nat /\ job.pending = None
  BY <1>1 DEF HostTyped, Records, TurnsOK
<1>7. TurnsOK'
  <2>1. job'.preview <= job'.rev /\ job.preview <= job'.preview
    BY <1>1, <1>6 DEF TurnsOK
  <2>2. ASSUME NEW i \in DOMAIN job.settled
        PROVE  /\ job.settled[i].call = CallId(job.settled[i].at)
               /\ job.settled[i].at.rev < job'.preview
    <3>1. job.settled[i].at.rev \in Nat
      BY <1>1, SettledTyped
    <3>2. job'.preview \in Nat
      BY <1>6
    <3> QED BY <3>1, <3>2, <1>1, <1>6, <2>1 DEF TurnsOK
  <2>3. job'.life # "revising" /\ job'.pending = None
    BY <1>6
  <2> QED BY <2>1, <2>2, <2>3 DEF TurnsOK, CallId
<1>8. /\ Evidence' = Evidence \cup (IF e.kind = "evidence" THEN {Len(job.events) + 1} ELSE {})
      /\ Cardinality(Evidence') = Cardinality(Evidence) + (IF e.kind = "evidence" THEN 1 ELSE 0)
      /\ Cardinality(Evidence) \in Nat
      /\ \A id : ~Fresh(id, Evidence) => ~Fresh(id, Evidence)'
      /\ e.kind = "evidence" => ~Fresh(e.id, Evidence)'
  BY <1>1, PositionsGrow, FS_CardinalityType DEF Evidence
<1>9. /\ Cardinality(Submissions') = Cardinality(Submissions)
           + (IF e.kind \in {"accepted", "rejected"} THEN 1 ELSE 0)
      /\ Cardinality(Submissions) \in Nat
      /\ \A id : ~Fresh(id, Submissions) => ~Fresh(id, Submissions)'
      /\ e.kind \in {"accepted", "rejected"} => ~Fresh(e.id, Submissions)'
  BY <1>1, PositionsGrow, FS_CardinalityType DEF Submissions
<1>10. Counted'
  <2>1. MaxEvidence \in Nat /\ MaxSubmissions \in Nat
    BY DEF HostedAssumption
  <2>2. Cardinality(Evidence') <= MaxEvidence
    BY <1>1, <1>8, <2>1 DEF Counted
  <2>3. Cardinality(Submissions') <= MaxSubmissions
    BY <1>1, <1>9, <2>1 DEF Counted
  <2> QED BY <1>1, <2>2, <2>3 DEF Counted
<1>11. LogOK'
  <2>1. ASSUME NEW q \in Range(log) PROVE Remembered(q)'
    <3>1. Remembered(q)
      BY <1>1 DEF LogOK
    <3>2. q.op # "accept"
      BY <3>1 DEF Remembered
    <3>3. /\ q.op = "evidence" => ~Fresh(q.id, Evidence)'
          /\ q.op = "plan" => ~Fresh(q.id, Submissions)'
      BY <3>1, <1>8, <1>9 DEF Remembered
    <3> QED BY <3>1, <3>2, <3>3 DEF Remembered, Waits, SettledAs
  <2>2. Remembered(r)'
    BY <1>8, <1>9 DEF Remembered
  <2>3. \A i \in DOMAIN job'.settled : \E q \in Reserved' : q.at = job'.settled[i].at
    BY <1>1, <1>3 DEF LogOK
  <2> QED BY <2>1, <2>2, <2>3, <1>3, <1>6 DEF LogOK
<1>12. EffectOnce'
  <2>1. ASSUME NEW q \in Range(log), q.op = r.op PROVE q.id # r.id
    <3>1. Remembered(q)
      BY <1>1 DEF LogOK
    <3> QED BY <2>1, <3>1 DEF Remembered
  <2> QED BY <2>1, <1>1, <1>2, OnceMore
<1> QED BY <1>4, <1>5, <1>7, <1>10, <1>11, <1>12 DEF HostInv

\* What one more event makes of the record.
LEMMA EventRecord ==
    ASSUME HostTyped, NEW kind, NEW turn \in Nat, NEW id \in Keys \cup Calls,
           kind \in {"evidence", "question", "answer", "accepted", "rejected"}
    PROVE  LET e == [kind |-> kind, turn |-> turn, id |-> id]
               after == WithEvent(kind, turn, id)
           IN /\ e \in Events /\ e.kind = kind /\ e.turn = turn /\ e.id = id
              /\ after \in Records
              /\ after.events = Append(job.events, e)
              /\ after.turns = (IF job.turns > e.turn THEN job.turns ELSE e.turn)
              /\ after.rev = job.rev + 1 /\ after.life = job.life
              /\ after.preview = job.preview /\ after.candidate = job.candidate
              /\ after.attempts = job.attempts /\ after.pending = job.pending
              /\ after.settled = job.settled /\ after.kept = job.kept
              /\ after.mutations = job.mutations
<1> DEFINE e == [kind |-> kind, turn |-> turn, id |-> id]
           count == IF job.turns > turn THEN job.turns ELSE turn
           next == job.rev + 1
           events == Append(job.events, e)
<1>1. job \in Records
  BY DEF HostTyped
<1>2. e \in Events /\ e.kind = kind /\ e.turn = turn /\ e.id = id
  BY DEF Events
<1>3. job.events \in Seq(Events) /\ job.rev \in Nat /\ job.turns \in Nat
  BY <1>1 DEF Records
<1> HIDE DEF e
<1>4. events \in Seq(Events)
  BY <1>2, <1>3, AppendProperties
<1>5. next \in Nat /\ count \in Nat
  BY <1>3
<1>6. WithEvent(kind, turn, id) =
        [job EXCEPT !.rev = next, !.turns = count, !.events = events]
  BY DEF WithEvent, e
<1> HIDE DEF events, next, count
<1> DEFINE a == [job EXCEPT !.rev = next]
           b == [a EXCEPT !.turns = count]
           c == [b EXCEPT !.events = events]
<1>7. /\ a \in Records /\ a.rev = next /\ a.events = job.events /\ a.life = job.life
      /\ a.preview = job.preview /\ a.candidate = job.candidate
      /\ a.attempts = job.attempts /\ a.pending = job.pending
      /\ a.settled = job.settled /\ a.kept = job.kept /\ a.mutations = job.mutations
  BY <1>1, <1>5 DEF Records
<1>8. WithEvent(kind, turn, id) = c
  BY <1>6
<1> HIDE DEF a
<1>9. /\ b \in Records /\ b.rev = next /\ b.turns = count /\ b.life = job.life
      /\ b.preview = job.preview /\ b.candidate = job.candidate
      /\ b.attempts = job.attempts /\ b.pending = job.pending
      /\ b.settled = job.settled /\ b.kept = job.kept /\ b.mutations = job.mutations
  BY <1>7, <1>5 DEF Records
<1> HIDE DEF b
<1>10. /\ c \in Records /\ c.rev = next /\ c.turns = count /\ c.life = job.life
       /\ c.events = events
       /\ c.preview = job.preview /\ c.candidate = job.candidate
       /\ c.attempts = job.attempts /\ c.pending = job.pending
       /\ c.settled = job.settled /\ c.kept = job.kept /\ c.mutations = job.mutations
  BY <1>9, <1>4 DEF Records
<1> QED BY <1>2, <1>8, <1>10 DEF events, next, count, e
-----------------------------------------------------------------------------
(* The calls. *)

\* Only a call that takes effect has to be looked at.
LEMMA HostCallKeeps ==
    ASSUME HostInv, NEW r, NEW outcome, Handle(r, outcome),
           /\ Readable /\ outcome # job /\ job' = outcome /\ log' = Append(log, r)
           /\ shown' = IF job'.life \in {"reviewing", "failed"}
                         THEN shown \cup {Review(job')} ELSE shown
           /\ changed' = changed
           => HostInv'
    PROVE  HostInv'
<1>1. /\ shown' = IF job'.life \in {"reviewing", "failed"}
                    THEN shown \cup {Review(job')} ELSE shown
      /\ changed' = changed
  BY HandleCases
<1>2. CASE ~Readable /\ job' = GoStale /\ log' = log
  BY <1>1, <1>2, StaleKeeps
<1>3. CASE job' = job /\ log' = log
  <2>1. HostTyped'
    BY <1>1, <1>3, ShownTyped DEF HostInv, HostTyped
  <2> QED BY <1>3, <2>1, SameRecord
<1>4. CASE Readable /\ outcome # job /\ job' = outcome /\ log' = Append(log, r)
  BY <1>1, <1>4
<1> QED BY <1>2, <1>3, <1>4, HandleCases

LEMMA TurnTyped ==
    ASSUME HostTyped
    PROVE  /\ NextTurn(job.turns, job.events) \in Nat
           /\ AnswerTurn(job.turns) \in Nat
<1>1. job.turns \in Nat
  BY DEF HostTyped, Records
<1> QED BY <1>1 DEF NextTurn, SameTurn, AnswerTurn

LEMMA EvidenceKeeps ==
    ASSUME HostedAssumption, HostInv, NEW id \in Calls, EvidenceCall(id)
    PROVE  HostInv'
<1> DEFINE r == Request("evidence", id, None, None)
           turn == NextTurn(job.turns, job.events)
           e == [kind |-> "evidence", turn |-> turn, id |-> id]
           after == WithEvent("evidence", turn, id)
           allowed == /\ Fresh(id, Evidence)
                      /\ job.life = "planning"
                      /\ Cardinality(Evidence) < MaxEvidence
           outcome == IF allowed THEN after ELSE job
<1>1. Handle(r, outcome)
  BY DEF EvidenceCall
<1>2. HostTyped
  BY DEF HostInv
<1>3. turn \in Nat
  BY <1>2, TurnTyped
<1>4. r \in HostedRequests /\ r.op = "evidence" /\ r.id = id
  BY DEF Request, HostedRequests, Ops
<1> HIDE DEF turn, r
<1>5. /\ e \in Events /\ e.kind = "evidence" /\ e.turn = turn /\ e.id = id
      /\ after \in Records
      /\ after.events = Append(job.events, e)
      /\ after.turns = (IF job.turns > e.turn THEN job.turns ELSE e.turn)
      /\ after.rev = job.rev + 1 /\ after.life = job.life
      /\ after.preview = job.preview /\ after.candidate = job.candidate
      /\ after.attempts = job.attempts /\ after.pending = job.pending
      /\ after.settled = job.settled /\ after.kept = job.kept
      /\ after.mutations = job.mutations
  BY <1>2, <1>3, EventRecord
<1> HIDE DEF e, after
<1>6. ASSUME outcome # job, job' = outcome, log' = Append(log, r), changed' = changed,
             shown' = IF job'.life \in {"reviewing", "failed"}
                        THEN shown \cup {Review(job')} ELSE shown
      PROVE  HostInv'
  <2>1. allowed /\ job' = after
    BY <1>6
  <2>2. job'.life = "planning"
    BY <2>1, <1>5
  <2> QED BY <1>4, <1>5, <1>6, <2>1, <2>2, EventCall DEF turn
<1> QED BY <1>1, <1>6, HostCallKeeps

LEMMA ClarificationKeeps ==
    ASSUME HostedAssumption, HostInv, NEW id \in Keys, NEW at \in Int, RequestClarification(id, at)
    PROVE  HostInv'
<1> DEFINE r == Request("ask", id, None, None)
           turn == NextTurn(job.turns, job.events)
           e == [kind |-> "question", turn |-> turn, id |-> id]
           after == WithEvent("question", turn, id)
           next == [after EXCEPT !.life = "awaiting", !.mutations = @ \cup {id}]
           allowed == /\ id \notin job.mutations
                      /\ at = job.rev
                      /\ EventsOf({"question"}) = {}
                      /\ job.life = "planning"
           outcome == IF allowed THEN next ELSE job
<1>1. Handle(r, outcome)
  BY DEF RequestClarification
<1>2. HostTyped
  BY DEF HostInv
<1>3. turn \in Nat
  BY <1>2, TurnTyped
<1>4. r \in HostedRequests /\ r.op = "ask" /\ r.id = id
  BY DEF Request, HostedRequests, Ops
<1>t. turn = NextTurn(job.turns, job.events)
  OBVIOUS
<1> HIDE DEF turn, r
<1>5. /\ e \in Events /\ e.kind = "question" /\ e.turn = turn /\ e.id = id
      /\ after \in Records
      /\ after.events = Append(job.events, e)
      /\ after.turns = (IF job.turns > e.turn THEN job.turns ELSE e.turn)
      /\ after.rev = job.rev + 1 /\ after.life = job.life
      /\ after.preview = job.preview /\ after.candidate = job.candidate
      /\ after.attempts = job.attempts /\ after.pending = job.pending
      /\ after.settled = job.settled /\ after.kept = job.kept
      /\ after.mutations = job.mutations
  BY <1>2, <1>3, EventRecord
<1> HIDE DEF e, after
<1>6. /\ next \in Records /\ next.life = "awaiting"
      /\ next.mutations = after.mutations \cup {id}
      /\ next.events = after.events /\ next.turns = after.turns /\ next.rev = after.rev
      /\ next.preview = after.preview /\ next.candidate = after.candidate
      /\ next.attempts = after.attempts /\ next.pending = after.pending
      /\ next.settled = after.settled /\ next.kept = after.kept
  BY <1>5 DEF Records, Lives
<1> HIDE DEF next
<1>7. ASSUME outcome # job, job' = outcome, log' = Append(log, r), changed' = changed,
             shown' = IF job'.life \in {"reviewing", "failed"}
                        THEN shown \cup {Review(job')} ELSE shown
      PROVE  HostInv'
  <2>1. allowed /\ job' = next
    BY <1>7
  <2>2. job'.life = "awaiting" /\ r.id \in job'.mutations /\ r.id \notin job.mutations
        /\ job.mutations \subseteq job'.mutations
    BY <2>1, <1>4, <1>5, <1>6
  <2> QED BY <1>4, <1>5, <1>6, <1>7, <1>t, <2>1, <2>2, EventCall
<1> QED BY <1>1, <1>7, HostCallKeeps

LEMMA AnswerKeeps ==
    ASSUME HostedAssumption, HostInv, NEW id \in Keys, NEW at \in Int, AnswerClarification(id, at)
    PROVE  HostInv'
<1> DEFINE r == Request("answer", id, None, None)
           turn == AnswerTurn(job.turns)
           e == [kind |-> "answer", turn |-> turn, id |-> id]
           after == WithEvent("answer", turn, id)
           next == [after EXCEPT !.life = "planning", !.mutations = @ \cup {id}]
           allowed == /\ id \notin job.mutations
                      /\ at = job.rev
                      /\ EventsOf({"answer"}) = {}
                      /\ job.life = "awaiting"
           outcome == IF allowed THEN next ELSE job
<1>1. Handle(r, outcome)
  BY DEF AnswerClarification
<1>2. HostTyped
  BY DEF HostInv
<1>3. turn \in Nat
  BY <1>2, TurnTyped
<1>4. r \in HostedRequests /\ r.op = "answer" /\ r.id = id
  BY DEF Request, HostedRequests, Ops
<1>t. turn = AnswerTurn(job.turns)
  OBVIOUS
<1> HIDE DEF turn, r
<1>5. /\ e \in Events /\ e.kind = "answer" /\ e.turn = turn /\ e.id = id
      /\ after \in Records
      /\ after.events = Append(job.events, e)
      /\ after.turns = (IF job.turns > e.turn THEN job.turns ELSE e.turn)
      /\ after.rev = job.rev + 1 /\ after.life = job.life
      /\ after.preview = job.preview /\ after.candidate = job.candidate
      /\ after.attempts = job.attempts /\ after.pending = job.pending
      /\ after.settled = job.settled /\ after.kept = job.kept
      /\ after.mutations = job.mutations
  BY <1>2, <1>3, EventRecord
<1> HIDE DEF e, after
<1>6. /\ next \in Records /\ next.life = "planning"
      /\ next.mutations = after.mutations \cup {id}
      /\ next.events = after.events /\ next.turns = after.turns /\ next.rev = after.rev
      /\ next.preview = after.preview /\ next.candidate = after.candidate
      /\ next.attempts = after.attempts /\ next.pending = after.pending
      /\ next.settled = after.settled /\ next.kept = after.kept
  BY <1>5 DEF Records, Lives
<1> HIDE DEF next
<1>7. ASSUME outcome # job, job' = outcome, log' = Append(log, r), changed' = changed,
             shown' = IF job'.life \in {"reviewing", "failed"}
                        THEN shown \cup {Review(job')} ELSE shown
      PROVE  HostInv'
  <2>1. allowed /\ job' = next
    BY <1>7
  <2>2. job'.life = "planning" /\ r.id \in job'.mutations /\ r.id \notin job.mutations
        /\ job.mutations \subseteq job'.mutations
    BY <2>1, <1>4, <1>5, <1>6
  <2> QED BY <1>4, <1>5, <1>6, <1>7, <1>t, <2>1, <2>2, EventCall
<1> QED BY <1>1, <1>7, HostCallKeeps

LEMMA HostPlanKeeps ==
    ASSUME HostedAssumption, HostInv, NEW id \in Calls, NEW verdict \in Verdicts,
           SubmitPlan(id, verdict)
    PROVE  HostInv'
<1> DEFINE r == Request("plan", id, None, verdict)
           turn == NextTurn(job.turns, job.events)
           allowed == /\ Fresh(id, Submissions)
                      /\ job.life = "planning"
                      /\ Cardinality(Submissions) < MaxSubmissions
           outcome == IF ~allowed THEN job
                      ELSE IF verdict = "good" THEN Accepted(id) ELSE Rejected(id)
<1>1. Handle(r, outcome)
  BY DEF SubmitPlan
<1>2. HostTyped /\ job.rev \in Nat
  BY DEF HostInv, HostTyped, Records
<1>3. turn \in Nat
  BY <1>2, TurnTyped
<1>4. r \in HostedRequests /\ r.op = "plan" /\ r.id = id
  BY DEF Request, HostedRequests, Ops
<1> HIDE DEF r
<1>5. ASSUME outcome # job, job' = outcome, log' = Append(log, r), changed' = changed,
             shown' = IF job'.life \in {"reviewing", "failed"}
                        THEN shown \cup {Review(job')} ELSE shown
      PROVE  HostInv'
  <2>1. allowed /\ job' \in {Accepted(id), Rejected(id)}
    BY <1>5
  <2>2. CASE job' = Accepted(id)
    <3> DEFINE e == [kind |-> "accepted", turn |-> turn, id |-> id]
               after == WithEvent("accepted", turn, id)
               preview == job.rev + 1
    <3>1. job' = [after EXCEPT !.life = "reviewing", !.preview = preview]
      BY <2>2 DEF Accepted
    <3>2. preview \in Nat
      BY <1>2
    <3>t. turn = NextTurn(job.turns, job.events)
      OBVIOUS
    <3> HIDE DEF turn
    <3>3. /\ e \in Events /\ e.kind = "accepted" /\ e.turn = turn /\ e.id = id
          /\ after \in Records
          /\ after.events = Append(job.events, e)
          /\ after.turns = (IF job.turns > e.turn THEN job.turns ELSE e.turn)
          /\ after.rev = job.rev + 1 /\ after.life = job.life
          /\ after.preview = job.preview /\ after.candidate = job.candidate
          /\ after.attempts = job.attempts /\ after.pending = job.pending
          /\ after.settled = job.settled /\ after.kept = job.kept
          /\ after.mutations = job.mutations
      BY <1>2, <1>3, EventRecord
    <3> HIDE DEF e, after, preview
    <3>4. /\ job' \in Records /\ job'.life = "reviewing" /\ job'.preview = preview
          /\ job'.mutations = after.mutations
          /\ job'.events = after.events /\ job'.turns = after.turns /\ job'.rev = after.rev
          /\ job'.candidate = after.candidate
          /\ job'.attempts = after.attempts /\ job'.pending = after.pending
          /\ job'.settled = after.settled /\ job'.kept = after.kept
      BY <3>1, <3>2, <3>3 DEF Records, Lives
    <3> QED BY <1>4, <1>5, <2>1, <3>t, <3>3, <3>4, EventCall DEF preview
  <2>3. CASE job' = Rejected(id)
    <3> DEFINE e == [kind |-> "rejected", turn |-> turn, id |-> id]
               after == WithEvent("rejected", turn, id)
               life == IF Cardinality(Submissions) + 1 = MaxSubmissions
                         THEN "blocked" ELSE after.life
    <3>1. job' = [after EXCEPT !.life = life]
      BY <2>3 DEF Rejected
    <3>t. turn = NextTurn(job.turns, job.events)
      OBVIOUS
    <3> HIDE DEF turn
    <3>3. /\ e \in Events /\ e.kind = "rejected" /\ e.turn = turn /\ e.id = id
          /\ after \in Records
          /\ after.events = Append(job.events, e)
          /\ after.turns = (IF job.turns > e.turn THEN job.turns ELSE e.turn)
          /\ after.rev = job.rev + 1 /\ after.life = job.life
          /\ after.preview = job.preview /\ after.candidate = job.candidate
          /\ after.attempts = job.attempts /\ after.pending = job.pending
          /\ after.settled = job.settled /\ after.kept = job.kept
          /\ after.mutations = job.mutations
      BY <1>2, <1>3, EventRecord
    <3>2. life \in {"planning", "blocked"}
      BY <2>1, <3>3
    <3> HIDE DEF e, after, life
    <3>4. /\ job' \in Records /\ job'.life = life /\ job'.preview = after.preview
          /\ job'.mutations = after.mutations
          /\ job'.events = after.events /\ job'.turns = after.turns /\ job'.rev = after.rev
          /\ job'.candidate = after.candidate
          /\ job'.attempts = after.attempts /\ job'.pending = after.pending
          /\ job'.settled = after.settled /\ job'.kept = after.kept
      BY <3>1, <3>2, <3>3 DEF Records, Lives
    <3> QED BY <1>4, <1>5, <2>1, <3>t, <3>2, <3>3, <3>4, EventCall
  <2> QED BY <2>1, <2>2, <2>3
<1> QED BY <1>1, <1>5, HostCallKeeps

\* A call that adds no event leaves the transcript and what is found in it.
LEMMA SameTranscript ==
    ASSUME TranscriptOK, job'.events = job.events, job'.turns = job.turns,
           job'.life # "awaiting"
    PROVE  /\ TranscriptOK'
           /\ Evidence' = Evidence /\ Submissions' = Submissions
           /\ \A id : ~Fresh(id, Evidence) => ~Fresh(id, Evidence)'
           /\ \A id : ~Fresh(id, Submissions) => ~Fresh(id, Submissions)'
<1>1. TranscriptOK'
  BY DEF TranscriptOK, Contiguous, IsSubmission, OpensTurn
<1>2. Evidence' = Evidence /\ Submissions' = Submissions
  BY DEF Evidence, Submissions, EventsOf
<1> QED BY <1>1, <1>2 DEF Fresh

\* A turn is reserved: the record it waits in keeps the review it came from.
LEMMA RevisionBegins ==
    ASSUME HostedAssumption, HostInv, NEW id \in Keys, NEW at \in shown, NEW body \in Texts,
           BeginRevision(id, at, body)
    PROVE  HostInv'
<1> DEFINE r == Request("revise", id, at, body)
           allowed == /\ job.life \in {"reviewing", "failed"}
                      /\ job.attempts < MaxRevisions
                      /\ Exact(at)
           waits == [id |-> id, at |-> at, body |-> body]
           rev == job.rev + 1
           count == job.attempts + 1
           next == [job EXCEPT !.life = "revising", !.rev = rev, !.attempts = count,
                               !.pending = waits]
           outcome == IF allowed THEN next ELSE job
<1>1. Handle(r, outcome) /\ ~Bound(id)
  BY DEF BeginRevision
<1>2. /\ HostTyped /\ TranscriptOK /\ TurnsOK /\ Counted /\ LogOK /\ EffectOnce
      /\ log \in Seq(HostedRequests) /\ changed \in BOOLEAN /\ job \in Records
      /\ at \in Reviews /\ MaxRevisions \in Nat
  BY DEF HostInv, HostTyped, HostedAssumption
<1>3. /\ r \in HostedRequests /\ r.op = "revise" /\ r.id = id /\ r.at = at /\ r.body = body
  BY <1>2 DEF Request, HostedRequests, Ops
<1>4. /\ waits \in Reservations /\ waits # None /\ waits.id = id /\ waits.at = at
      /\ waits = [id |-> r.id, at |-> r.at, body |-> r.body]
  BY <1>2, <1>3 DEF Reservations, HostedAssumption
<1>5. rev \in Nat /\ count \in Nat
  BY <1>2, SettledTyped
<1> HIDE DEF r, waits, rev, count
<1> DEFINE a == [job EXCEPT !.life = "revising", !.rev = rev]
<1>6. /\ a \in Records /\ a.life = "revising" /\ a.rev = rev
      /\ a.events = job.events /\ a.turns = job.turns
      /\ a.preview = job.preview /\ a.candidate = job.candidate
      /\ a.settled = job.settled /\ a.kept = job.kept /\ a.mutations = job.mutations
  BY <1>2, <1>5 DEF Records, Lives
<1>7. next = [a EXCEPT !.attempts = count, !.pending = waits]
  OBVIOUS
<1> HIDE DEF a, next
<1>8. /\ next \in Records /\ next.life = "revising" /\ next.rev = rev
      /\ next.attempts = count /\ next.pending = waits
      /\ next.events = job.events /\ next.turns = job.turns
      /\ next.preview = job.preview /\ next.candidate = job.candidate
      /\ next.settled = job.settled /\ next.kept = job.kept
      /\ next.mutations = job.mutations
  BY <1>4, <1>5, <1>6, <1>7 DEF Records
<1>9. ASSUME outcome # job, job' = outcome, log' = Append(log, r), changed' = changed,
             shown' = IF job'.life \in {"reviewing", "failed"}
                        THEN shown \cup {Review(job')} ELSE shown
      PROVE  HostInv'
  <2>1. allowed /\ job' = next
    BY <1>9
  <2>2. /\ log' \in Seq(HostedRequests) /\ Range(log') = Range(log) \cup {r}
        /\ Reserved' = Reserved \cup {q \in {r} : q.op = "revise"}
    BY <1>2, <1>3, <1>9, LogGrows
  <2>3. HostTyped'
    BY <1>2, <1>8, <1>9, <2>1, <2>2, ShownTyped
  <2>4. /\ TranscriptOK' /\ Evidence' = Evidence /\ Submissions' = Submissions
        /\ \A x : ~Fresh(x, Evidence) => ~Fresh(x, Evidence)'
        /\ \A x : ~Fresh(x, Submissions) => ~Fresh(x, Submissions)'
    BY <1>2, <1>8, <2>1, SameTranscript
  <2>5. job.pending = None /\ at = Review(job) /\ at.rev = job.rev
    BY <1>2, <2>1 DEF TurnsOK, Exact
  <2>6. job.preview = job.rev
    BY <2>5 DEF Review
  <2>7. TurnsOK'
    <3>1. job'.pending.at = Review(job)'
      BY <1>4, <1>8, <2>1, <2>5 DEF Review
    <3>2. job'.rev = job'.preview + 1 /\ job'.preview <= job'.rev
      BY <1>8, <2>1, <2>6, <1>2, SettledTyped DEF rev
    <3>3. \A i \in DOMAIN job'.settled :
            /\ job'.settled[i].call = CallId(job'.settled[i].at)
            /\ job'.settled[i].at.rev < job'.preview
      BY <1>2, <1>8, <2>1 DEF TurnsOK
    <3> QED BY <3>1, <3>2, <3>3, <1>4, <1>8, <2>1 DEF TurnsOK, CallId
  <2>8. Counted'
    <3>1. job.attempts = Len(job.settled) /\ job.attempts < MaxRevisions
      BY <1>2, <2>1, <2>5, SettledTyped DEF Counted
    <3>2. job'.attempts = Len(job'.settled) + 1 /\ job'.attempts <= MaxRevisions
      <4>1. job'.settled = job.settled /\ job'.attempts = job.attempts + 1
        BY <1>8, <2>1 DEF count
      <4>2. job.attempts \in Nat /\ MaxRevisions \in Nat
        BY <1>2, SettledTyped
      <4> QED BY <3>1, <4>1, <4>2
    <3>3. job'.pending # None
      BY <1>4, <1>8, <2>1
    <3> QED BY <3>2, <3>3, <2>4, <1>2 DEF Counted
  <2>9. LogOK'
    <3>1. ASSUME NEW q \in Range(log) PROVE Remembered(q)'
      <4>1. Remembered(q)
        BY <1>2 DEF LogOK
      <4>2. q.op # "accept"
        BY <4>1, <2>1 DEF Remembered
      <4>3. q.op = "revise" => SettledAs(q)'
        BY <4>1, <2>5, <1>8, <2>1 DEF Remembered, Waits, SettledAs
      <4> QED BY <4>1, <4>2, <4>3, <2>4, <1>8, <2>1 DEF Remembered
    <3>2. Waits(r)'
      BY <1>4, <1>8, <2>1 DEF Waits
    <3>3. Remembered(r)'
      BY <3>2, <1>3 DEF Remembered
    <3>4. r \in Reserved'
      BY <2>2, <1>3
    <3>5. \A i \in DOMAIN job'.settled : \E q \in Reserved' : q.at = job'.settled[i].at
      BY <1>2, <1>8, <2>1, <2>2 DEF LogOK
    <3> QED BY <3>1, <3>2, <3>3, <3>4, <3>5, <2>2 DEF LogOK
  <2>10. EffectOnce'
    <3>1. ASSUME NEW q \in Range(log), q.op = "revise" PROVE q.id # id
      <4>1. SettledAs(q)
        BY <3>1, <1>2, <2>5 DEF LogOK, Remembered, Waits
      <4> QED BY <4>1, <1>1 DEF SettledAs, Bound
    <3> QED BY <3>1, <1>2, <1>3, <1>9, OnceMore
  <2> QED BY <2>3, <2>4, <2>7, <2>8, <2>9, <2>10 DEF HostInv
<1> QED BY <1>1, <1>9, HostCallKeeps

\* The turn a submission names is the one that waits, unless it is settled.
LEMMA SubmissionsTurn ==
    ASSUME HostInv, NEW q \in Reserved, ~Recorded(q.at)
    PROVE  /\ job.pending # None /\ q.at = job.pending.at
           /\ q.at = Review(job) /\ q.at \in Reviews /\ job.life = "revising"
<1>1. HostTyped /\ TurnsOK /\ LogOK /\ q.op = "revise" /\ q \in Range(log)
  BY DEF HostInv, Reserved
<1>2. Waits(q) \/ SettledAs(q)
  BY <1>1 DEF LogOK, Remembered
<1>3. ~SettledAs(q)
  BY <1>1 DEF SettledAs, Recorded, TurnsOK
<1>4. job.pending # None /\ q.at = job.pending.at
  BY <1>2, <1>3 DEF Waits
<1>5. job.pending \in Reservations
  BY <1>1, <1>4 DEF HostTyped, Records
<1>6. q.at \in Reviews
  BY <1>4, <1>5 DEF Reservations
<1> QED BY <1>1, <1>4, <1>6 DEF TurnsOK

\* A turn is settled: its submission is recorded and a younger preview shown.
LEMMA RevisionSettles ==
    ASSUME HostedAssumption, HostInv, NEW q \in Reserved, NEW verdict \in Verdicts,
           SubmitRevision(q.at, verdict)
    PROVE  HostInv'
<1>1. ~Recorded(q.at)
  BY DEF SubmitRevision
<1> DEFINE at == q.at
<1>2. /\ job.pending # None /\ at = job.pending.at /\ at = Review(job)
      /\ at \in Reviews /\ job.life = "revising"
  BY <1>1, SubmissionsTurn
<1>3. /\ HostTyped /\ TranscriptOK /\ TurnsOK /\ Counted /\ LogOK /\ EffectOnce
      /\ log \in Seq(HostedRequests) /\ changed \in BOOLEAN /\ job \in Records
      /\ job.pending \in Reservations /\ q \in Range(log) /\ q.op = "revise"
  BY <1>2 DEF HostInv, HostTyped, Records, Reserved
<1> DEFINE r == Request("submit", CallId(at), at, verdict)
           rev == job.rev + 1
           turn(o) == [id |-> job.pending.id, at |-> job.pending.at,
                       body |-> job.pending.body, call |-> CallId(at), outcome |-> o]
           settled(o) == [job EXCEPT !.rev = @ + 1, !.preview = job.rev + 1,
                                     !.pending = None, !.settled = Settle(at, o)]
           compiled == verdict = "good" /\ at.candidate = job.candidate
           outcome == IF job.life # "revising" THEN job
                      ELSE IF compiled
                        THEN [settled("replaced") EXCEPT !.life = "reviewing",
                                                         !.candidate = @ + 1]
                        ELSE [settled("rejected") EXCEPT !.life = "failed"]
<1>4. Handle(r, outcome)
  BY DEF SubmitRevision
<1>5. CallId(at) \in Nat /\ rev \in Nat
  BY <1>2, <1>3, SettledTyped DEF CallId, Reviews
<1>6. r \in HostedRequests /\ r.op = "submit" /\ r.id = CallId(at)
  BY <1>2, <1>5 DEF Request, HostedRequests, Ops
<1>7. \A o \in {"replaced", "rejected"} :
        /\ turn(o) \in Settled /\ turn(o).at = at /\ turn(o).call = CallId(at)
        /\ turn(o).id = job.pending.id
  BY <1>2, <1>3, <1>5 DEF Settled, Reservations
<1>8. \A o : Settle(at, o) = Append(job.settled, turn(o))
  BY DEF Settle
<1> HIDE DEF r, rev, turn
<1>9. \A o \in {"replaced", "rejected"} :
        /\ settled(o) \in Records /\ settled(o).rev = rev /\ settled(o).preview = rev
        /\ settled(o).pending = None /\ settled(o).settled = Append(job.settled, turn(o))
        /\ settled(o).events = job.events /\ settled(o).turns = job.turns
        /\ settled(o).candidate = job.candidate /\ settled(o).attempts = job.attempts
        /\ settled(o).kept = job.kept /\ settled(o).mutations = job.mutations
  <2> TAKE o \in {"replaced", "rejected"}
  <2> DEFINE all == Append(job.settled, turn(o))
             a == [job EXCEPT !.rev = rev, !.preview = rev]
  <2>1. all \in Seq(Settled)
    BY <1>3, <1>7, SettledTyped, AppendProperties
  <2>2. settled(o) = [a EXCEPT !.pending = None, !.settled = all]
    BY <1>8 DEF rev
  <2> HIDE DEF all
  <2>3. /\ a \in Records /\ a.rev = rev /\ a.preview = rev
        /\ a.events = job.events /\ a.turns = job.turns
        /\ a.candidate = job.candidate /\ a.attempts = job.attempts
        /\ a.kept = job.kept /\ a.mutations = job.mutations
    BY <1>3, <1>5 DEF Records
  <2> HIDE DEF a
  <2> DEFINE b == [a EXCEPT !.pending = None, !.settled = all]
  <2>4. /\ b \in Records /\ b.rev = rev /\ b.preview = rev
        /\ b.pending = None /\ b.settled = all
        /\ b.events = job.events /\ b.turns = job.turns
        /\ b.candidate = job.candidate /\ b.attempts = job.attempts
        /\ b.kept = job.kept /\ b.mutations = job.mutations
    BY <2>1, <2>3 DEF Records
  <2> QED BY <2>2, <2>4 DEF all
<1> HIDE DEF settled
<1>10. PICK o \in {"replaced", "rejected"}, life \in {"reviewing", "failed"},
             candidate \in Nat :
         outcome = [settled(o) EXCEPT !.life = life, !.candidate = candidate]
  <2>1. CASE compiled
    <3>1. outcome = [settled("replaced") EXCEPT !.life = "reviewing", !.candidate = @ + 1]
      BY <2>1, <1>2
    <3>2. settled("replaced").candidate + 1 \in Nat
      BY <1>9, <1>3, SettledTyped
    <3> QED BY <3>1, <3>2
  <2>2. CASE ~compiled
    <3>1. outcome = [settled("rejected") EXCEPT !.life = "failed"]
      BY <2>2, <1>2
    <3> DEFINE c == settled("rejected").candidate
    <3>2. settled("rejected") \in Records /\ c \in Nat
      BY <1>9, <1>3, SettledTyped
    <3>3. outcome = [settled("rejected") EXCEPT !.life = "failed", !.candidate = c]
      BY <3>1, <3>2 DEF Records
    <3> QED BY <3>2, <3>3
  <2> QED BY <2>1, <2>2
<1>11. ASSUME job' = outcome, log' = Append(log, r), changed' = changed,
             shown' = IF job'.life \in {"reviewing", "failed"}
                        THEN shown \cup {Review(job')} ELSE shown
       PROVE  HostInv'
  <2> DEFINE n == Len(job.settled)
  <2>1. /\ job' \in Records /\ job'.life = life /\ job'.rev = rev /\ job'.preview = rev
        /\ job'.pending = None /\ job'.settled = Append(job.settled, turn(o))
        /\ job'.events = job.events /\ job'.turns = job.turns
        /\ job'.attempts = job.attempts
        /\ job'.kept = job.kept /\ job'.mutations = job.mutations
    <3> DEFINE base == settled(o)
    <3>1. /\ base \in Records /\ base.rev = rev /\ base.preview = rev
          /\ base.pending = None /\ base.settled = Append(job.settled, turn(o))
          /\ base.events = job.events /\ base.turns = job.turns
          /\ base.attempts = job.attempts
          /\ base.kept = job.kept /\ base.mutations = job.mutations
      BY <1>9
    <3>2. job' = [base EXCEPT !.life = life, !.candidate = candidate]
      BY <1>10, <1>11
    <3>3. life \in Lives /\ candidate \in Nat
      BY <1>10 DEF Lives
    <3> HIDE DEF base
    <3> QED BY <3>1, <3>2, <3>3 DEF Records
  <2>2. /\ Len(job'.settled) = n + 1 /\ job'.settled[n + 1] = turn(o) /\ n \in Nat
        /\ \A i \in 1..n : job'.settled[i] = job.settled[i]
        /\ DOMAIN job.settled = 1..n /\ DOMAIN job'.settled = 1..(n + 1)
    <3>1. turn(o) \in Settled /\ job.settled \in Seq(Settled)
      BY <1>3, <1>7, SettledTyped
    <3>2. Append(job.settled, turn(o)) \in Seq(Settled)
      BY <3>1, AppendProperties
    <3> QED BY <3>1, <3>2, <2>1, AppendProperties
  <2> HIDE DEF n
  <2>3. /\ log' \in Seq(HostedRequests) /\ Range(log') = Range(log) \cup {r}
        /\ Reserved' = Reserved \cup {p \in {r} : p.op = "revise"}
    BY <1>3, <1>6, <1>11, LogGrows
  <2>4. HostTyped'
    BY <1>3, <1>11, <2>1, <2>3, ShownTyped
  <2>5. /\ TranscriptOK' /\ Evidence' = Evidence /\ Submissions' = Submissions
        /\ \A x : ~Fresh(x, Evidence) => ~Fresh(x, Evidence)'
        /\ \A x : ~Fresh(x, Submissions) => ~Fresh(x, Submissions)'
    BY <1>3, <2>1, SameTranscript
  <2>6. TurnsOK'
    <3>1. job.preview < job'.preview /\ job'.preview <= job'.rev /\ at.rev = job.preview
      BY <1>2, <1>3, <2>1, SettledTyped DEF TurnsOK, Review, rev
    <3>2. ASSUME NEW i \in DOMAIN job'.settled
          PROVE  /\ job'.settled[i].call = CallId(job'.settled[i].at)
                 /\ job'.settled[i].at.rev < job'.preview
      <4>1. CASE i = n + 1
        BY <4>1, <1>7, <2>2, <3>1
      <4>2. CASE i \in 1..n
        <5>1. /\ job.settled[i].call = CallId(job.settled[i].at)
              /\ job.settled[i].at.rev < job.preview /\ job.settled[i].at.rev \in Nat
          BY <4>2, <1>3, <2>2, SettledTyped DEF TurnsOK
        <5>2. job.preview \in Nat /\ job'.preview \in Nat
          BY <1>3, <1>5, <2>1, SettledTyped
        <5> QED BY <4>2, <5>1, <5>2, <3>1, <2>2
      <4> QED BY <4>1, <4>2, <2>2
    <3> QED BY <3>1, <3>2, <2>1 DEF TurnsOK, CallId
  <2>7. Counted'
    <3>1. job.attempts = n + 1 /\ job.attempts <= MaxRevisions
      BY <1>2, <1>3 DEF Counted, n
    <3>2. job'.attempts = Len(job'.settled) + 0 /\ job'.attempts <= MaxRevisions
      BY <3>1, <2>1, <2>2
    <3> QED BY <3>2, <1>3, <2>1, <2>5 DEF Counted
  <2>8. \A p : SettledAs(p) => SettledAs(p)'
    BY <2>2 DEF SettledAs
  <2>9. \A p : Waits(p) => SettledAs(p)'
    <3> TAKE p
    <3>1. HAVE Waits(p)
    <3>2. p.id = job.pending.id /\ p.at = job.pending.at
      BY <3>1 DEF Waits
    <3> QED BY <3>2, <1>2, <1>7, <2>2 DEF SettledAs
  <2>10. LogOK'
    <3>1. ASSUME NEW p \in Range(log) PROVE Remembered(p)'
      <4>1. Remembered(p)
        BY <1>3 DEF LogOK
      <4>2. p.op # "accept"
        BY <4>1, <1>2 DEF Remembered
      <4>3. p.op = "revise" => SettledAs(p)'
        BY <4>1, <2>8, <2>9 DEF Remembered
      <4>4. p.op = "submit" => \E i \in DOMAIN job'.settled : job'.settled[i].call = p.id
        BY <4>1, <2>2 DEF Remembered
      <4> QED BY <4>1, <4>2, <4>3, <4>4, <2>1, <2>5 DEF Remembered
    <3>2. Remembered(r)'
      <4>1. job'.settled[n + 1].call = r.id
        BY <1>6, <1>7, <2>2
      <4> QED BY <4>1, <1>6, <2>2 DEF Remembered
    <3>3. ASSUME NEW i \in DOMAIN job'.settled
          PROVE  \E p \in Reserved' : p.at = job'.settled[i].at
      <4>1. CASE i = n + 1
        BY <4>1, <1>2, <1>7, <2>2, <2>3
      <4>2. CASE i \in 1..n
        BY <4>2, <1>3, <2>2, <2>3 DEF LogOK
      <4> QED BY <4>1, <4>2, <2>2
    <3> QED BY <3>1, <3>2, <3>3, <2>1, <2>3 DEF LogOK
  <2>11. EffectOnce'
    <3>1. ASSUME NEW p \in Range(log), p.op = r.op PROVE p.id # r.id
      <4>1. Remembered(p)
        BY <1>3 DEF LogOK
      <4> QED BY <3>1, <4>1, <1>1, <1>6 DEF Remembered, Recorded
    <3> QED BY <3>1, <1>3, <1>6, <1>11, OnceMore
  <2> QED BY <2>4, <2>5, <2>6, <2>7, <2>10, <2>11 DEF HostInv
<1> QED BY <1>4, <1>11, HostCallKeeps

\* A failed revision is dismissed.
LEMMA KeepKeeps ==
    ASSUME HostedAssumption, HostInv, NEW id \in Keys, NEW at \in shown,
           KeepPrevious(id, at)
    PROVE  HostInv'
<1> DEFINE r == Request("keep", id, at, None)
           allowed == id \notin job.kept /\ job.life = "failed" /\ Exact(at)
           rev == job.rev + 1
           next == [job EXCEPT !.life = "reviewing", !.rev = @ + 1,
                               !.preview = job.rev + 1, !.kept = @ \cup {id}]
           outcome == IF allowed THEN next ELSE job
<1>1. Handle(r, outcome)
  BY DEF KeepPrevious
<1>2. /\ HostTyped /\ TranscriptOK /\ TurnsOK /\ Counted /\ LogOK /\ EffectOnce
      /\ log \in Seq(HostedRequests) /\ changed \in BOOLEAN /\ job \in Records
      /\ at \in Reviews
  BY DEF HostInv, HostTyped
<1>3. r \in HostedRequests /\ r.op = "keep" /\ r.id = id
  BY <1>2 DEF Request, HostedRequests, Ops
<1>4. rev \in Nat
  BY <1>2, SettledTyped
<1> HIDE DEF r, rev
<1>5. /\ next \in Records /\ next.life = "reviewing" /\ next.rev = rev
      /\ next.preview = rev /\ next.kept = job.kept \cup {id}
      /\ next.events = job.events /\ next.turns = job.turns
      /\ next.candidate = job.candidate /\ next.pending = job.pending
      /\ next.settled = job.settled /\ next.attempts = job.attempts
      /\ next.mutations = job.mutations
  <2> DEFINE a == [job EXCEPT !.life = "reviewing", !.rev = rev]
  <2>1. /\ a \in Records /\ a.life = "reviewing" /\ a.rev = rev
        /\ a.events = job.events /\ a.turns = job.turns
        /\ a.candidate = job.candidate /\ a.pending = job.pending
        /\ a.settled = job.settled /\ a.attempts = job.attempts
        /\ a.kept = job.kept /\ a.mutations = job.mutations
    BY <1>2, <1>4 DEF Records, Lives
  <2>2. next = [a EXCEPT !.preview = rev, !.kept = @ \cup {id}]
    BY DEF rev
  <2> HIDE DEF a, next
  <2> QED BY <1>4, <2>1, <2>2 DEF Records
<1> HIDE DEF next
<1>6. ASSUME outcome # job, job' = outcome, log' = Append(log, r), changed' = changed,
             shown' = IF job'.life \in {"reviewing", "failed"}
                        THEN shown \cup {Review(job')} ELSE shown
      PROVE  HostInv'
  <2>1. allowed /\ job' = next
    BY <1>6
  <2>2. /\ log' \in Seq(HostedRequests) /\ Range(log') = Range(log) \cup {r}
        /\ Reserved' = Reserved \cup {q \in {r} : q.op = "revise"}
    BY <1>2, <1>3, <1>6, LogGrows
  <2>3. HostTyped'
    BY <1>2, <1>5, <1>6, <2>1, <2>2, ShownTyped
  <2>4. /\ TranscriptOK' /\ Evidence' = Evidence /\ Submissions' = Submissions
        /\ \A x : ~Fresh(x, Evidence) => ~Fresh(x, Evidence)'
        /\ \A x : ~Fresh(x, Submissions) => ~Fresh(x, Submissions)'
    BY <1>2, <1>5, <2>1, SameTranscript
  <2>5. job.pending = None /\ job'.pending = None
    BY <1>2, <1>5, <2>1 DEF TurnsOK
  <2>6. TurnsOK'
    <3>1. job.preview <= job'.preview /\ job'.preview <= job'.rev
      BY <1>2, <1>5, <2>1, SettledTyped DEF TurnsOK, rev
    <3>2. ASSUME NEW i \in DOMAIN job.settled
          PROVE  /\ job.settled[i].call = CallId(job.settled[i].at)
                 /\ job.settled[i].at.rev < job'.preview
      <4>1. job.settled[i].at.rev < job.preview
        BY <1>2 DEF TurnsOK
      <4>2. job.settled[i].at.rev \in Nat /\ job.preview \in Nat /\ job'.preview \in Nat
        BY <1>2, <1>4, <1>5, <2>1, SettledTyped
      <4> QED BY <4>1, <4>2, <3>1, <1>2 DEF TurnsOK
    <3> QED BY <3>1, <3>2, <1>5, <2>1, <2>5 DEF TurnsOK, CallId
  <2>7. Counted'
    BY <1>2, <1>5, <2>1, <2>4, <2>5 DEF Counted
  <2>8. LogOK'
    <3>1. ASSUME NEW q \in Range(log) PROVE Remembered(q)'
      <4>1. Remembered(q)
        BY <1>2 DEF LogOK
      <4>2. q.op # "accept"
        BY <4>1, <2>1 DEF Remembered
      <4>3. q.op = "revise" => SettledAs(q)'
        BY <4>1, <2>5, <1>5, <2>1 DEF Remembered, Waits, SettledAs
      <4> QED BY <4>1, <4>2, <4>3, <2>4, <1>5, <2>1 DEF Remembered
    <3>2. Remembered(r)'
      BY <1>3, <1>5, <2>1 DEF Remembered
    <3>3. \A i \in DOMAIN job'.settled : \E q \in Reserved' : q.at = job'.settled[i].at
      BY <1>2, <1>5, <2>1, <2>2 DEF LogOK
    <3> QED BY <3>1, <3>2, <3>3, <2>2, <2>5 DEF LogOK
  <2>9. EffectOnce'
    <3>1. ASSUME NEW q \in Range(log), q.op = r.op PROVE q.id # r.id
      <4>1. Remembered(q)
        BY <1>2 DEF LogOK
      <4> QED BY <3>1, <4>1, <1>3, <2>1 DEF Remembered
    <3> QED BY <3>1, <1>2, <1>3, <1>6, OnceMore
  <2> QED BY <2>3, <2>4, <2>6, <2>7, <2>8, <2>9 DEF HostInv
<1> QED BY <1>1, <1>6, HostCallKeeps

\* The candidate on display is accepted.
LEMMA HostAcceptKeeps ==
    ASSUME HostedAssumption, HostInv, NEW at \in shown,
           Accept(at)
    PROVE  HostInv'
<1> DEFINE r == Request("accept", None, at, None)
           allowed == job.life = "reviewing" /\ Exact(at)
           rev == job.rev + 1
           next == [job EXCEPT !.life = "executing", !.rev = @ + 1]
           outcome == IF allowed THEN next ELSE job
<1>1. Handle(r, outcome)
  BY DEF Accept
<1>2. /\ HostTyped /\ TranscriptOK /\ TurnsOK /\ Counted /\ LogOK /\ EffectOnce
      /\ log \in Seq(HostedRequests) /\ changed \in BOOLEAN /\ job \in Records
      /\ at \in Reviews
  BY DEF HostInv, HostTyped
<1>3. r \in HostedRequests /\ r.op = "accept" /\ r.id = None
  BY <1>2 DEF Request, HostedRequests, Ops
<1>4. rev \in Nat
  BY <1>2, SettledTyped
<1> HIDE DEF r, rev
<1>5. /\ next \in Records /\ next.life = "executing" /\ next.rev = rev
      /\ next.preview = job.preview /\ next.kept = job.kept
      /\ next.events = job.events /\ next.turns = job.turns
      /\ next.candidate = job.candidate /\ next.pending = job.pending
      /\ next.settled = job.settled /\ next.attempts = job.attempts
      /\ next.mutations = job.mutations
  <2>1. next = [job EXCEPT !.life = "executing", !.rev = rev]
    BY DEF rev
  <2> HIDE DEF next
  <2> QED BY <1>2, <1>4, <2>1 DEF Records, Lives
<1> HIDE DEF next
<1>6. ASSUME outcome # job, job' = outcome, log' = Append(log, r), changed' = changed,
             shown' = IF job'.life \in {"reviewing", "failed"}
                        THEN shown \cup {Review(job')} ELSE shown
      PROVE  HostInv'
  <2>1. allowed /\ job' = next
    BY <1>6
  <2>2. /\ log' \in Seq(HostedRequests) /\ Range(log') = Range(log) \cup {r}
        /\ Reserved' = Reserved \cup {q \in {r} : q.op = "revise"}
    BY <1>2, <1>3, <1>6, LogGrows
  <2>3. HostTyped'
    BY <1>2, <1>5, <1>6, <2>1, <2>2, ShownTyped
  <2>4. /\ TranscriptOK' /\ Evidence' = Evidence /\ Submissions' = Submissions
        /\ \A x : ~Fresh(x, Evidence) => ~Fresh(x, Evidence)'
        /\ \A x : ~Fresh(x, Submissions) => ~Fresh(x, Submissions)'
    BY <1>2, <1>5, <2>1, SameTranscript
  <2>5. job.pending = None /\ job'.pending = None
    BY <1>2, <1>5, <2>1 DEF TurnsOK
  <2>6. TurnsOK'
    <3>1. job.preview <= job'.preview /\ job'.preview <= job'.rev
      BY <1>2, <1>5, <2>1, SettledTyped DEF TurnsOK, rev
    <3>2. ASSUME NEW i \in DOMAIN job.settled
          PROVE  /\ job.settled[i].call = CallId(job.settled[i].at)
                 /\ job.settled[i].at.rev < job'.preview
      <4>1. job.settled[i].at.rev < job.preview
        BY <1>2 DEF TurnsOK
      <4>2. job.settled[i].at.rev \in Nat /\ job.preview \in Nat /\ job'.preview \in Nat
        BY <1>2, <1>4, <1>5, <2>1, SettledTyped
      <4> QED BY <4>1, <4>2, <3>1, <1>2 DEF TurnsOK
    <3> QED BY <3>1, <3>2, <1>5, <2>1, <2>5 DEF TurnsOK, CallId
  <2>7. Counted'
    BY <1>2, <1>5, <2>1, <2>4, <2>5 DEF Counted
  <2>8. LogOK'
    <3>1. ASSUME NEW q \in Range(log) PROVE Remembered(q)'
      <4>1. Remembered(q)
        BY <1>2 DEF LogOK
      <4>2. q.op # "accept"
        BY <4>1, <2>1 DEF Remembered
      <4>3. q.op = "revise" => SettledAs(q)'
        BY <4>1, <2>5, <1>5, <2>1 DEF Remembered, Waits, SettledAs
      <4> QED BY <4>1, <4>2, <4>3, <2>4, <1>5, <2>1 DEF Remembered
    <3>2. Remembered(r)'
      BY <1>3, <1>5, <2>1 DEF Remembered
    <3>3. \A i \in DOMAIN job'.settled : \E q \in Reserved' : q.at = job'.settled[i].at
      BY <1>2, <1>5, <2>1, <2>2 DEF LogOK
    <3> QED BY <3>1, <3>2, <3>3, <2>2, <2>5 DEF LogOK
  <2>9. EffectOnce'
    <3>1. ASSUME NEW q \in Range(log), q.op = r.op PROVE q.id # r.id
      <4>1. Remembered(q)
        BY <1>2 DEF LogOK
      <4> QED BY <3>1, <4>1, <1>3, <2>1 DEF Remembered
    <3> QED BY <3>1, <1>2, <1>3, <1>6, OnceMore
  <2> QED BY <2>3, <2>4, <2>6, <2>7, <2>8, <2>9 DEF HostInv
<1> QED BY <1>1, <1>6, HostCallKeeps
-----------------------------------------------------------------------------
(* The invariant, and what follows from it. *)

LEMMA HostInvInit == ASSUME HostedAssumption, Init PROVE HostInv
<1>1. job = NewJob /\ changed = FALSE /\ shown = {} /\ log = <<>>
  BY DEF Init
<1>2. /\ job.life = "planning" /\ job.rev = 0 /\ job.events = <<>> /\ job.turns = 0
      /\ job.preview = 0 /\ job.candidate = 0 /\ job.attempts = 0
      /\ job.pending = None /\ job.settled = <<>> /\ job.mutations = {} /\ job.kept = {}
  BY <1>1 DEF NewJob
<1>3. job \in Records
  <2>1. <<>> \in Seq(Events) /\ <<>> \in Seq(Settled)
    OBVIOUS
  <2> QED BY <2>1, <1>1 DEF NewJob, Records, Lives
<1>4. HostTyped
  <2>1. <<>> \in Seq(HostedRequests)
    OBVIOUS
  <2>2. log \in Seq(HostedRequests) /\ shown \subseteq Reviews /\ changed \in BOOLEAN
    BY <1>1, <2>1
  <2> QED BY <2>2, <1>3 DEF HostTyped
<1>5. TranscriptOK
  BY <1>2 DEF TranscriptOK, Contiguous
<1>6. TurnsOK
  BY <1>2 DEF TurnsOK
<1>7. Counted
  <2>1. Evidence = {} /\ Submissions = {}
    BY <1>2 DEF Evidence, Submissions, EventsOf
  <2>2. MaxEvidence \in Nat /\ MaxSubmissions \in Nat /\ MaxRevisions \in Nat
    BY DEF HostedAssumption
  <2> QED BY <1>2, <2>1, <2>2, FS_EmptySet DEF Counted
<1>8. Range(log) = {}
  BY <1>1 DEF Range
<1>9. LogOK /\ EffectOnce
  BY <1>1, <1>2, <1>8 DEF LogOK, EffectOnce
<1> QED BY <1>4, <1>5, <1>6, <1>7, <1>9 DEF HostInv

LEMMA HostInvNext == ASSUME HostedAssumption, HostInv, [Next]_vars PROVE HostInv'
<1>1. CASE \E id \in Calls : EvidenceCall(id)
  BY <1>1, EvidenceKeeps
<1>2. CASE \E id \in Calls, verdict \in Verdicts : SubmitPlan(id, verdict)
  BY <1>2, HostPlanKeeps
<1>3. CASE \E id \in Keys, at \in {job.rev, job.rev - 1} :
             RequestClarification(id, at) \/ AnswerClarification(id, at)
  <2>1. job.rev \in Int /\ job.rev - 1 \in Int
    BY DEF HostInv, HostTyped, Records
  <2> QED BY <1>3, <2>1, ClarificationKeeps, AnswerKeeps
<1>4. CASE \E id \in Keys, at \in shown, body \in Texts : BeginRevision(id, at, body)
  BY <1>4, RevisionBegins
<1>5. CASE \E r \in Reserved, verdict \in Verdicts : SubmitRevision(r.at, verdict)
  BY <1>5, RevisionSettles
<1>6. CASE \E id \in Keys, at \in shown : KeepPrevious(id, at)
  BY <1>6, KeepKeeps
<1>7. CASE \E at \in shown : Accept(at)
  BY <1>7, HostAcceptKeeps
<1>8. CASE ChangeInputs
  <2>1. job' = job /\ shown' = shown /\ log' = log /\ changed' \in BOOLEAN
    BY <1>8 DEF ChangeInputs, HostInv, HostTyped
  <2>2. HostTyped'
    BY <2>1 DEF HostInv, HostTyped
  <2> QED BY <2>1, <2>2, SameRecord
<1>9. CASE UNCHANGED vars
  <2>1. job' = job /\ shown' = shown /\ log' = log /\ changed' = changed
    BY <1>9 DEF vars
  <2>2. HostTyped'
    BY <2>1 DEF HostInv, HostTyped
  <2> QED BY <2>1, <2>2, SameRecord
<1> QED BY <1>1, <1>2, <1>3, <1>4, <1>5, <1>6, <1>7, <1>8, <1>9 DEF Next

LEMMA HostInvAlways == ASSUME HostedAssumption PROVE Spec => []HostInv
<1>1. Init => HostInv
  BY HostInvInit
<1>2. HostInv /\ [Next]_vars => HostInv'
  BY HostInvNext
<1> QED BY <1>1, <1>2, PTL DEF Spec

LEMMA InvTypes == HostInv => TypeOK
  BY DEF HostInv, HostTyped, TurnsOK, Counted, TypeOK

LEMMA InvAnswers == HostInv => AnswersItsReservation
  BY DEF HostInv, TurnsOK, AnswersItsReservation

\* The turn a card asks for is found exactly when its review reserved one.
LEMMA InvFound == ASSUME HostedAssumption, HostInv PROVE FoundAgain
<1>1. /\ HostTyped /\ TurnsOK /\ LogOK
  BY DEF HostInv
<1>2. ASSUME NEW at \in shown, job.life = "revising"
      PROVE  LET mine == {r \in Reserved : r.at = at}
                 open == {r \in mine : ~Recorded(at)}
                 found == Recovered(at)
             IN /\ (found # None) <=> (open # {})
                /\ found # None => /\ found.call = CallId(at)
                                   /\ \E r \in open : r.body = found.body
  <2>1. job.pending # None /\ job.pending.at = Review(job) /\ job.rev = job.preview + 1
    BY <1>1, <1>2 DEF TurnsOK
  <2>2. CASE job.pending.at = at
    <3>1. job.pending.body \in Texts /\ job.rev \in Nat
      BY <1>1, <2>1, SettledTyped DEF HostTyped, Records, Reservations
    <3>2. Recovered(at) = [call |-> job.rev, body |-> job.pending.body]
      BY <1>2, <2>1, <2>2 DEF Recovered, FromReview
    <3>3. [call |-> job.rev, body |-> job.pending.body] \in Turns
      BY <3>1 DEF Turns
    <3>4. /\ Recovered(at) # None /\ Recovered(at).call = job.rev
          /\ Recovered(at).body = job.pending.body
      BY <3>2, <3>3 DEF HostedAssumption
    <3>5. CallId(at) = job.rev
      BY <2>1, <2>2, <1>1, SettledTyped DEF CallId, Review
    <3>6. ~Recorded(at)
      <4>1. SUFFICES ASSUME NEW i \in DOMAIN job.settled, job.settled[i].call = job.rev
                     PROVE  FALSE
        BY <3>5 DEF Recorded
      <4>2. job.settled[i].at.rev + 1 = job.preview + 1 /\ job.settled[i].at.rev < job.preview
        BY <4>1, <1>1, <2>1 DEF TurnsOK, CallId
      <4>3. job.settled[i].at.rev \in Nat /\ job.preview \in Nat
        BY <1>1, SettledTyped
      <4> QED BY <4>2, <4>3
    <3>7. PICK r \in Reserved : Waits(r)
      BY <1>1, <2>1 DEF LogOK
    <3>8. r.at = at /\ r.body = job.pending.body
      BY <3>7, <2>2 DEF Waits
    <3> QED BY <3>4, <3>5, <3>6, <3>8
  <2>3. CASE job.pending.at # at
    <3>1. Recovered(at) = None
      BY <1>2, <2>3 DEF Recovered, FromReview
    <3>2. ASSUME NEW r \in Reserved, r.at = at PROVE Recorded(at)
      <4>1. Waits(r) \/ SettledAs(r)
        BY <1>1 DEF LogOK, Remembered, Reserved
      <4>2. SettledAs(r)
        BY <4>1, <3>2, <2>3 DEF Waits
      <4> QED BY <4>2, <3>2, <1>1 DEF SettledAs, Recorded, TurnsOK
    <3> QED BY <3>1, <3>2
  <2> QED BY <2>2, <2>3
<1>3. ASSUME NEW at \in shown, job.life \in {"reviewing", "failed", "executing"}
      PROVE  (Recovered(at) # None) <=> ({r \in Reserved : r.at = at} # {})
  <2>1. job.pending = None
    BY <1>1, <1>3 DEF TurnsOK
  <2>2. (\E i \in DOMAIN job.settled : job.settled[i].at = at)
           <=> \E r \in Reserved : r.at = at
    <3>1. ASSUME NEW r \in Reserved PROVE SettledAs(r)
      BY <2>1, <1>1 DEF LogOK, Remembered, Reserved, Waits
    <3> QED BY <3>1, <1>1 DEF LogOK, SettledAs
  <2>3. CASE \E i \in DOMAIN job.settled : job.settled[i].at = at
    <3>1. Recovered(at) = [call |-> None, body |-> None]
      BY <2>3, <1>3 DEF Recovered
    <3>2. [call |-> None, body |-> None] \in Turns
      BY DEF Turns
    <3>3. Recovered(at) # None
      BY <3>1, <3>2 DEF HostedAssumption
    <3> QED BY <3>3, <2>2, <2>3
  <2>4. CASE ~\E i \in DOMAIN job.settled : job.settled[i].at = at
    <3>1. Recovered(at) = None
      BY <2>4, <1>3 DEF Recovered
    <3> QED BY <3>1, <2>2, <2>4
  <2> QED BY <2>3, <2>4
<1> QED BY <1>2, <1>3 DEF FoundAgain

\* Evidence calls, plans, questions, reservations, submissions and dismissals take
\* effect once under one identifier, for any number of sessions, keys and limits:
\* what the record keeps of an effective call is what a repeated one meets.
THEOREM CallsTakeEffectOnce == ASSUME HostedAssumption PROVE Spec => []EffectOnce
<1>1. HostInv => EffectOnce
  BY DEF HostInv
<1> QED BY <1>1, HostInvAlways, PTL

\* The record's validator reads the transcript of any sequence of admitted calls
\* (FolderHostPlanningStateV1), and the record keeps its types and limits.
THEOREM TranscriptStaysReadable ==
    ASSUME HostedAssumption PROVE Spec => []TranscriptIsReadable
<1>1. HostInv => TranscriptIsReadable
  BY InvTypes DEF HostInv, TranscriptOK, TranscriptIsReadable
<1> QED BY <1>1, HostInvAlways, PTL

\* A revision turn belongs to the review it was reserved from, for whichever
\* session submits it or comes back for it (submit_plan_revision,
\* recover_hosted_revision).
THEOREM TurnsKeepTheirReview == ASSUME HostedAssumption PROVE Spec => []TurnKeepsItsReview
<1>1. HostInv => TurnKeepsItsReview
  BY InvAnswers, InvFound DEF TurnKeepsItsReview
<1> QED BY <1>1, HostInvAlways, PTL
-----------------------------------------------------------------------------
(***************************************************************************)
(* Proofs about the derivatives of a receiver's review.  A turn is asked   *)
(* for once because one agent at most was told that it made the child, and *)
(* because a reserved follow-up is counted in the record for good; what    *)
(* comes back is filed with its record because of three facts about        *)
(* records and the lock of the call, which the invariant below puts        *)
(* together.                                                               *)
(***************************************************************************)

\* A child without a first answer has no follow-up; one with an answer cites its
\* evidence; no submission ended both turns; a stale child waits for nothing.
RecordOK(r) ==
    /\ r.state # "completed" => ~r.pending /\ r.second = Nobody
    /\ r.state = "completed" => r.cites = r.found
    /\ r.second # Nobody => r.second # r.first
    /\ r.attempts \in 1..2
    /\ r.life = "stale" => ~r.pending

\* A follow-up that was asked for is one of the attempts on record.
ChildOK(k) ==
    IF child[k] = Nobody THEN asked[k].first = 0 /\ asked[k].second = 0
    ELSE /\ RecordOK(child[k])
         /\ asked[k].first <= 1 /\ asked[k].second < child[k].attempts

\* The agent that made a child and has not asked yet is the only one, and nobody
\* has asked.
MakerOK(a) ==
    Doing(a, "created") =>
      /\ AboutTo(a) \in Requests \ HostRequests /\ child[AboutTo(a)] # Nobody
      /\ asked[AboutTo(a)].first = 0
      /\ \A b \in Agents : Doing(b, "created") /\ AboutTo(b) = AboutTo(a) => b = a

\* An agent with a call under way has the lock of its child, and the record it
\* began with waits for its first answer.
CallerOK(a) ==
    /\ Doing(a, "asking") =>
         /\ AboutTo(a) \in Requests \ HostRequests
         /\ child[AboutTo(a)] = work[a].record \/ child[AboutTo(a)].life = "stale"
    /\ Doing(a, "submitting") => AboutTo(a) \in HostRequests
    /\ Doing(a, "asking") \/ Doing(a, "submitting") =>
         /\ holder[AboutTo(a)] = a
         /\ child[AboutTo(a)] # Nobody
         /\ work[a].record \in Children
         /\ work[a].record.state = "awaiting" /\ work[a].record.life = "revising"
    /\ Doing(a, "following") =>
         /\ AboutTo(a) \in Requests \ HostRequests
         /\ child[AboutTo(a)] # Nobody
         /\ work[a].record \in Children
         /\ work[a].record.state = "completed" /\ work[a].record.life = "revising"

DInv ==
    /\ DerivativeTypes
    /\ \A k \in Requests : ChildOK(k)
    /\ \A a \in Agents : MakerOK(a) /\ CallerOK(a)
-----------------------------------------------------------------------------
(* What the operators make of a record *)

\* Only the life and the revision of a record move.
LEMMA MovedFields ==
    ASSUME NEW r \in Children, NEW life \in ChildLives
    PROVE  /\ Moved(r, life) \in Children
           /\ Moved(r, life).life = life /\ Moved(r, life).rev = r.rev + 1
           /\ Moved(r, life).state = r.state /\ Moved(r, life).attempts = r.attempts
           /\ Moved(r, life).ended = r.ended /\ Moved(r, life).pending = r.pending
           /\ Moved(r, life).failure = r.failure /\ Moved(r, life).plan = r.plan
           /\ Moved(r, life).found = r.found /\ Moved(r, life).cites = r.cites
           /\ Moved(r, life).lease = r.lease
           /\ Moved(r, life).first = r.first /\ Moved(r, life).second = r.second
<1> DEFINE v == r.rev + 1
<1>1. v \in Nat
  BY DEF Children
<1>2. Moved(r, life) = [r EXCEPT !.life = life, !.rev = v]
  BY DEF Moved
<1>3. v = r.rev + 1
  OBVIOUS
<1> HIDE DEF v
<1>4. [r EXCEPT !.life = life, !.rev = v] \in Children
  BY <1>1 DEF Children
<1> QED
  BY <1>1, <1>2, <1>3, <1>4 DEF Children

\* A reload leaves a record alone or makes it stale, and no record that waits for
\* a follow-up goes stale.
LEMMA ReloadedKeeps ==
    ASSUME NEW r \in Children, RecordOK(r)
    PROVE  /\ Reloaded(r) \in Children /\ RecordOK(Reloaded(r))
           /\ Reloaded(r).attempts = r.attempts
           /\ Reloaded(r) = r \/ Reloaded(r).life = "stale"
<1> DEFINE m == Moved(r, "stale")
<1>1. m \in Children /\ m.life = "stale" /\ m.state = r.state /\ m.attempts = r.attempts
      /\ m.pending = r.pending /\ m.found = r.found /\ m.cites = r.cites
      /\ m.first = r.first /\ m.second = r.second
  BY MovedFields DEF ChildLives
<1>2. Reloaded(r) = r \/ (Reloaded(r) = m /\ Admissible(m))
  BY DEF Reloaded
<1>3. Admissible(m) => ~m.pending
  BY <1>1 DEF Admissible, AwaitsItsTurn, KeepsItsParent, HasItsLedger, FollowupAuthority,
              Children
<1> HIDE DEF m
<1> QED
  BY <1>1, <1>2, <1>3 DEF RecordOK

\* A save leaves the old record, a reloaded one or the new one.
LEMMA SavedKeeps ==
    ASSUME NEW r \in Children, RecordOK(r), NEW s \in Children, RecordOK(s),
           r.attempts <= s.attempts
    PROVE  /\ SavedOver(r, s) \in Children /\ RecordOK(SavedOver(r, s))
           /\ r.attempts <= SavedOver(r, s).attempts
<1>1. r.attempts \in Nat
  BY DEF Children
<1> QED
  BY <1>1, ReloadedKeeps DEF SavedOver

\* The first answer ends the wait for it.
LEMMA FirstAnswerKeeps ==
    ASSUME NEW r \in Children, RecordOK(r), r.state = "awaiting",
           NEW call \in CallIds \cup {Nobody}
    PROVE  /\ Completed(r, r.found, call) \in Children
           /\ RecordOK(Completed(r, r.found, call))
           /\ Completed(r, r.found, call).attempts = r.attempts
           /\ Failed(r, call) \in Children /\ RecordOK(Failed(r, call))
           /\ Failed(r, call).attempts = r.attempts
<1> DEFINE m == Moved(r, "reviewing")
           n == Moved(r, "revision_failed")
           c == Completed(r, r.found, call)
           f == Failed(r, call)
<1>1. m \in Children /\ m.life = "reviewing" /\ m.pending = r.pending /\ m.found = r.found
      /\ m.attempts = r.attempts /\ m.second = r.second
  BY MovedFields DEF ChildLives
<1>2. n \in Children /\ n.life = "revision_failed" /\ n.pending = r.pending
      /\ n.attempts = r.attempts /\ n.second = r.second
  BY MovedFields DEF ChildLives
<1>3. ~r.pending /\ r.second = Nobody /\ r.attempts \in 1..2 /\ r.found \in Nat
  BY DEF RecordOK, Children
<1>4. c = [m EXCEPT !.state = "completed", !.plan = "first", !.ended = 1,
                    !.cites = r.found, !.first = call]
  BY DEF Completed
<1>5. f = [n EXCEPT !.state = "failed", !.plan = "parent", !.failure = TRUE, !.first = call]
  BY DEF Failed
<1> HIDE DEF m, n, c, f
<1>6. c \in Children /\ c.state = "completed" /\ c.cites = r.found /\ c.found = m.found
      /\ c.life = m.life /\ c.pending = m.pending /\ c.attempts = m.attempts
      /\ c.second = m.second
  BY <1>1, <1>3, <1>4 DEF Children
<1>7. f \in Children /\ f.state = "failed" /\ f.life = n.life /\ f.pending = n.pending
      /\ f.attempts = n.attempts /\ f.second = n.second
  BY <1>2, <1>5 DEF Children
<1>8. RecordOK(c)
  BY <1>1, <1>3, <1>6 DEF RecordOK
<1>9. RecordOK(f)
  BY <1>2, <1>3, <1>7 DEF RecordOK
<1> QED
  BY <1>1, <1>2, <1>6, <1>7, <1>8, <1>9 DEF c, f

\* A follow-up is counted when it is reserved.
LEMMA ReservedKeeps ==
    ASSUME NEW r \in Children, RecordOK(r), CanFollow(r)
    PROVE  /\ FollowupReserved(r) \in Children /\ RecordOK(FollowupReserved(r))
           /\ FollowupReserved(r).attempts = r.attempts + 1
           /\ FollowupReserved(r).state = "completed"
           /\ FollowupReserved(r).life = "revising"
<1> DEFINE m == Moved(r, "revising")
           s == FollowupReserved(r)
<1>1. m \in Children /\ m.life = "revising" /\ m.state = r.state /\ m.found = r.found
      /\ m.cites = r.cites /\ m.attempts = r.attempts
      /\ m.first = r.first /\ m.second = r.second
  BY MovedFields DEF ChildLives
<1> DEFINE v == m.attempts + 1
<1>2. s = [m EXCEPT !.pending = TRUE, !.attempts = v, !.failure = FALSE]
  BY DEF FollowupReserved
<1>3. r.attempts \in Nat /\ v \in Nat /\ v = m.attempts + 1
  BY <1>1 DEF Children
<1> HIDE DEF m, s, v
<1>4. s \in Children /\ s.life = m.life /\ s.state = m.state /\ s.found = m.found
      /\ s.cites = m.cites /\ s.attempts = m.attempts + 1
      /\ s.first = m.first /\ s.second = m.second
  BY <1>1, <1>2, <1>3 DEF Children
<1>5. RecordOK(s)
  BY <1>1, <1>4 DEF RecordOK, CanFollow
<1> QED
  BY <1>1, <1>4, <1>5 DEF s, CanFollow

\* ... and whatever answers it, by a call that did not end the first turn.
Answered(r, call) ==
    {FollowupAccepted(r, call), FollowupRejected(r, call), FollowupUnanswered(r)}

LEMMA AnsweredKeeps ==
    ASSUME NEW r \in Children, RecordOK(r), r.state = "completed",
           NEW call \in CallIds \cup {Nobody}, call # Nobody => call # r.first,
           NEW s \in Answered(r, call)
    PROVE  s \in Children /\ RecordOK(s) /\ s.attempts = r.attempts
<1> DEFINE m == Moved(r, "reviewing")
           n == Moved(r, "revision_failed")
<1>1. m \in Children /\ m.life = "reviewing" /\ m.state = r.state /\ m.found = r.found
      /\ m.cites = r.cites /\ m.attempts = r.attempts /\ m.ended = r.ended
      /\ m.first = r.first /\ m.second = r.second
  BY MovedFields DEF ChildLives
<1>2. n \in Children /\ n.life = "revision_failed" /\ n.state = r.state /\ n.found = r.found
      /\ n.cites = r.cites /\ n.attempts = r.attempts /\ n.ended = r.ended
      /\ n.first = r.first /\ n.second = r.second
  BY MovedFields DEF ChildLives
<1>3. r.attempts \in 1..2 /\ r.cites = r.found /\ r.ended \in Nat
      /\ (r.second # Nobody => r.second # r.first)
  BY DEF RecordOK, Children
<1>4. CASE s = FollowupAccepted(r, call)
  <2> DEFINE v == m.ended + 1
  <2>1. s = [m EXCEPT !.pending = FALSE, !.ended = v, !.plan = "second", !.second = call]
    BY <1>4 DEF FollowupAccepted
  <2>3. v \in Nat
    BY <1>1, <1>3
  <2> HIDE DEF m, n, v
  <2>2. s \in Children /\ s.life = m.life /\ s.state = m.state /\ s.found = m.found
        /\ s.cites = m.cites /\ s.attempts = m.attempts /\ ~s.pending
        /\ s.first = m.first /\ s.second = call
    BY <1>1, <2>1, <2>3 DEF Children
  <2> QED
    BY <1>1, <1>3, <2>2 DEF RecordOK
<1>5. CASE s = FollowupRejected(r, call)
  <2> DEFINE v == n.ended + 1
  <2>1. s = [n EXCEPT !.pending = FALSE, !.ended = v, !.failure = TRUE, !.second = call]
    BY <1>5 DEF FollowupRejected
  <2>3. v \in Nat
    BY <1>2, <1>3
  <2> HIDE DEF m, n, v
  <2>2. s \in Children /\ s.life = n.life /\ s.state = n.state /\ s.found = n.found
        /\ s.cites = n.cites /\ s.attempts = n.attempts /\ ~s.pending
        /\ s.first = n.first /\ s.second = call
    BY <1>2, <2>1, <2>3 DEF Children
  <2> QED
    BY <1>2, <1>3, <2>2 DEF RecordOK
<1>6. CASE s = FollowupUnanswered(r)
  <2>1. s = [n EXCEPT !.pending = FALSE, !.failure = TRUE]
    BY <1>6 DEF FollowupUnanswered
  <2> HIDE DEF m, n
  <2>2. s \in Children /\ s.life = n.life /\ s.state = n.state /\ s.found = n.found
        /\ s.cites = n.cites /\ s.attempts = n.attempts /\ ~s.pending
        /\ s.first = n.first /\ s.second = n.second
    BY <1>2, <2>1 DEF Children
  <2> QED
    BY <1>2, <1>3, <2>2 DEF RecordOK
<1> QED
  BY <1>4, <1>5, <1>6 DEF Answered

LEMMA NewChildOK ==
    /\ NewChild \in Children /\ RecordOK(NewChild) /\ NewChild.attempts = 1
    /\ NewChild # Nobody
<1>1. NewChild \in Children
  BY DEF NewChild, Children, ChildLives
<1>2. NewChild # Nobody
  BY <1>1, DerivativeAssumption
<1>3. RecordOK(NewChild) /\ NewChild.attempts = 1
  BY DEF NewChild, RecordOK
<1> QED
  BY <1>1, <1>2, <1>3
-----------------------------------------------------------------------------
(* What a step leaves of a child and of an agent *)

\* Nobody waits for a provider's first answer about k.
Quiet(k) == \A a \in Agents : ~(Doing(a, "asking") /\ AboutTo(a) = k)

\* A child is made, left alone, or written by somebody who may write it.
KeepsChild(k) ==
    \/ child'[k] = child[k]
    \/ child[k] = Nobody /\ child'[k] = NewChild
    \/ /\ child[k] # Nobody /\ child'[k] # Nobody /\ RecordOK(child'[k])
       /\ child[k].attempts <= child'[k].attempts
       /\ child'[k].life = "stale" \/ \A a \in Agents :
            Doing(a, "asking") /\ AboutTo(a) = k => work'[a] # work[a]

\* An agent goes on as it was, with the locks it had, or is done.
KeepsAgent(a) ==
    \/ work'[a].step = "idle"
    \/ work'[a] = work[a] /\ \A k \in Requests : holder[k] = a => holder'[k] = a

LEMMA StepKeeps ==
    ASSUME DInv, DerivativeTypes', asked' = asked,
           \A k \in Requests : KeepsChild(k),
           \A a \in Agents : KeepsAgent(a)
    PROVE  DInv'
<1>1. ASSUME NEW k \in Requests
      PROVE  child[k] # Nobody => child'[k] # Nobody
  BY <1>1, NewChildOK DEF KeepsChild
<1>2. ASSUME NEW k \in Requests
      PROVE  ChildOK(k)'
  <2>1. ChildOK(k) /\ KeepsChild(k)
    BY <1>2 DEF DInv
  <2>2. asked[k].first \in Nat /\ asked[k].second \in Nat
    BY <1>2 DEF DInv, DerivativeTypes
  <2>3. child[k] # Nobody => child[k].attempts \in Nat
    BY <1>2 DEF DInv, DerivativeTypes, Children
  <2>4. child'[k] # Nobody => child'[k].attempts \in Nat
    BY <1>2 DEF DerivativeTypes, Children
  <2>5. CASE child'[k] = child[k]
    BY <2>1, <2>5 DEF ChildOK, RecordOK
  <2>6. CASE child[k] = Nobody /\ child'[k] = NewChild
    BY <2>1, <2>6, NewChildOK DEF ChildOK, RecordOK
  <2>7. CASE /\ child[k] # Nobody /\ child'[k] # Nobody /\ RecordOK(child'[k])
             /\ child[k].attempts <= child'[k].attempts
    BY <2>1, <2>2, <2>3, <2>4, <2>7 DEF ChildOK, RecordOK
  <2> QED
    BY <2>1, <2>5, <2>6, <2>7 DEF KeepsChild
<1>3. ASSUME NEW a \in Agents
      PROVE  MakerOK(a)'
  <2>1. SUFFICES ASSUME work'[a].step = "created" PROVE MakerOK(a)'
    BY DEF MakerOK, Doing
  <2>2. work'[a] = work[a]
    BY <1>3, <2>1 DEF KeepsAgent
  <2>3. MakerOK(a) /\ Doing(a, "created")
    BY <1>3, <2>1, <2>2 DEF DInv, Doing
  <2>4. ASSUME NEW b \in Agents, work'[b].step = "created",
               work'[b].request = work[a].request
        PROVE  b = a
    <3>1. work'[b] = work[b]
      BY <2>4 DEF KeepsAgent
    <3> QED
      BY <2>3, <2>4, <3>1 DEF MakerOK, Doing, AboutTo
  <2> QED
    BY <1>1, <2>2, <2>3, <2>4 DEF MakerOK, Doing, AboutTo
<1>4. ASSUME NEW a \in Agents
      PROVE  CallerOK(a)'
  <2>1. CASE work'[a].step = "idle"
    BY <2>1 DEF CallerOK, Doing
  <2>2. CASE work'[a] = work[a] /\ \A k \in Requests : holder[k] = a => holder'[k] = a
    <3> DEFINE q == work[a].request
    <3>1. CallerOK(a) /\ HostRequests \subseteq Requests
      BY <1>4, DerivativeAssumption DEF DInv
    <3>2. ASSUME work[a].step = "asking"
          PROVE  child'[q] = work[a].record \/ child'[q].life = "stale"
      <4>1. q \in Requests /\ KeepsChild(q) /\ child[q] # Nobody
            /\ (child[q] = work[a].record \/ child[q].life = "stale")
        BY <3>1, <3>2 DEF CallerOK, Doing, AboutTo
      <4>2. child'[q] = child[q] \/ child'[q].life = "stale"
        BY <1>4, <2>2, <3>2, <4>1 DEF KeepsChild, Doing, AboutTo
      <4> QED
        BY <4>1, <4>2
    <3>3. ASSUME work[a].step \in {"asking", "submitting", "following"}
          PROVE  q \in Requests /\ child'[q] # Nobody
      BY <1>1, <3>1, <3>3 DEF CallerOK, Doing, AboutTo
    <3>4. ASSUME work[a].step \in {"asking", "submitting"}
          PROVE  holder'[q] = a
      BY <2>2, <3>1, <3>3, <3>4 DEF CallerOK, Doing, AboutTo
    <3> QED
      BY <2>2, <3>1, <3>2, <3>3, <3>4 DEF CallerOK, Doing, AboutTo
  <2> QED
    BY <1>4, <2>1, <2>2 DEF KeepsAgent
<1> QED
  BY <1>2, <1>3, <1>4 DEF DInv

\* A call under way is alone with its child: others find it, by the lock, by its
\* transport or by the record.
LEMMA QuietWhen ==
    ASSUME DInv, NEW k \in Requests, child[k] # Nobody,
           \/ k \in HostRequests
           \/ holder[k] = Nobody
           \/ child[k].life # "stale" /\ child[k].state # "awaiting"
    PROVE  Quiet(k)
<1> SUFFICES ASSUME NEW a \in Agents, Doing(a, "asking"), AboutTo(a) = k PROVE FALSE
  BY DEF Quiet
<1> QED
  BY DerivativeAssumption DEF DInv, CallerOK

\* One record is written while agents go on or finish.
LEMMA WriteKeeps ==
    ASSUME DInv, NEW k \in Requests, child[k] # Nobody,
           NEW t \in Children, RecordOK(t), child[k].attempts <= t.attempts,
           Put(k, t),
           \/ t = child[k] \/ t.life = "stale"
           \/ \A a \in Agents : Doing(a, "asking") /\ AboutTo(a) = k => work'[a] # work[a],
           work' \in [Agents -> Works], holder' \in [Requests -> Agents \cup {Nobody}],
           \A a \in Agents : KeepsAgent(a),
           UNCHANGED <<parentOpen, altered, asked>>
    PROVE  DInv'
<1>1. child \in [Requests -> Children \cup {Nobody}] /\ DerivativeTypes
  BY DEF DInv, DerivativeTypes
<1>2. child'[k] = t /\ \A m \in Requests : m # k => child'[m] = child[m]
  BY <1>1 DEF Put
<1>3. child' \in [Requests -> Children \cup {Nobody}]
  BY <1>1 DEF Put
<1>4. DerivativeTypes'
  BY <1>1, <1>3 DEF DerivativeTypes
<1>5. t # Nobody
  BY DerivativeAssumption
<1>6. ASSUME NEW m \in Requests PROVE KeepsChild(m)
  <2>1. CASE m # k
    BY <1>2, <2>1 DEF KeepsChild
  <2>2. CASE m = k
    BY <1>2, <1>5, <2>2 DEF KeepsChild
  <2> QED
    BY <2>1, <2>2
<1> QED
  BY <1>4, <1>6, StepKeeps

LEMMA RecordKeeps ==
    ASSUME DInv, NEW k \in Requests, child[k] # Nobody,
           NEW t \in Children, RecordOK(t), child[k].attempts <= t.attempts,
           Put(k, t), t = child[k] \/ t.life = "stale" \/ Quiet(k),
           UNCHANGED <<parentOpen, altered, holder, work, asked>>
    PROVE  DInv'
<1>1. work' \in [Agents -> Works] /\ holder' \in [Requests -> Agents \cup {Nobody}]
  BY DEF DInv, DerivativeTypes
<1>2. \A a \in Agents : KeepsAgent(a)
  BY DEF KeepsAgent
<1>3. \/ t = child[k] \/ t.life = "stale"
      \/ \A a \in Agents : Doing(a, "asking") /\ AboutTo(a) = k => work'[a] # work[a]
  BY DEF Quiet
<1> QED
  BY <1>1, <1>2, <1>3, WriteKeeps

\* An agent that stops lets its locks go, or has none.
LEMMA StopKeepsAgents ==
    ASSUME DInv, NEW a \in Agents, Stops(a), Lets(a) \/ holder' = holder
    PROVE  /\ work' \in [Agents -> Works] /\ holder' \in [Requests -> Agents \cup {Nobody}]
           /\ \A b \in Agents : KeepsAgent(b)
           /\ work'[a] = Idle
<1>1. work \in [Agents -> Works] /\ holder \in [Requests -> Agents \cup {Nobody}]
  BY DEF DInv, DerivativeTypes
<1>2. Idle \in Works /\ Idle.step = "idle"
  BY DEF Idle, Works
<1>3. work' \in [Agents -> Works] /\ work'[a] = Idle
  BY <1>1, <1>2 DEF Stops
<1>4. holder' \in [Requests -> Agents \cup {Nobody}]
  BY <1>1 DEF Lets
<1>5. ASSUME NEW b \in Agents PROVE KeepsAgent(b)
  <2>1. CASE b = a
    BY <1>2, <1>3, <2>1 DEF KeepsAgent
  <2>2. CASE b # a
    BY <1>1, <1>5, <2>2 DEF KeepsAgent, Stops, Lets
  <2> QED
    BY <2>1, <2>2
<1> QED
  BY <1>3, <1>4, <1>5

\* ... so only the agent's own child may be written by the step that ends its call.
LEMMA ChildEndKeeps ==
    ASSUME DInv, NEW a \in Agents, Stops(a), Lets(a) \/ holder' = holder,
           NEW k \in Requests, child[k] # Nobody,
           NEW t \in Children, RecordOK(t), child[k].attempts <= t.attempts,
           Put(k, t),
           t = child[k] \/ t.life = "stale" \/ holder[k] = a \/ Quiet(k),
           UNCHANGED <<parentOpen, altered, asked>>
    PROVE  DInv'
<1>1. /\ work' \in [Agents -> Works] /\ holder' \in [Requests -> Agents \cup {Nobody}]
      /\ \A b \in Agents : KeepsAgent(b)
      /\ work'[a] = Idle
  BY StopKeepsAgents
<1>2. ASSUME holder[k] = a, NEW b \in Agents, Doing(b, "asking"), AboutTo(b) = k
      PROVE  work'[b] # work[b]
  <2>1. b = a
    BY <1>2 DEF DInv, CallerOK
  <2> QED
    BY <1>1, <1>2, <2>1 DEF Doing, Idle
<1>3. \/ t = child[k] \/ t.life = "stale"
      \/ \A b \in Agents : Doing(b, "asking") /\ AboutTo(b) = k => work'[b] # work[b]
  BY <1>2 DEF Quiet
<1> QED
  BY <1>1, <1>3, WriteKeeps
-----------------------------------------------------------------------------
(* The steps *)

LEMMA ChildFacts ==
    ASSUME DInv, NEW k \in Requests, child[k] # Nobody
    PROVE  /\ child[k] \in Children /\ RecordOK(child[k]) /\ child[k].attempts \in Nat
           /\ Reloaded(child[k]) \in Children /\ RecordOK(Reloaded(child[k]))
           /\ Reloaded(child[k]).attempts = child[k].attempts
           /\ Reloaded(child[k]) = child[k] \/ Reloaded(child[k]).life = "stale"
<1>1. child[k] \in Children /\ RecordOK(child[k])
  BY DEF DInv, DerivativeTypes, ChildOK
<1> QED
  BY <1>1, ReloadedKeeps DEF Children

\* Steps that write no child.
LEMMA OutsideKeeps ==
    ASSUME DInv,
           \/ ParentLeaves \/ Alter
           \/ \E a \in Agents : Quit(a) \/ FindClosed(a)
           \/ UNCHANGED derivative
    PROVE  DInv'
<1>1. DerivativeTypes
  BY DEF DInv
<1>2. CASE ParentLeaves \/ Alter \/ UNCHANGED derivative
  <2>1. UNCHANGED <<child, holder, work, asked>> /\ DerivativeTypes'
    BY <1>1, <1>2 DEF ParentLeaves, Alter, derivative, DerivativeTypes
  <2>2. \A k \in Requests : KeepsChild(k)
    BY <2>1 DEF KeepsChild
  <2>3. \A a \in Agents : KeepsAgent(a)
    BY <2>1 DEF KeepsAgent
  <2> QED
    BY <2>1, <2>2, <2>3, StepKeeps
<1>3. ASSUME NEW a \in Agents, Quit(a) \/ FindClosed(a)
      PROVE  DInv'
  <2>1. /\ Stops(a) /\ (Lets(a) \/ holder' = holder)
        /\ UNCHANGED <<parentOpen, altered, child, asked>>
    BY <1>3 DEF Quit, FindClosed
  <2>2. /\ work' \in [Agents -> Works] /\ holder' \in [Requests -> Agents \cup {Nobody}]
        /\ \A b \in Agents : KeepsAgent(b)
    BY <2>1, StopKeepsAgents
  <2>3. DerivativeTypes'
    BY <1>1, <2>1, <2>2 DEF DerivativeTypes
  <2>4. \A k \in Requests : KeepsChild(k)
    BY <2>1 DEF KeepsChild
  <2> QED
    BY <2>1, <2>2, <2>3, <2>4, StepKeeps
<1> QED
  BY <1>2, <1>3

\* A refusal writes a record that has gone stale, or nothing.
LEMMA RefusalKeeps ==
    ASSUME DInv, NEW a \in Agents,
           RefuseFirst(a) \/ \E k \in Requests : RefuseSubmission(a, k)
    PROVE  DInv'
<1>1. CASE RefuseFirst(a)
  <2> DEFINE k == AboutTo(a)
  <2>1. k \in Requests /\ child[k] # Nobody
    BY <1>1 DEF RefuseFirst, DInv, MakerOK
  <2>2. /\ Stops(a) /\ holder' = holder /\ Put(k, Reloaded(child[k]))
        /\ UNCHANGED <<parentOpen, altered, asked>>
    BY <1>1 DEF RefuseFirst, BlocksIfCurrent, Child
  <2> HIDE DEF k
  <2>3. child[k].attempts <= Reloaded(child[k]).attempts
    BY <2>1, ChildFacts
  <2> QED
    BY <2>1, <2>2, <2>3, ChildFacts, ChildEndKeeps
<1>2. ASSUME NEW k \in Requests, RefuseSubmission(a, k)
      PROVE  DInv'
  <2>1. child[k] # Nobody /\ Put(k, Reloaded(child[k]))
        /\ UNCHANGED <<parentOpen, altered, holder, work, asked>>
    BY <1>2 DEF RefuseSubmission, BlocksIfCurrent, Turn, Child
  <2>2. child[k].attempts <= Reloaded(child[k]).attempts
    BY <2>1, ChildFacts
  <2> QED
    BY <2>1, <2>2, ChildFacts, RecordKeeps
<1> QED
  BY <1>1, <1>2

\* A new child is one that nobody has asked for.
LEMMA DeriveKeeps ==
    ASSUME DInv, NEW k \in Requests, child[k] = Nobody, Put(k, NewChild),
           UNCHANGED <<parentOpen, altered, holder, asked>>,
           \/ work' = work
           \/ /\ k \notin HostRequests
              /\ \E a \in Agents :
                   Doing(a, "idle") /\ Starts(a, "created", k, Nobody, Nobody)
    PROVE  DInv'
<1>1. DerivativeTypes
  BY DEF DInv
<1>2. /\ child' \in [Requests -> Children \cup {Nobody}] /\ child'[k] = NewChild
      /\ \A m \in Requests : m # k => child'[m] = child[m]
  BY <1>1, NewChildOK DEF Put, DerivativeTypes
<1>3. \A m \in Requests : KeepsChild(m)
  BY <1>2 DEF KeepsChild
<1>4. CASE work' = work
  <2>1. DerivativeTypes'
    BY <1>1, <1>2, <1>4 DEF DerivativeTypes
  <2>2. \A a \in Agents : KeepsAgent(a)
    BY <1>4 DEF KeepsAgent
  <2> QED
    BY <1>3, <2>1, <2>2, StepKeeps
<1>5. ASSUME NEW a \in Agents, k \notin HostRequests, Doing(a, "idle"),
             Starts(a, "created", k, Nobody, Nobody)
      PROVE  DInv'
  <2> DEFINE w == [step |-> "created", request |-> k, record |-> Nobody, call |-> Nobody]
  <2>1. w \in Works
    BY DEF Works
  <2>2. /\ work' \in [Agents -> Works] /\ work'[a] = w
        /\ \A b \in Agents : b # a => work'[b] = work[b]
    BY <1>1, <1>5, <2>1 DEF Starts, DerivativeTypes
  <2>3. DerivativeTypes'
    BY <1>1, <1>2, <2>2 DEF DerivativeTypes
  <2>4. \A m \in Requests : ChildOK(m)'
    BY <1>2, <1>1, NewChildOK DEF DInv, ChildOK
  <2>5. \A b \in Agents : Doing(b, "created") => AboutTo(b) # k
    BY DEF DInv, MakerOK
  <2>6. \A m \in Requests : child[m] # Nobody => child'[m] = child[m]
    BY <1>2
  <2>7. ASSUME NEW b \in Agents PROVE MakerOK(b)'
    <3>1. CASE b = a
      <4>1. asked[k].first = 0
        BY DEF DInv, ChildOK
      <4>2. \A c \in Agents : work'[c].step = "created" /\ work'[c].request = k => c = a
        BY <2>2, <2>5 DEF Doing, AboutTo
      <4> QED
        BY <1>2, <1>5, <2>2, <3>1, <4>1, <4>2, NewChildOK DEF MakerOK, Doing, AboutTo
    <3>2. CASE b # a
      <4>1. MakerOK(b) /\ work'[b] = work[b]
        BY <2>2, <2>7, <3>2 DEF DInv
      <4>2. SUFFICES ASSUME Doing(b, "created") PROVE MakerOK(b)'
        BY <4>1 DEF MakerOK, Doing
      <4>3. AboutTo(b) # k /\ AboutTo(b) \in Requests /\ child'[AboutTo(b)] # Nobody
        BY <2>5, <2>6, <4>1, <4>2 DEF MakerOK
      <4>4. ASSUME NEW c \in Agents, work'[c].step = "created",
                   work'[c].request = AboutTo(b)
            PROVE  c = b
        BY <2>2, <4>1, <4>2, <4>3, <4>4 DEF MakerOK, Doing, AboutTo
      <4> QED
        BY <4>1, <4>2, <4>3, <4>4 DEF MakerOK, Doing, AboutTo
    <3> QED
      BY <3>1, <3>2
  <2>8. ASSUME NEW b \in Agents PROVE CallerOK(b)'
    <3>1. CASE b = a
      BY <2>2, <3>1 DEF CallerOK, Doing
    <3>2. CASE b # a
      <4>1. CallerOK(b) /\ work'[b] = work[b]
        BY <2>2, <2>8, <3>2 DEF DInv
      <4>2. Doing(b, "asking") \/ Doing(b, "submitting") \/ Doing(b, "following") =>
              AboutTo(b) \in Requests /\ child'[AboutTo(b)] = child[AboutTo(b)]
        BY <2>6, <4>1, DerivativeAssumption DEF CallerOK
      <4> QED
        BY <4>1, <4>2 DEF CallerOK, Doing, AboutTo
    <3> QED
      BY <3>1, <3>2
  <2> QED
    BY <2>3, <2>4, <2>7, <2>8 DEF DInv
<1> QED
  BY <1>4, <1>5

\* The steps that begin a call: the others go on as they were.
LEMMA ChildCallKeeps ==
    ASSUME DInv, NEW a \in Agents, DerivativeTypes',
           work'[a].step \in {"asking", "submitting", "following"}, CallerOK(a)',
           \A b \in Agents : b # a =>
             /\ work'[b] = work[b]
             /\ \A k \in Requests : holder[k] = b => holder'[k] = b
             /\ Doing(b, "asking") => child'[AboutTo(b)] = child[AboutTo(b)]
             /\ Doing(b, "created") =>
                  asked'[AboutTo(b)].first = asked[AboutTo(b)].first,
           \A k \in Requests :
             ChildOK(k)' /\ (child[k] # Nobody => child'[k] # Nobody)
    PROVE  DInv'
<1>1. ASSUME NEW b \in Agents PROVE MakerOK(b)'
  <2>1. SUFFICES ASSUME work'[b].step = "created" PROVE MakerOK(b)'
    BY DEF MakerOK, Doing
  <2>2. b # a /\ work'[b] = work[b] /\ MakerOK(b) /\ Doing(b, "created")
    BY <1>1, <2>1 DEF DInv, Doing
  <2>3. AboutTo(b) \in Requests \ HostRequests /\ child'[AboutTo(b)] # Nobody
        /\ asked'[AboutTo(b)].first = 0
    BY <1>1, <2>2 DEF MakerOK
  <2>4. ASSUME NEW c \in Agents, work'[c].step = "created", work'[c].request = AboutTo(b)
        PROVE  c = b
    BY <2>2, <2>4 DEF MakerOK, Doing, AboutTo
  <2> QED
    BY <2>2, <2>3, <2>4 DEF MakerOK, Doing, AboutTo
<1>2. ASSUME NEW b \in Agents PROVE CallerOK(b)'
  <2>1. CASE b = a
    BY <2>1
  <2>2. CASE b # a
    <3>1. CallerOK(b) /\ work'[b] = work[b]
      BY <1>2, <2>2 DEF DInv
    <3>2. Doing(b, "asking") \/ Doing(b, "submitting") \/ Doing(b, "following") =>
            AboutTo(b) \in Requests /\ child'[AboutTo(b)] # Nobody
      BY <3>1, DerivativeAssumption DEF CallerOK
    <3>3. Doing(b, "asking") \/ Doing(b, "submitting") => holder'[AboutTo(b)] = b
      BY <1>2, <2>2, <3>1, <3>2 DEF CallerOK
    <3>4. Doing(b, "asking") => child'[AboutTo(b)] = child[AboutTo(b)]
      BY <1>2, <2>2
    <3> QED
      BY <3>1, <3>2, <3>3, <3>4 DEF CallerOK, Doing, AboutTo
  <2> QED
    BY <2>1, <2>2
<1> QED
  BY <1>1, <1>2 DEF DInv

\* The maker of a child asks, once, and nobody else is about to.
LEMMA AskFirstKeeps ==
    ASSUME DInv, NEW a \in Agents, AskFirst(a)
    PROVE  DInv'
<1> DEFINE k == AboutTo(a)
           w == [step |-> "asking", request |-> k, record |-> child[k], call |-> Nobody]
<1>1. /\ Doing(a, "created") /\ Turn(k) /\ Holds(a, k) /\ Asks(k, "first")
      /\ work' = [work EXCEPT ![a] = w] /\ UNCHANGED <<parentOpen, altered, child>>
  BY DEF AskFirst, Starts, Child
<1>2. DerivativeTypes /\ MakerOK(a) /\ k \in Requests \ HostRequests
  BY <1>1 DEF DInv, MakerOK
<1>3. child[k] # Nobody /\ child[k] \in Children
      /\ child[k].state = "awaiting" /\ child[k].life = "revising"
  BY <1>1, <1>2, ChildFacts DEF Turn, Child
<1>4. w \in Works
  BY <1>2, <1>3 DEF Works
<1>5. /\ work' \in [Agents -> Works] /\ work'[a] = w
      /\ \A b \in Agents : b # a => work'[b] = work[b]
  BY <1>1, <1>2, <1>4 DEF DerivativeTypes
<1>6. /\ holder[k] = Nobody /\ holder' \in [Requests -> Agents \cup {Nobody}]
      /\ holder'[k] = a /\ \A m \in Requests : m # k => holder'[m] = holder[m]
  BY <1>1, <1>2 DEF DerivativeTypes, Holds
<1>7. /\ asked' \in [Requests -> [first : Nat, second : Nat]]
      /\ asked'[k].first = 1 /\ asked'[k].second = asked[k].second
      /\ \A m \in Requests : m # k => asked'[m] = asked[m]
  <2>1. asked[k].first = 0 /\ asked[k] \in [first : Nat, second : Nat]
        /\ asked \in [Requests -> [first : Nat, second : Nat]]
    BY <1>1, <1>2 DEF MakerOK, DerivativeTypes
  <2> DEFINE n == [asked[k] EXCEPT !["first"] = @ + 1]
  <2>2. n = [first |-> 1, second |-> asked[k].second]
    BY <2>1
  <2>3. n \in [first : Nat, second : Nat]
    BY <2>1, <2>2
  <2>4. asked' = [asked EXCEPT ![k] = n]
    BY <1>1 DEF Asks
  <2> HIDE DEF n
  <2> QED
    BY <1>2, <2>1, <2>2, <2>3, <2>4
<1>8. DerivativeTypes'
  BY <1>1, <1>2, <1>5, <1>6, <1>7 DEF DerivativeTypes
<1>9. CallerOK(a)'
  BY <1>1, <1>2, <1>3, <1>5, <1>6 DEF CallerOK, Doing, AboutTo
<1>10. ASSUME NEW m \in Requests
       PROVE  ChildOK(m)' /\ (child[m] # Nobody => child'[m] # Nobody)
  <2>1. ChildOK(m) /\ child'[m] = child[m]
    BY <1>1, <1>10 DEF DInv
  <2>2. CASE m = k
    BY <1>3, <1>7, <2>1, <2>2 DEF ChildOK
  <2>3. CASE m # k
    BY <1>7, <2>1, <2>3 DEF ChildOK
  <2> QED
    BY <2>1, <2>2, <2>3
<1>11. ASSUME NEW b \in Agents, b # a
       PROVE  /\ work'[b] = work[b]
              /\ \A m \in Requests : holder[m] = b => holder'[m] = b
              /\ Doing(b, "asking") => child'[AboutTo(b)] = child[AboutTo(b)]
              /\ Doing(b, "created") =>
                   asked'[AboutTo(b)].first = asked[AboutTo(b)].first
  <2>1. Doing(b, "created") => AboutTo(b) # k /\ AboutTo(b) \in Requests
    BY <1>1, <1>2, <1>11 DEF MakerOK, DInv
  <2>2. \A m \in Requests : holder[m] = b => m # k
    BY <1>6, <1>11, DerivativeAssumption
  <2> QED
    BY <1>1, <1>5, <1>6, <1>7, <1>11, <2>1, <2>2
<1>12. work'[a].step = "asking"
  BY <1>5
<1> HIDE DEF k, w
<1> QED
  BY <1>8, <1>9, <1>10, <1>11, <1>12, ChildCallKeeps

\* A submission takes the lock as a question does, and reads the record.
LEMMA BeginSubmissionKeeps ==
    ASSUME DInv, NEW a \in Agents, NEW k \in Requests, NEW call \in CallIds,
           BeginSubmission(a, k, call)
    PROVE  DInv'
<1> DEFINE w == [step |-> "submitting", request |-> k, record |-> child[k], call |-> call]
<1>1. /\ k \in HostRequests /\ Turn(k) /\ Holds(a, k)
      /\ work' = [work EXCEPT ![a] = w] /\ UNCHANGED <<parentOpen, altered, child, asked>>
  BY DEF BeginSubmission, Starts, Child
<1>2. DerivativeTypes
  BY DEF DInv
<1>3. child[k] # Nobody /\ child[k] \in Children
      /\ child[k].state = "awaiting" /\ child[k].life = "revising"
  BY <1>1, ChildFacts DEF Turn, Child
<1>4. w \in Works
  BY <1>3 DEF Works
<1>5. /\ work' \in [Agents -> Works] /\ work'[a] = w
      /\ \A b \in Agents : b # a => work'[b] = work[b]
  BY <1>1, <1>2, <1>4 DEF DerivativeTypes
<1>6. /\ holder[k] = Nobody /\ holder' \in [Requests -> Agents \cup {Nobody}]
      /\ holder'[k] = a /\ \A m \in Requests : m # k => holder'[m] = holder[m]
  BY <1>1, <1>2 DEF DerivativeTypes, Holds
<1>7. DerivativeTypes'
  BY <1>1, <1>2, <1>5, <1>6 DEF DerivativeTypes
<1>8. CallerOK(a)'
  BY <1>1, <1>3, <1>5, <1>6 DEF CallerOK, Doing, AboutTo
<1>9. \A m \in Requests : ChildOK(m)' /\ (child[m] # Nobody => child'[m] # Nobody)
  BY <1>1 DEF DInv, ChildOK
<1>10. ASSUME NEW b \in Agents, b # a
       PROVE  /\ work'[b] = work[b]
              /\ \A m \in Requests : holder[m] = b => holder'[m] = b
              /\ Doing(b, "asking") => child'[AboutTo(b)] = child[AboutTo(b)]
              /\ Doing(b, "created") =>
                   asked'[AboutTo(b)].first = asked[AboutTo(b)].first
  <2>1. \A m \in Requests : holder[m] = b => m # k
    BY <1>6, <1>10, DerivativeAssumption
  <2> QED
    BY <1>1, <1>5, <1>6, <1>10, <2>1
<1>11. work'[a].step = "submitting"
  BY <1>5
<1> HIDE DEF w
<1> QED
  BY <1>7, <1>8, <1>9, <1>10, <1>11, ChildCallKeeps

\* A follow-up is asked for as often as it is reserved.
LEMMA ReserveFollowupKeeps ==
    ASSUME DInv, NEW a \in Agents, NEW k \in Requests, ReserveFollowup(a, k)
    PROVE  DInv'
<1> DEFINE t == FollowupReserved(child[k])
           w == [step |-> "following", request |-> k, record |-> t, call |-> Nobody]
<1>1. /\ k \notin HostRequests /\ child[k] # Nobody /\ CanFollow(child[k])
      /\ Put(k, t) /\ Asks(k, "second")
      /\ work' = [work EXCEPT ![a] = w] /\ UNCHANGED <<parentOpen, altered, holder>>
  BY DEF ReserveFollowup, Starts, Child
<1>2. DerivativeTypes /\ ChildOK(k)
  BY DEF DInv
<1>3. child[k] \in Children /\ RecordOK(child[k]) /\ child[k].attempts \in Nat
  BY <1>1, ChildFacts
<1>4. t \in Children /\ RecordOK(t) /\ t.attempts = child[k].attempts + 1
      /\ t.state = "completed" /\ t.life = "revising" /\ t # Nobody
  BY <1>1, <1>3, ReservedKeeps, DerivativeAssumption
<1>5. Quiet(k)
  BY <1>1, QuietWhen DEF CanFollow
<1> HIDE DEF t
<1>6. w \in Works
  BY <1>4 DEF Works
<1>7. /\ work' \in [Agents -> Works] /\ work'[a] = w
      /\ \A b \in Agents : b # a => work'[b] = work[b]
  BY <1>1, <1>2, <1>6 DEF DerivativeTypes
<1>8. /\ child' \in [Requests -> Children \cup {Nobody}] /\ child'[k] = t
      /\ \A m \in Requests : m # k => child'[m] = child[m]
  BY <1>1, <1>2, <1>4 DEF Put, DerivativeTypes
<1>9. /\ asked' \in [Requests -> [first : Nat, second : Nat]]
      /\ asked'[k].first = asked[k].first /\ asked'[k].second = asked[k].second + 1
      /\ \A m \in Requests : m # k => asked'[m] = asked[m]
  <2>1. asked[k] \in [first : Nat, second : Nat]
        /\ asked \in [Requests -> [first : Nat, second : Nat]]
    BY <1>2 DEF DerivativeTypes
  <2> DEFINE v == asked[k].second + 1
             n == [asked[k] EXCEPT !["second"] = v]
  <2>2. v \in Nat /\ v = asked[k].second + 1
    BY <2>1
  <2>3. asked' = [asked EXCEPT ![k] = n]
    BY <1>1 DEF Asks
  <2> HIDE DEF v
  <2>4. n \in [first : Nat, second : Nat] /\ n.first = asked[k].first /\ n.second = v
    BY <2>1, <2>2
  <2> HIDE DEF n
  <2> QED
    BY <2>1, <2>2, <2>3, <2>4
<1>10. DerivativeTypes'
  BY <1>1, <1>2, <1>7, <1>8, <1>9 DEF DerivativeTypes
<1>11. CallerOK(a)'
  BY <1>1, <1>4, <1>7, <1>8 DEF CallerOK, Doing, AboutTo
<1>12. ASSUME NEW m \in Requests
       PROVE  ChildOK(m)' /\ (child[m] # Nobody => child'[m] # Nobody)
  <2>1. CASE m = k
    <3>1. asked[k].first <= 1 /\ asked[k].second < child[k].attempts
          /\ asked[k].second \in Nat
      BY <1>1, <1>2 DEF ChildOK, DerivativeTypes
    <3>2. asked[k].second + 1 < child[k].attempts + 1
      BY <1>3, <3>1
    <3> QED
      BY <1>4, <1>8, <1>9, <2>1, <3>1, <3>2 DEF ChildOK
  <2>2. CASE m # k
    BY <1>8, <1>9, <1>12, <2>2 DEF DInv, ChildOK
  <2> QED
    BY <2>1, <2>2
<1>13. ASSUME NEW b \in Agents, b # a
       PROVE  /\ work'[b] = work[b]
              /\ \A m \in Requests : holder[m] = b => holder'[m] = b
              /\ Doing(b, "asking") => child'[AboutTo(b)] = child[AboutTo(b)]
              /\ Doing(b, "created") =>
                   asked'[AboutTo(b)].first = asked[AboutTo(b)].first
  <2>1. Doing(b, "asking") => AboutTo(b) # k /\ AboutTo(b) \in Requests
    BY <1>5, <1>13 DEF Quiet, DInv, CallerOK
  <2>2. Doing(b, "created") => AboutTo(b) \in Requests
    BY <1>13 DEF DInv, MakerOK
  <2> QED
    BY <1>1, <1>7, <1>8, <1>9, <1>13, <2>1, <2>2
<1>14. work'[a].step = "following"
  BY <1>7
<1> HIDE DEF w
<1> QED
  BY <1>10, <1>11, <1>12, <1>13, <1>14, ChildCallKeeps

\* A provider's first answer is filed with the record it was asked for.
LEMMA AnswerFirstKeeps ==
    ASSUME DInv, NEW a \in Agents, NEW says \in Compilations, AnswerFirst(a, says)
    PROVE  DInv'
<1> DEFINE k == AboutTo(a)
           r == child[k]
           s == IF says = "compiled" THEN Completed(r, r.found, Nobody)
                ELSE Failed(r, Nobody)
           t == IF r # work[a].record THEN r ELSE SavedOver(r, s)
<1>1. /\ Doing(a, "asking") /\ Put(k, t) /\ Stops(a) /\ Lets(a)
      /\ UNCHANGED <<parentOpen, altered, asked>>
  BY DEF AnswerFirst, Child
<1>2. /\ k \in Requests /\ r # Nobody /\ holder[k] = a /\ work[a].record.state = "awaiting"
  BY <1>1 DEF DInv, CallerOK
<1>3. r \in Children /\ RecordOK(r) /\ r.attempts \in Nat
  BY <1>2, ChildFacts
<1>4. CASE r = work[a].record
  <2>1. s \in Children /\ RecordOK(s) /\ s.attempts = r.attempts
    BY <1>2, <1>3, <1>4, FirstAnswerKeeps
  <2> HIDE DEF s
  <2>2. t \in Children /\ RecordOK(t) /\ r.attempts <= t.attempts
    BY <1>3, <1>4, <2>1, SavedKeeps
  <2> HIDE DEF t, r, k
  <2> QED
    BY <1>1, <1>2, <2>2, ChildEndKeeps DEF r
<1>5. CASE r # work[a].record
  <2>1. t = r
    BY <1>5
  <2> HIDE DEF s, t, k
  <2> QED
    BY <1>1, <1>2, <1>3, <2>1, ChildEndKeeps
<1> QED
  BY <1>4, <1>5

\* A hosted submission, too: what it was compiled against is what is on record.
LEMMA EndSubmissionKeeps ==
    ASSUME DInv, NEW a \in Agents, NEW says \in Compilations, EndSubmission(a, says)
    PROVE  DInv'
<1> DEFINE k == AboutTo(a)
           r == child[k]
           seen == work[a].record
           s == IF says = "compiled" THEN Completed(r, seen.found, work[a].call)
                ELSE Failed(r, work[a].call)
           t == IF r # seen \/ (says = "compiled" /\ altered) THEN r ELSE SavedOver(r, s)
<1>1. /\ Doing(a, "submitting") /\ Put(k, t) /\ Stops(a) /\ Lets(a)
      /\ UNCHANGED <<parentOpen, altered, asked>>
  BY DEF EndSubmission, Child
<1>2. k \in Requests /\ r # Nobody /\ holder[k] = a /\ seen.state = "awaiting"
  BY <1>1, DerivativeAssumption DEF DInv, CallerOK
<1>3. r \in Children /\ RecordOK(r) /\ r.attempts \in Nat
  BY <1>2, ChildFacts
<1>4. work[a].call \in CallIds \cup {Nobody}
  BY DEF DInv, DerivativeTypes, Works
<1>5. CASE t = r
  <2> HIDE DEF s, t, k, seen
  <2> QED
    BY <1>1, <1>2, <1>3, <1>5, ChildEndKeeps
<1>6. CASE t # r
  <2>1. r = seen /\ t = SavedOver(r, s)
    BY <1>6
  <2>2. s \in Children /\ RecordOK(s) /\ s.attempts = r.attempts
    BY <1>2, <1>3, <1>4, <2>1, FirstAnswerKeeps
  <2> HIDE DEF s
  <2>3. t \in Children /\ RecordOK(t) /\ r.attempts <= t.attempts
    BY <1>3, <2>1, <2>2, SavedKeeps
  <2> HIDE DEF t, r, k, seen
  <2> QED
    BY <1>1, <1>2, <2>3, ChildEndKeeps DEF r
<1> QED
  BY <1>5, <1>6

\* A follow-up's answer finds the record it was reserved in, or reloads.
LEMMA FollowupKeeps ==
    ASSUME DInv, NEW a \in Agents, AnswersFollowup(a)
    PROVE  DInv'
<1> DEFINE k == AboutTo(a)
           r == child[k]
           Filed(s) == IF r # work[a].record THEN Reloaded(r) ELSE SavedOver(r, s)
<1>1. PICK s \in Answered(r, Nobody) :
        /\ Doing(a, "following") /\ Put(k, Filed(s)) /\ Stops(a)
        /\ UNCHANGED <<parentOpen, altered, holder, asked>>
  BY DEF AnswersFollowup, AnswerFollowup, Answered, Child
<1> DEFINE t == Filed(s)
<1>2. /\ k \in Requests /\ r # Nobody
      /\ work[a].record.state = "completed" /\ work[a].record.life = "revising"
  BY <1>1 DEF DInv, CallerOK
<1>3. /\ r \in Children /\ RecordOK(r) /\ r.attempts \in Nat
      /\ Reloaded(r) \in Children /\ RecordOK(Reloaded(r))
      /\ Reloaded(r).attempts = r.attempts
      /\ Reloaded(r) = r \/ Reloaded(r).life = "stale"
  BY <1>2, ChildFacts
<1>4. CASE r # work[a].record
  <2>1. t = Reloaded(r)
    BY <1>4
  <2>2. Put(k, t) /\ r.attempts <= t.attempts
    BY <1>1, <1>3, <2>1
  <2> HIDE DEF t, k
  <2> QED
    BY <1>1, <1>2, <1>3, <2>1, <2>2, ChildEndKeeps
<1>5. CASE r = work[a].record
  <2>1. s \in Children /\ RecordOK(s) /\ s.attempts = r.attempts
    BY <1>1, <1>2, <1>3, <1>5, AnsweredKeeps
  <2>2. t = SavedOver(r, s)
    BY <1>5
  <2>3. t \in Children /\ RecordOK(t) /\ r.attempts <= t.attempts /\ Put(k, t)
    BY <1>1, <1>3, <2>1, <2>2, SavedKeeps
  <2>4. Quiet(k)
    BY <1>2, <1>5, QuietWhen
  <2> HIDE DEF t, r, k
  <2> QED
    BY <1>1, <1>2, <2>3, <2>4, ChildEndKeeps DEF r
<1> QED
  BY <1>4, <1>5

\* A surface that meets a turn without an answer finds its lock free; a hosted
\* model's evidence, lease and follow-up are of children that no provider is asked
\* about; the other writes are of records that wait for no first answer.
LEMMA RecordStepKeeps ==
    ASSUME DInv, NEW k \in Requests, child[k] # Nobody,
           \/ RecoverFirst(k) \/ FindEvidence(k) \/ RenewLease(k) \/ BeginHostFollowup(k)
           \/ KeepPreviousOf(k) \/ AcceptChild(k) \/ Reopen(k)
           \/ \E call \in CallIds, usable \in BOOLEAN : SubmitHostFollowup(k, call, usable)
    PROVE  DInv'
<1> DEFINE r == child[k]
<1>1. /\ r \in Children /\ RecordOK(r) /\ r.attempts \in Nat
      /\ Reloaded(r) \in Children /\ RecordOK(Reloaded(r))
      /\ Reloaded(r).attempts = r.attempts
      /\ Reloaded(r) = r \/ Reloaded(r).life = "stale"
  BY ChildFacts
<1>2. ASSUME NEW t \in Children, RecordOK(t), t.attempts = r.attempts \/
               t.attempts = r.attempts + 1, Put(k, t),
             t = r \/ t.life = "stale" \/ Quiet(k),
             UNCHANGED <<parentOpen, altered, holder, work, asked>>
      PROVE  DInv'
  <2>1. r.attempts <= t.attempts
    BY <1>1, <1>2
  <2> QED
    BY <1>2, <2>1, RecordKeeps
<1>3. ASSUME NEW life \in ChildLives, life # "stale"
      PROVE  /\ Moved(r, life) \in Children /\ RecordOK(Moved(r, life))
             /\ Moved(r, life).attempts = r.attempts
  BY <1>1, <1>3, MovedFields DEF RecordOK
<1>4. CASE RecoverFirst(k)
  <2>1. holder[k] = Nobody /\ r.state = "awaiting"
        /\ UNCHANGED <<parentOpen, altered, holder, work, asked>>
    BY <1>4 DEF RecoverFirst, Turn, Child
  <2>2. Quiet(k)
    BY <2>1, QuietWhen
  <2>3. CASE Put(k, Failed(r, Nobody))
    <3>1. Failed(r, Nobody) \in Children /\ RecordOK(Failed(r, Nobody))
          /\ Failed(r, Nobody).attempts = r.attempts
      BY <1>1, <2>1, FirstAnswerKeeps
    <3> QED
      BY <1>2, <2>1, <2>2, <2>3, <3>1
  <2>4. CASE Put(k, Reloaded(r))
    BY <1>1, <1>2, <2>1, <2>2, <2>4
  <2> QED
    BY <1>4, <2>3, <2>4 DEF RecoverFirst, BlocksIfCurrent, Child
<1>5. CASE FindEvidence(k)
  <2> DEFINE m == Moved(r, "revising")
             v == m.found + 1
             t == [m EXCEPT !.found = v]
  <2>1. m \in Children /\ RecordOK(m) /\ m.attempts = r.attempts /\ m.state = "awaiting"
        /\ r.state = "awaiting"
    BY <1>1, <1>3, <1>5, MovedFields DEF ChildLives, FindEvidence, Turn, Child
  <2>2. k \in HostRequests /\ Put(k, t)
        /\ UNCHANGED <<parentOpen, altered, holder, work, asked>>
    BY <1>5 DEF FindEvidence, Child
  <2>3. v \in Nat
    BY <2>1 DEF Children
  <2> HIDE DEF m, v
  <2>4. t \in Children /\ t.state = m.state /\ t.life = m.life /\ t.pending = m.pending
        /\ t.first = m.first /\ t.second = m.second /\ t.attempts = m.attempts
    BY <2>1, <2>3 DEF Children
  <2>5. RecordOK(t)
    BY <2>1, <2>4 DEF RecordOK
  <2> HIDE DEF t
  <2> QED
    BY <1>2, <2>1, <2>2, <2>4, <2>5, QuietWhen
<1>6. CASE RenewLease(k)
  <2> DEFINE v == r.lease + 1
             t == [r EXCEPT !.lease = v]
  <2>1. k \in HostRequests /\ Put(k, t)
        /\ UNCHANGED <<parentOpen, altered, holder, work, asked>>
    BY <1>6 DEF RenewLease, Renewed, Child
  <2>2. v \in Nat
    BY <1>1 DEF Children
  <2> HIDE DEF r, v
  <2>3. t \in Children /\ t.state = r.state /\ t.life = r.life /\ t.pending = r.pending
        /\ t.first = r.first /\ t.second = r.second /\ t.attempts = r.attempts
        /\ t.found = r.found /\ t.cites = r.cites
    BY <1>1, <2>2 DEF Children
  <2>4. RecordOK(t)
    BY <1>1, <2>3 DEF RecordOK
  <2> HIDE DEF t
  <2>5. Quiet(k)
    BY <2>1, QuietWhen
  <2> QED
    BY <1>2, <2>1, <2>3, <2>4, <2>5
<1>7. CASE BeginHostFollowup(k)
  <2>1. k \in HostRequests /\ CanFollow(r) /\ Put(k, FollowupReserved(r))
        /\ UNCHANGED <<parentOpen, altered, holder, work, asked>>
    BY <1>7 DEF BeginHostFollowup, Child
  <2>2. FollowupReserved(r) \in Children /\ RecordOK(FollowupReserved(r))
        /\ FollowupReserved(r).attempts = r.attempts + 1
    BY <1>1, <2>1, ReservedKeeps
  <2> QED
    BY <1>2, <2>1, <2>2, QuietWhen
<1>8. CASE KeepPreviousOf(k)
  <2> DEFINE m == Moved(r, "reviewing")
             t == [m EXCEPT !.failure = FALSE]
  <2>1. r.life = "revision_failed" /\ Put(k, t)
        /\ UNCHANGED <<parentOpen, altered, holder, work, asked>>
    BY <1>8 DEF KeepPreviousOf, Child
  <2>2. m \in Children /\ RecordOK(m) /\ m.attempts = r.attempts
    BY <1>3 DEF ChildLives
  <2> HIDE DEF m
  <2>3. t \in Children /\ t.state = m.state /\ t.life = m.life /\ t.pending = m.pending
        /\ t.first = m.first /\ t.second = m.second /\ t.attempts = m.attempts
        /\ t.found = m.found /\ t.cites = m.cites
    BY <2>2 DEF Children
  <2>4. RecordOK(t)
    BY <2>2, <2>3 DEF RecordOK
  <2> HIDE DEF t
  <2>5. Quiet(k)
    BY <2>1, DerivativeAssumption DEF Quiet, DInv, CallerOK
  <2> QED
    BY <1>2, <2>1, <2>2, <2>3, <2>4, <2>5
<1>9. CASE AcceptChild(k)
  <2>1. r.life = "reviewing" /\ r.state = "completed" /\ Put(k, Moved(r, "executing"))
        /\ UNCHANGED <<parentOpen, altered, holder, work, asked>>
    BY <1>9 DEF AcceptChild, Executable, Child
  <2>2. Quiet(k)
    BY <2>1, QuietWhen
  <2>3. "executing" \in ChildLives
    BY DEF ChildLives
  <2> QED
    BY <1>2, <1>3, <2>1, <2>2, <2>3
<1>10. CASE Reopen(k)
  <2> DEFINE q == Reloaded(r)
             t == IF q.pending /\ k \notin HostRequests
                  THEN SavedOver(q, FollowupUnanswered(q)) ELSE q
  <2>1. Put(k, t) /\ UNCHANGED <<parentOpen, altered, holder, work, asked>>
    BY <1>10 DEF Reopen, Child
  <2>2. CASE t = q
    BY <1>1, <1>2, <2>1, <2>2
  <2>3. CASE t # q
    <3>1. q.pending /\ t = SavedOver(q, FollowupUnanswered(q))
      BY <2>3
    <3>2. q.state = "completed" /\ q.life # "stale" /\ q = r
      BY <1>1, <3>1 DEF RecordOK
    <3>3. FollowupUnanswered(q) \in Children /\ RecordOK(FollowupUnanswered(q))
          /\ FollowupUnanswered(q).attempts = q.attempts
      BY <1>1, <3>2, AnsweredKeeps DEF Answered
    <3>4. t \in Children /\ RecordOK(t) /\ r.attempts <= t.attempts
      BY <1>1, <3>1, <3>2, <3>3, SavedKeeps
    <3>5. Quiet(k)
      BY <3>2, QuietWhen
    <3> HIDE DEF t, q
    <3> QED
      BY <2>1, <3>4, <3>5, RecordKeeps
  <2> QED
    BY <2>2, <2>3
<1>11. ASSUME NEW call \in CallIds, NEW usable \in BOOLEAN,
              SubmitHostFollowup(k, call, usable)
       PROVE  DInv'
  <2> DEFINE s == IF usable THEN FollowupAccepted(r, call) ELSE FollowupRejected(r, call)
  <2>1. k \in HostRequests /\ r.pending /\ r.first # call /\ Put(k, s)
        /\ UNCHANGED <<parentOpen, altered, holder, work, asked>>
    BY <1>11 DEF SubmitHostFollowup, SubmittedFirst, Child
  <2>2. s \in Answered(r, call) /\ r.state = "completed"
    BY <1>1, <2>1 DEF Answered, RecordOK
  <2> HIDE DEF s
  <2>3. s \in Children /\ RecordOK(s) /\ s.attempts = r.attempts
    BY <1>1, <2>1, <2>2, AnsweredKeeps
  <2> QED
    BY <1>2, <2>1, <2>3, QuietWhen
<1> QED
  BY <1>4, <1>5, <1>6, <1>7, <1>8, <1>9, <1>10, <1>11
-----------------------------------------------------------------------------
(* The invariant *)

LEMMA DInvInit == DerivativeInit => DInv
<1> SUFFICES ASSUME DerivativeInit PROVE DInv
  OBVIOUS
<1>1. Idle \in Works /\ Idle.step = "idle"
  BY DEF Idle, Works
<1>2. DerivativeTypes
  BY <1>1 DEF DerivativeInit, DerivativeTypes
<1>3. \A k \in Requests : ChildOK(k)
  BY DEF DerivativeInit, ChildOK
<1>4. \A a \in Agents : MakerOK(a) /\ CallerOK(a)
  BY <1>1 DEF DerivativeInit, MakerOK, CallerOK, Doing
<1> QED
  BY <1>2, <1>3, <1>4 DEF DInv

LEMMA DInvNext == DInv /\ [DerivativeNext]_derivative => DInv'
<1> SUFFICES ASSUME DInv, [DerivativeNext]_derivative PROVE DInv'
  OBVIOUS
<1>1. CASE ParentLeaves \/ Alter \/ UNCHANGED derivative
  BY <1>1, OutsideKeeps
<1>2. ASSUME NEW a \in Agents,
             Quit(a) \/ AskFirst(a) \/ RefuseFirst(a) \/ FindClosed(a) \/ AnswersFollowup(a)
      PROVE  DInv'
  BY <1>2, OutsideKeeps, AskFirstKeeps, RefusalKeeps, FollowupKeeps
<1>3. ASSUME NEW a \in Agents, NEW says \in Compilations,
             AnswerFirst(a, says) \/ EndSubmission(a, says)
      PROVE  DInv'
  BY <1>3, AnswerFirstKeeps, EndSubmissionKeeps
<1>4. ASSUME NEW a \in Agents, NEW k \in Requests, DeriveDirect(a, k)
      PROVE  DInv'
  <2>1. /\ k \notin HostRequests /\ child[k] = Nobody /\ Put(k, NewChild)
        /\ Doing(a, "idle") /\ Starts(a, "created", k, Nobody, Nobody)
        /\ UNCHANGED <<parentOpen, altered, holder, asked>>
    BY <1>4 DEF DeriveDirect, Child
  <2> QED
    BY <2>1, DeriveKeeps
<1>5. ASSUME NEW a \in Agents, NEW k \in Requests,
             ReserveFollowup(a, k) \/ RefuseSubmission(a, k)
      PROVE  DInv'
  BY <1>5, ReserveFollowupKeeps, RefusalKeeps
<1>6. ASSUME NEW a \in Agents, NEW k \in Requests, NEW call \in CallIds,
             BeginSubmission(a, k, call)
      PROVE  DInv'
  BY <1>6, BeginSubmissionKeeps
<1>7. ASSUME NEW k \in Requests, DeriveHosted(k)
      PROVE  DInv'
  <2>1. /\ child[k] = Nobody /\ Put(k, NewChild)
        /\ UNCHANGED <<parentOpen, altered, holder, work, asked>>
    BY <1>7 DEF DeriveHosted, Child
  <2> QED
    BY <2>1, DeriveKeeps
<1>8. ASSUME NEW k \in Requests,
             \/ RecoverFirst(k) \/ FindEvidence(k) \/ RenewLease(k)
             \/ BeginHostFollowup(k) \/ KeepPreviousOf(k) \/ AcceptChild(k) \/ Reopen(k)
             \/ \E call \in CallIds, usable \in BOOLEAN :
                  SubmitHostFollowup(k, call, usable)
      PROVE  DInv'
  <2>1. child[k] # Nobody
    BY <1>8 DEF RecoverFirst, FindEvidence, RenewLease, BeginHostFollowup, KeepPreviousOf,
                AcceptChild, Reopen, SubmitHostFollowup, Turn, Child
  <2> QED
    BY <1>8, <2>1, RecordStepKeeps
<1> QED
  BY <1>1, <1>2, <1>3, <1>4, <1>5, <1>6, <1>7, <1>8 DEF DerivativeNext

LEMMA DInvAlways == DerivativeSpec => []DInv
BY DInvInit, DInvNext, PTL DEF DerivativeSpec

\* Whatever agents create, retry, interrupt, recover or reopen a child, no turn of
\* it is put to a provider twice (submit_direct_derivative_revision,
\* recover_interrupted_direct_derivative, _revise_direct_derivative_followup).
THEOREM TurnsAskedForOnce == DerivativeSpec => []NoTurnAskedTwice
<1>1. DInv => NoTurnAskedTwice
  <2> SUFFICES ASSUME DInv, NEW k \in Requests
               PROVE  asked[k].first <= 1 /\ asked[k].second <= 1
    BY DEF NoTurnAskedTwice, DInv
  <2>1. asked[k].first \in Nat /\ asked[k].second \in Nat /\ ChildOK(k)
    BY DEF DInv, DerivativeTypes
  <2> QED
    BY <2>1 DEF ChildOK, RecordOK
<1> QED
  BY <1>1, DInvAlways, PTL

\* What a provider or a hosted model answers is filed with the record it was
\* asked or compiled for, and no submission ends both turns of a child
\* (_persist_derivative_success, submit_host_derivative_revision).
THEOREM AnswersStayWithTheirRecord == DerivativeSpec => []AnswersAreKept
<1>1. DInv => AnswersAreKept
  <2> SUFFICES ASSUME DInv PROVE AnswersAreKept
    OBVIOUS
  <2>1. ASSUME NEW a \in Agents, Doing(a, "asking")
        PROVE  /\ holder[AboutTo(a)] = a
               /\ \/ Child(AboutTo(a)) = work[a].record
                  \/ Child(AboutTo(a)).life = "stale"
    BY <2>1 DEF DInv, CallerOK, Child
  <2>2. ASSUME NEW k \in Requests, Child(k) # Nobody
        PROVE  /\ Child(k).state = "completed" => Child(k).cites = Child(k).found
               /\ Child(k).second # Nobody => Child(k).second # Child(k).first
    BY <2>2, ChildFacts DEF RecordOK, Child
  <2> QED
    BY <2>1, <2>2 DEF AnswersAreKept
<1> QED
  BY <1>1, DInvAlways, PTL
================================================================================
