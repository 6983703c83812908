-------------------------- MODULE ConnectedChange --------------------------
(***************************************************************************)
(* A reviewed reorganisation becomes a result with its proof and a Change  *)
(* File, and the Change File reorganises another copy of the project the   *)
(* same way: plan and revision (compiler.py, sparse_revision.py), copy and *)
(* proof (transaction.py, service.py, descriptors.py), independent         *)
(* verification (verification.py), match, application and restoration      *)
(* (matcher.py, service.py, reconstruction.py).                            *)
(*                                                                         *)
(* A hash is the value it is the hash of.                                  *)
(***************************************************************************)
EXTENDS Matcher

CONSTANTS Origins,       \* the folders a user may select
          Entries(_),    \* the entries a planner may answer for a folder
          Receivers(_),  \* the folders a Change File of a folder may be applied to
          None

\* What is selected or received is on a disk, and a target that is proposed is a path.
ASSUME FoldersAssumption ==
    \A o \in Origins :
      /\ IsFolder(o)
      /\ \A q \in Receivers(o) : IsFolder(q)
      /\ \A e \in Entries(o) : \A p \in DOMAIN e : e[p] \in Seq(Component)

VARIABLES step,      \* how far the work has got
          source,    \* the origin's folder
          plan,      \* where the accepted map puts each file
          result,    \* the origin's result, with its proof
          receiver,  \* the receiver's folder
          described, \* the roles of the Change File and the receiver's files
          color, round,  \* the matcher's colouring, and its rounds so far
          mapping,   \* the match report: the receiver's file of each role
          code,      \* why something was refused
          copy,      \* the receiver's result
          restored   \* the results that were restored

vars == <<step, source, plan, result, receiver, described, color, round, mapping, code, copy, restored>>
matching == <<receiver, described, color, round, mapping, copy>>
-----------------------------------------------------------------------------
(***************************************************************************)
(* A result and its proof.                                                 *)
(***************************************************************************)

\* The reference graph of a result, and the rows that say what became of each file.
DerivedGraph(files, map) ==
    LET graph == Graph(files)
    IN [r \in DOMAIN graph |->
          [target |-> graph[r], dest |-> Proposed(graph, map)[r],
           rewritten |-> r \in Rewritten(files, graph, map)]]
Rows(derived, map) ==
    [p \in DOMAIN map |->
       [to |-> map[p],
        rewritten |-> \E r \in DOMAIN derived : r[1] = p /\ derived[r].rewritten]]

Data(project, map, rows) ==
    [files |-> [t \in {map[p] : p \in DOMAIN map} |->
        LET p == CHOOSE q \in DOMAIN map : map[q] = t
        IN IF rows[p].rewritten
             THEN ApplyRewrites(project.files[p], p, Graph(project.files), map)
             ELSE project.files[p]],
     empty |-> project.empty]

\* The Change File's core: the roles, where each goes, and the tree to arrive at.
Core(files, empty, map, tree) ==
    [role |-> Descriptors("origin", files), place |-> map, empty |-> empty, tree |-> tree]

Package(project, map, core, matched) ==
    LET derived == DerivedGraph(project.files, map)
        rows == Rows(derived, map)
    IN [snapshot |-> project, plan |-> map, graph |-> derived, rows |-> rows,
        original |-> [p \in {q \in DOMAIN map : rows[q].rewritten} |-> project.files[p]],
        data |-> Data(project, map, rows), core |-> core, mapping |-> matched]

\* The source's files as the proof gives them back.
Recovered(package) ==
    [p \in DOMAIN package.rows |->
       IF package.rows[p].rewritten THEN package.original[p]
       ELSE package.data.files[package.rows[p].to]]

\* Source-free verification: everything follows again from what is in the result,
\* the payloads from the originals, the rows and links from the accepted map, and
\* the Change File from the one, or the map from the other.
SamePayloads(package) ==
    LET files == Recovered(package)
    IN /\ files = package.snapshot.files
       /\ \A p \in DOMAIN package.original :
            package.data.files[package.plan[p]]
              = ApplyRewrites(package.original[p], p, Graph(files), package.plan)

OriginVerified(package) ==
    package.core = Core(Recovered(package), package.snapshot.empty, package.plan, package.data)

ReceiverVerified(package) ==
    /\ package.data = package.core.tree
    /\ package.plan =
         [p \in DOMAIN Recovered(package) |->
            package.core.place[CHOOSE o \in DOMAIN package.core.place :
                                 package.mapping[o] = p]]

Verified(package) ==
    LET files == Recovered(package)
    IN /\ ValidPlan(DOMAIN files, package.snapshot.empty, package.plan)
       /\ package.graph = DerivedGraph(files, package.plan)
       /\ package.rows = Rows(package.graph, package.plan)
       /\ SamePayloads(package)
       /\ IF package.mapping = <<>> THEN OriginVerified(package) ELSE ReceiverVerified(package)
-----------------------------------------------------------------------------
(***************************************************************************)
(* The origin.                                                             *)
(***************************************************************************)
Init ==
    /\ step = "start" /\ source = None /\ plan = <<>> /\ result = None
    /\ receiver = None /\ described = <<>> /\ color = <<>> /\ round = 0 /\ mapping = <<>>
    /\ code = "none" /\ copy = None /\ restored = {}

Select(p) ==
    /\ step = "start"
    /\ IF Readable(p)
         THEN step' = "planning" /\ source' = p /\ UNCHANGED code
         ELSE step' = "refused" /\ code' = "source_refused" /\ UNCHANGED source
    /\ UNCHANGED <<plan, result, matching, restored>>

\* compile_plan.
Compiles(entries) ==
    LET map == Completed(source, entries)
    IN /\ CompleteEntries(source, entries)
       /\ ValidPlan(Paths(source), source.empty, map)
       /\ Derivable(source.files, Graph(source.files), map)

Submit(entries) ==
    /\ step = "planning"
    /\ IF Compiles(entries)
         THEN /\ step' = "reviewing" /\ plan' = Completed(source, entries)
              /\ code' = "none"
         ELSE code' = "plan_rejected" /\ UNCHANGED <<step, plan>>
    /\ UNCHANGED <<source, result, matching, restored>>

\* A revision names only the files it moves; the others stay as reviewed.  It
\* may rename the result folder, alone or as well.
Revise(entries, renames) ==
    LET revised == [p \in {q \in Paths(source) : ~Protected(q)} |->
                      IF p \in DOMAIN entries THEN entries[p] ELSE plan[p]]
    IN /\ step = "reviewing"
       /\ IF /\ \A p \in DOMAIN entries : p \in Paths(source) /\ ~Protected(p)
             /\ renames \/ \E p \in DOMAIN entries : entries[p] # plan[p]
             /\ Compiles(revised)
            THEN plan' = Completed(source, revised) /\ code' = "none"
            ELSE code' = "revision_rejected" /\ UNCHANGED plan
       /\ UNCHANGED <<step, source, result, matching, restored>>

\* execute_accepted_folder_plan up to the proof: what it checks again, and the copy.
Executable(project, map, disk) ==
    /\ ValidPlan(Paths(project), project.empty, map)
    /\ Derivable(project.files, Graph(project.files), map)
    /\ Writable(disk, map, project.empty)

Produce(disk) ==
    LET data == Package(source, plan, None, <<>>).data
        package == Package(source, plan, Core(source.files, source.empty, plan, data), <<>>)
    IN /\ step = "reviewing"
       /\ IF Executable(source, plan, disk) /\ Verified(package)
            THEN step' = "produced" /\ result' = package
            ELSE step' = "failed" /\ UNCHANGED result
       /\ code' = "none"
       /\ UNCHANGED <<source, plan, matching, restored>>
-----------------------------------------------------------------------------
(***************************************************************************)
(* The receiver.                                                           *)
(***************************************************************************)
Receive(q) ==
    /\ step = "produced"
    /\ receiver' = q
    /\ IF Readable(q)
         THEN /\ step' = "described"
              /\ described' = Compared(result.core.role, q.files)
              /\ UNCHANGED code
         ELSE step' = "refused" /\ code' = "receiver_refused" /\ UNCHANGED described
    /\ UNCHANGED <<source, plan, result, color, round, mapping, copy, restored>>

Block(reason) == step' = "blocked" /\ code' = reason

Preflight ==
    LET reason == Blocker(described, receiver.empty, result.core.empty)
    IN /\ step = "described"
       /\ IF reason # "none" THEN Block(reason) /\ UNCHANGED color
          ELSE IF ~SameTally(Initial(described))
            THEN Block("receiver_relationship_changed") /\ UNCHANGED color
          ELSE step' = "refining" /\ color' = Initial(described) /\ UNCHANGED code
       /\ UNCHANGED <<source, plan, result, receiver, described, round, mapping, copy, restored>>

Refine ==
    LET next == Refined(described, color)
        stable == \A side \in Sides : SamePartition(side, color, next)
    IN /\ step = "refining"
       /\ round' = round + 1
       /\ IF ~SameTally(next)
            THEN Block("receiver_relationship_changed") /\ UNCHANGED color
            ELSE /\ color' = next
                 /\ step' = IF stable \/ round' = Cardinality(DOMAIN result.core.place)
                              THEN "settled" ELSE "refining"
                 /\ UNCHANGED code
       /\ UNCHANGED <<source, plan, result, receiver, described, mapping, copy, restored>>

Conclude ==
    /\ step = "settled"
    /\ IF Ambiguous(color)
         THEN Block("receiver_ambiguous_duplicate_group") /\ UNCHANGED mapping
         ELSE step' = "matched" /\ mapping' = Mapping(color) /\ UNCHANGED code
    /\ UNCHANGED <<source, plan, result, receiver, described, color, round, copy, restored>>

\* The receiver's own plan: each of its files goes where its role went.
Placed ==
    [p \in Paths(receiver) |->
       IF Protected(p) THEN p
       ELSE result.core.place[CHOOSE o \in DOMAIN mapping : mapping[o] = p]]

\* It is built and derived for the review, and executed once it is accepted.
Review ==
    /\ step = "matched"
    /\ step' = IF /\ ValidPlan(Paths(receiver), receiver.empty, Placed)
                  /\ Derivable(receiver.files, Graph(receiver.files), Placed)
                 THEN "receiver_review" ELSE "failed"
    /\ UNCHANGED <<source, plan, result, matching, code, restored>>

Apply(disk) ==
    LET package == Package(receiver, Placed, result.core, mapping)
    IN /\ step = "receiver_review"
       /\ IF /\ Executable(receiver, Placed, disk)
             /\ package.data = result.core.tree
             /\ Verified(package)
            THEN step' = "applied" /\ copy' = package
            ELSE step' = "failed" /\ UNCHANGED copy
       /\ UNCHANGED <<source, plan, result, receiver, described, color, round, mapping, code,
                      restored>>

Packages == {result, copy} \ {None}

\* restore_connected_result: verify, copy every file back to its path on some
\* disk, and compare the whole with the snapshot.
Original(project) == [p \in Paths(project) |-> p]
Restore(disk, package) ==
    /\ step \in {"produced", "applied"}
    /\ IF /\ Verified(package)
          /\ Recovered(package) = package.snapshot.files
          /\ ScannableTree(package.snapshot)
          /\ Writable(disk, Original(package.snapshot), package.snapshot.empty)
         THEN restored' = restored \cup {package.mapping # <<>>} /\ UNCHANGED step
         ELSE /\ step' = IF disk = "exact" THEN "failed" ELSE "not_restored"
              /\ UNCHANGED restored
    /\ UNCHANGED <<source, plan, result, matching, code>>
-----------------------------------------------------------------------------
Next ==
    \/ \E p \in Origins : Select(p)
    \/ \E e \in Entries(source) : Submit(e)
    \/ \E e \in Entries(source), renames \in BOOLEAN : Revise(e, renames)
    \/ \E disk \in Disks : Produce(disk) \/ Apply(disk)
    \/ \E q \in Receivers(source) : Receive(q)
    \/ Preflight
    \/ Refine
    \/ Conclude
    \/ Review
    \/ \E disk \in Disks, package \in Packages : Restore(disk, package)

Spec == Init /\ [][Next]_vars
-----------------------------------------------------------------------------

(***************************************************************************)
(* Types: an accepted map names every file of its source and leaves the    *)
(* protected ones alone (compiler.py, accepted_plan.py), the matcher ends  *)
(* within as many rounds as there are roles, its classes always hold their *)
(* members, and its report pairs roles and files one to one (matcher.py).  *)
(***************************************************************************)
TypeOK ==
    /\ step \in {"start", "planning", "reviewing", "produced", "described",
                  "refining", "settled", "matched", "receiver_review", "applied", "blocked",
                  "refused", "not_restored", "failed"}
    /\ source # None => Readable(source)
    /\ plan # <<>> => /\ DOMAIN plan = Paths(source)
                      /\ \A p \in Paths(source) : Protected(p) => plan[p] = p
                      /\ IsInjective(plan)
    /\ receiver # None /\ step # "refused" => Readable(receiver)
    /\ source # None => round <= Cardinality(Paths(source))
    /\ \A m \in DOMAIN color : m \in color[m]
    /\ mapping # <<>> => mapping \in Bijection(Paths(source), Paths(receiver))
    /\ restored \subseteq BOOLEAN

(***************************************************************************)
(* A receiver is matched only if it is the origin's project under other    *)
(* paths, and in the one way it can be; it is told to have changed only if *)
(* it cannot be (matcher.py: match and the preflight before it).  Every     *)
(* class of the refinement holds its members and the report pairs roles    *)
(* and files one to one (TypeOK).                                          *)
(***************************************************************************)
MatchIsExact ==
    LET same == {f \in Pairings(described) : SameProject(described, f)}
        folders == receiver.empty = source.empty
    IN /\ TypeOK
       /\ step \in {"matched", "receiver_review", "applied"} =>
            folders /\ same = {mapping}
       /\ step = "blocked" /\ code # "receiver_ambiguous_duplicate_group" =>
            ~folders \/ same = {}

(***************************************************************************)
(* Nothing that was accepted is refused later: an accepted map can be      *)
(* written to a disk that tells case apart and to one that does not, the   *)
(* result passes its own verification, a matched receiver arrives at the   *)
(* tree the Change File commits to, and every result can be restored       *)
(* wherever its source's own names can be told apart (transaction.py,      *)
(* verification.py, service.py, reconstruction.py).  Each link of a result *)
(* leads to where its target went, and a result can be selected as a       *)
(* source again unless a note with links was given a sensitive name.       *)
(***************************************************************************)
AcceptanceIsKept ==
    /\ step # "failed"
    /\ step = "not_restored" =>
         \E package \in Packages :
           ~Writable("folding", Original(package.snapshot), package.snapshot.empty)
    /\ \A package \in Packages :
         LET graph == Graph(package.snapshot.files)
             Target(p) == package.plan[p]
         IN /\ \A r \in DOMAIN graph :
                 Resolved(Target(r[1]),
                          package.data.files[Target(r[1])].links[r[2]].dest)
                   = Target(graph[r])
            /\ (\A r \in DOMAIN graph : ~Protected(Target(r[1])))
                 => Readable(package.data)
=============================================================================
