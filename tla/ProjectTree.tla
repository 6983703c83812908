----------------------------- MODULE ProjectTree -----------------------------
(***************************************************************************)
(* Folders as the program sees them: which names it protects, which        *)
(* result paths it accepts (folder_refactor/naming.py, inventory.py,       *)
(* compiler.py, connected_change/accepted_plan.py), and what becomes of    *)
(* an accepted map on a disk (transaction.py).                             *)
(*                                                                         *)
(* A path is a sequence of names.  A project has files, each with the text *)
(* a reader sees and the local links in it, and explicit empty folders.    *)
(***************************************************************************)
EXTENDS Naturals, Sequences, FiniteSets, SequencesExt, Functions

CONSTANTS Name,      \* path components
          Fold,      \* the name a case-insensitive comparison sees
          Suffix,    \* what follows the first period of a name
          Hidden,    \* names that begin with a period
          Sensitive, \* names of files that are not to be touched
          Unusable   \* names the result profile refuses, reserved or badly ended

ASSUME NameAssumption ==
    /\ DOMAIN Fold = Name /\ DOMAIN Suffix = Name
    /\ Hidden \cup Sensitive \cup Unusable \subseteq Name
    /\ ".." \notin Name /\ "." \notin Name
-----------------------------------------------------------------------------
\* Mutant: collisions are looked for among exact names only.
KeyExact(p) == p

Key(p) == [i \in DOMAIN p |-> Fold[p[i]]]
Protected(p) == Last(p) \in Sensitive \/ \E i \in DOMAIN p : p[i] \in Hidden
Ancestors(p) == {SubSeq(p, 1, k) : k \in 1..(Len(p) - 1)}

\* The folders that files and empty folders at these paths need.
Directories(files, empty) ==
    empty \cup UNION {Ancestors(p) : p \in files \cup empty}

Paths(project) == DOMAIN project.files

\* A protected file and an empty folder stay where they are; any other file
\* goes to a path of usable, visible names that ends like its own.  Nothing
\* forbids a sensitive name, so a file may become protected by its new place.
ValidTarget(target, original, fixed) ==
    /\ target # <<>>
    /\ \A i \in DOMAIN target : target[i] \in Name \ Unusable
    /\ fixed => target = original
    /\ ~fixed => /\ \A i \in DOMAIN target : target[i] \notin Hidden
                 /\ Suffix[Last(target)] = Suffix[Last(original)]

\* validate_complete_target_tree, of a map from files to targets.
ValidTree(target, empty) ==
    LET files == {target[f] : f \in DOMAIN target}
        directories == Directories(files, empty)
        FolderKeys == {Key(d) : d \in directories}
        EmptyKeys == {Key(e) : e \in empty}
    IN /\ \A f, g \in DOMAIN target : Key(target[f]) = Key(target[g]) => f = g
       /\ \A e, d \in empty : Key(e) = Key(d) => e = d
       /\ \A p \in files : Key(p) \notin FolderKeys
       /\ \A p \in files : \A d \in Ancestors(p) : Key(d) \notin EmptyKeys
       /\ \A d, e \in directories : Key(d) = Key(e) => d = e

\* What scan_folder refuses of a source beyond its links.
ScannableTree(project) ==
    LET kept == {p \in Paths(project) : Protected(p)}
    IN /\ Paths(project) # {}
       /\ \A p \in kept \cup project.empty : ValidTarget(p, p, TRUE)
       /\ \A p \in Paths(project) \ kept :
            \E n \in Name \ (Unusable \cup Hidden) : Suffix[n] = Suffix[Last(p)]
       /\ ValidTree([p \in kept |-> p], project.empty)

\* A complete map of a project that compile_plan and the accepted plan's own
\* validators admit.
ValidPlan(files, empty, plan) ==
    /\ DOMAIN plan = files
    /\ \A p \in files : ValidTarget(plan[p], p, Protected(p))
    /\ \A e \in empty : ValidTarget(e, e, TRUE)
    /\ ValidTree(plan, empty)

\* The planner's entries name exactly the files that are not protected; those
\* are added where they are.
CompleteEntries(project, entries) ==
    DOMAIN entries = {p \in Paths(project) : ~Protected(p)}
Completed(project, entries) ==
    [p \in Paths(project) |-> IF Protected(p) THEN p ELSE entries[p]]

\* Whether the copy of a map can be written to a disk and then be enumerated
\* exactly as planned.  A file is created only where nothing is, folders that
\* are there are used under the name they have, an empty folder is created only
\* where nothing is, and the enumeration asks for each exact path.
Disks == {"exact", "folding"}
At(disk, p) ==
    IF disk = "folding" THEN [i \in DOMAIN p |-> Fold[p[i]]] ELSE p
Writable(disk, plan, empty) ==
    LET files == {plan[f] : f \in DOMAIN plan}
        needed == UNION {Ancestors(p) : p \in files}
        Taken == {At(disk, q) : q \in files \cup needed}
    IN /\ \A f, g \in DOMAIN plan : f # g => At(disk, plan[f]) # At(disk, plan[g])
       /\ \A p \in files, d \in needed : At(disk, p) # At(disk, d)
       /\ \A d, e \in Directories(files, empty) :
            At(disk, d) = At(disk, e) => d = e
       /\ \A e \in empty :
            /\ At(disk, e) \notin Taken
            /\ \A d \in empty : \A a \in Ancestors(d) : At(disk, a) # At(disk, e)
            /\ \A a \in Ancestors(e), p \in files : At(disk, a) # At(disk, p)
==============================================================================
