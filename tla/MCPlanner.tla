------------------------------ MODULE MCPlanner ------------------------------
(***************************************************************************)
(* How one job moves on, on two small instances: from its request to its   *)
(* first preview (Planner), and from its preview to its end (ReviewJob).   *)
(* Every behaviour is one of the two.                                      *)
(***************************************************************************)
EXTENDS Planner, TLC

CONSTANTS c1, c2,
          Keys, Texts, MaxRevisions, Authorities, MaxCrashes, MaxFailures, MaxChanges

VARIABLES stage,                       \* "planning" or "review"
          record, writer, at, seen,    \* ReviewJob's variables
          req, pending, final, source, changeFile, calls, crashes, failures, changes

review == <<record, writer, at, seen, req, pending, final, source, changeFile, calls,
            crashes, failures, changes>>

R == INSTANCE ReviewJob WITH job <- record, lock <- writer, pc <- at

StagesInit ==
    /\ Init /\ R!Init
    /\ \/ stage = "planning"
       \/ stage = "review" /\ era = "v3" /\ supported

StagesNext ==
    /\ UNCHANGED stage
    /\ \/ stage = "planning" /\ Next /\ UNCHANGED review
       \/ stage = "review" /\ R!Next /\ UNCHANGED vars

\* The fairness of each, in the behaviours that are its own.
StagesSpec ==
    /\ StagesInit /\ [][StagesNext]_<<stage, vars, review>>
    /\ \A c \in Callers :
          /\ WF_vars(stage = "planning" /\ Continue(c))
          /\ WF_review(stage = "review" /\ R!Continue(c))
          /\ WF_review(stage = "review" /\ R!Load(c))
          /\ WF_review(stage = "review" /\ R!RecoverInspect(c))
          /\ WF_review(stage = "review" /\ R!ResumeExecution(c))

\* Neither stage of a job keeps anybody waiting: a caller that plans comes back,
\* an accepted execution and a reserved revision end.
JobSettles == CallerReturns /\ R!ExecutionSettles /\ R!RevisionSettles
==============================================================================
