---------------------------- MODULE MCHostService ----------------------------
(***************************************************************************)
(* FoldweaveHostService and the review service under it on three small     *)
(* instances: two callers and the jobs they create, accept and execute in  *)
(* two state roots (JobsDirectory), one job in the hands of the sessions   *)
(* of a hosted model (Hosted), and two derivatives of one review, one for  *)
(* a provider and one for a hosted model (Derivative).  Every behaviour is *)
(* one of the three; they share no state, so they use the same names for   *)
(* jobs, keys and calls, callers and agents, texts and submissions, and    *)
(* one symmetry serves all.                                                *)
(***************************************************************************)
EXTENDS JobsDirectory, Hosted, Derivative, TLC

CONSTANTS j1, j2, j3, j4, r1, r2, c1, c2, t1, t2, direct, hosted

VARIABLE view   \* "directory", "exchange" or "derivatives"

ASSUME HostedAssumption

MCJobs == {j1, j2, j3, j4}
MCRoots == {r1, r2}
MCRootOf == j1 :> r1 @@ j2 :> r1 @@ j3 :> r1 @@ j4 :> r2

HostInit ==
    /\ DirectoryInit /\ Init /\ DerivativeInit
    /\ view \in {"directory", "exchange", "derivatives"}

HostNext ==
    /\ UNCHANGED view
    /\ \/ view = "directory" /\ DirectoryNext /\ UNCHANGED <<vars, derivative>>
       \/ view = "exchange" /\ Next /\ UNCHANGED <<directory, derivative>>
       \/ view = "derivatives" /\ DerivativeNext /\ UNCHANGED <<directory, vars>>

HostSpec == HostInit /\ [][HostNext]_<<view, directory, vars, derivative>>

Symmetry == UNION {Permutations(S) : S \in {{c1, c2}, {j1, j2, j3}, {t1, t2}}}
==============================================================================
