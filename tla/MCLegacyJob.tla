------------------------------ MODULE MCLegacyJob ------------------------------
(***************************************************************************)
(* What came before the review: a job of an earlier era (LegacyJob), and a *)
(* case of the Name Atlas workflow (Atlas), on two small instances.  Every *)
(* behaviour is one of the two.                                            *)
(***************************************************************************)
EXTENDS LegacyJob, Atlas

CONSTANTS b, b2, s, m, k, d, e

VARIABLE product   \* "job" or "case"

ASSUME AtlasAssumption

\* The product that is not running starts in one state; descriptors may change
\* places, so the first name is d.
ProductsInit ==
    /\ Init /\ AtlasInit /\ product \in {"job", "case"}
    /\ product = "job" => mode = "live" /\ profile = [f \in {m, k} |-> d]
    /\ product = "case" => era = "v1" /\ profile[m] = d

ProductsNext ==
    /\ UNCHANGED product
    /\ \/ product = "job" /\ Next /\ UNCHANGED atlas
       \/ product = "case" /\ AtlasNext /\ UNCHANGED vars

\* LegacyJob's fairness, in the behaviours that are its own.
ProductsSpec ==
    /\ ProductsInit /\ [][ProductsNext]_<<product, vars, atlas>>
    /\ \A c \in Callers : WF_vars(product = "job" /\ Work(c))
    /\ \A c \in Callers \ Servers : WF_vars(product = "job" /\ Reopen(c))
=============================================================================
