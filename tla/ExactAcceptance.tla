------------------------------ MODULE ExactAcceptance ------------------------------
(***************************************************************************)
(* What a review-era job promises its user, whatever crashes, retries and  *)
(* races happen underneath: it shows one offer after another, each newer   *)
(* than the last; the user chooses at most once, and only what is on offer *)
(* at that moment; what is delivered is the plan of the chosen offer; and  *)
(* after the job was closed nothing is offered, chosen or delivered.       *)
(***************************************************************************)
EXTENDS Naturals

CONSTANTS
    Offers,     \* records with at least the fields plan and rev
    None

VARIABLES
    offer,      \* what the user sees, or None
    chosen,     \* the accepted offer, or None
    delivered,  \* the plan of the delivered copy, or None
    closed      \* nothing more will happen

promise == <<offer, chosen, delivered, closed>>

Init ==
    /\ offer = None
    /\ chosen = None
    /\ delivered = None
    /\ closed = FALSE

Propose ==
    /\ ~closed /\ chosen = None
    /\ offer' \in Offers
    /\ offer # None => offer'.rev > offer.rev
    /\ UNCHANGED <<chosen, delivered, closed>>

Choose ==
    /\ ~closed /\ chosen = None /\ offer # None
    /\ chosen' = offer
    /\ UNCHANGED <<offer, delivered, closed>>

Deliver ==
    /\ ~closed /\ chosen # None /\ delivered = None
    /\ delivered' = chosen.plan
    /\ UNCHANGED <<offer, chosen, closed>>

Close ==
    /\ ~closed
    /\ closed' = TRUE
    /\ UNCHANGED <<offer, chosen, delivered>>

Next == Propose \/ Choose \/ Deliver \/ Close

Spec == Init /\ [][Next]_promise
=============================================================================
