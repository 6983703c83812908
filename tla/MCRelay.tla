---------------------------------- MODULE MCRelay ----------------------------------
(***************************************************************************)
(* Instances of Relay for TLC.                                             *)
(***************************************************************************)
EXTENDS Relay, TLC

CONSTANTS i, j, h, g,   \* two identifiers, two headers
          MaxSteps      \* bound on the steps of the environment together

\* Calls, identifiers and headers are interchangeable; used without liveness only.
Symmetry == Permutations(Calls) \cup Permutations(Ids) \cup Permutations(Headers)

(***************************************************************************)
(* With liveness: calls arrive in their order and the first makes the      *)
(* first request, which loses nothing, for they are interchangeable.  One  *)
(* identifier with two headers travels over two connections, two           *)
(* identifiers over one.  All of this restrains the environment and never  *)
(* a step that is fair.                                                    *)
(***************************************************************************)
Arrived == { c \in Calls : call[c].step # "idle" }
Connected == { n \in Connection : socket[n] # "unused" }
Asked == { call[c].request : c \in Arrived } \ {None}
First == [id |-> i, headers |-> h]

Environment ==
    /\ Cardinality(Arrived) + Cardinality(Connected) + device.control + expiries <= MaxSteps
    /\ \A c, d \in Calls : c < d /\ d \in Arrived => c \in Arrived
    /\ call[1].request \in {None, First}
    /\ \/ Asked \subseteq {First, [id |-> i, headers |-> g]}
       \/ Asked \subseteq {First, [id |-> j, headers |-> h]} /\ Cardinality(Connected) < 2

SmallSpec == Init /\ [][Next /\ Environment']_vars /\ Fairness
=============================================================================
