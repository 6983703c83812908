------------------------------ MODULE MCPairing ------------------------------
(* Forms at the edge of the window, one registration through its lifetimes, *)
(* and a second that replaces it: three slices of one instance.             *)
EXTENDS Pairing, TLC

Symmetry == Permutations(Browsers)

Slices ==
    \/ \A s \in Session : ~Known(s)
    \/ ~Known(2) /\ now <= 3 /\ Len(admitted) <= 2
    \/ now + Len(admitted) <= 3
=============================================================================
