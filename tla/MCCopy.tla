------------------------------- MODULE MCCopy -------------------------------
(***************************************************************************)
(* A reviewed job (ReviewJob), and the copy transaction it runs, with what *)
(* is done to its result (CopyTransaction): two small instances, and every *)
(* behaviour is one of the two.                                            *)
(***************************************************************************)
EXTENDS MCReviewJob, CopyTransaction

VARIABLE subject   \* "job" or "copy"

ASSUME CopyAssumption

\* A note whose links change, another file, an empty folder; every version, and a role of each
\* (an origin of version 2 or 3 is a derivative that reads no Change File).
MCOrder == <<"m", "n">>
MCKinds == {<<1, "origin">>, <<2, "receiver">>, <<3, "derivative">>}

SubjectsInit ==
    /\ Init /\ CopyInit /\ subject \in {"job", "copy"}
    /\ subject = "job" => kind = <<1, "origin">>

SubjectsNext ==
    /\ UNCHANGED subject
    /\ \/ subject = "job" /\ Next /\ UNCHANGED copying
       \/ subject = "copy" /\ CopyNext /\ UNCHANGED vars

SubjectsSpec == SubjectsInit /\ [][SubjectsNext]_<<subject, vars, copying>>
=============================================================================
