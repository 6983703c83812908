---------------------------------- MODULE Atlas ----------------------------------
(***************************************************************************)
(* The Name Atlas workflow, the first product kept beside the others: one  *)
(* Migration Case (cases.py), the session that serves it (workflow.py      *)
(* behind app.py), the handoff it stages (staging.py, receipts.py) and     *)
(* what a receiver makes of that (receiver_verifier.py, restore.py).       *)
(*                                                                         *)
(* The session holds the case's writer lock for life, and each handler     *)
(* runs in one step of its event loop, after it has reloaded the case,     *)
(* rescanned the source and rebuilt what it keeps in memory: so there is   *)
(* only the durable case here.  Two things take longer: the question to    *)
(* the model, which other handlers overtake, and staging, which none does. *)
(***************************************************************************)
EXTENDS Naturals, Sequences, SequencesExt

CONSTANTS Families,     \* object families of the package
          Meaning,      \* those with a Meaning risk: a card before any decision
          Descriptors,  \* what a target is named after
          Calls,        \* questions to the model that can be under way at once
          Nothing,
          CallCap,      \* live calls the budget ledger allows
          MaxCrashed, MaxFailed, MaxTouched   \* bounds on the environment

\* Stated by the modules that instantiate this one.
AtlasAssumption ==
    /\ Meaning \subseteq Families /\ Families # {}
    /\ Nothing \notin Nat \cup {"blocker", "differences"}
    /\ {CallCap, MaxCrashed, MaxFailed, MaxTouched} \subseteq Nat

VARIABLES mode,       \* "live" or "replay"
          profile,    \* the descriptor each family's proposals are made from
          source,     \* the package, as it differs from the case's snapshot
          life, why,  \* the case's lifecycle, and what made it stale
          dec,        \* its decisions
          cards,      \* its decision cards, by the order in which they came
          generated,  \* cards generated so far: the clock of their timestamps
          asked,      \* questions to the model under way
          reserved,   \* live calls reserved in the budget ledger
          session,    \* the process
          handoffs,   \* the directories promoted, in order
          named,      \* the one the finalized case names
          bag,        \* the receiver's copy of a handoff
          restoring, taken, \* the receiver's restore, and what it has copied
          place,      \* what is where it is to restore to
          crashed, failed, touched

case == <<life, why, dec, cards, named>>
tallies == <<crashed, failed, touched>>
receiver == <<bag, restoring, taken, place>>
atlas == <<mode, profile, source, case, generated, asked, reserved, session, handoffs,
          receiver, tallies>>

CaseLives == {"review", "blocked", "ready_to_stage", "handoff_ready", "stale"}
Terminal == {"handoff_ready", "stale"}
SessionSteps == {"down", "idle", "allocated", "copied", "sealed", "promoted"}

\* `at`: how many cards had been generated; `on`: the card on record then, which
\* only the properties look at.
Undecided == [act |-> "none", to |-> Nothing, at |-> 0, on |-> Nothing]
Decision(f, act, to) == [act |-> act, to |-> to, at |-> generated, on |-> cards[f]]
Open(act) == [Undecided EXCEPT !.act = act]

Ready(d) == d.act \in {"approved", "edited"}

\* The proposals after the decisions: an edit's descriptor, or the profile's.
Name(d, f) == IF d[f].act = "edited" THEN d[f].to ELSE profile[f]

\* Identifiers that differ in case only: equal descriptors make equal targets.
Collides(d, f) == \E g \in Families \ {f} : Name(d, g) = Name(d, f)

\* build_evidence_packet shows the family's proposals with their steps and risks.
Evidence(d, f) == <<d[f].act = "edited", Name(d, f), Collides(d, f)>>
Pristine(f) == Evidence([g \in Families |-> Undecided], f)

\* A case keeps a card only for the evidence of its frozen proposals, so that is
\* what a card on record is current for.
CardIsCurrent(f) == cards[f] # Nothing /\ Evidence(dec, f) = Pristine(f)

Lifecycle(d) ==
    IF \A f \in Families : Ready(d[f]) THEN "ready_to_stage"
    ELSE IF \E f \in Families : d[f].act \in {"refused", "unresolved"} THEN "blocked"
    ELSE "review"

\* MigrationCase: approved targets are the frozen ones and collide with no
\* proposal, and resolved targets are unique.
Valid(d) == \A f \in Families :
    /\ d[f].act = "approved" => ~Collides(d, f)
    /\ \A g \in Families \ {f} : Ready(d[f]) /\ Ready(d[g]) => Name(d, f) # Name(d, g)

AtlasInit ==
    /\ mode \in {"live", "replay"} /\ profile \in [Families -> Descriptors]
    /\ source = "same" /\ life = "review" /\ why = Nothing
    /\ dec = [f \in Families |-> Undecided] /\ cards = [f \in Families |-> Nothing]
    /\ generated = 0 /\ asked = [c \in Calls |-> Nothing] /\ reserved = 0
    /\ session = "idle" /\ handoffs = <<>> /\ named = 0
    /\ bag = "absent" /\ restoring = "none" /\ taken = Nothing /\ place = "absent"
    /\ crashed = 0 /\ failed = 0 /\ touched = 0
-----------------------------------------------------------------------------
(* Saving the case *)

\* _require_current_case_for_mutation opens every handler.
Serves == session = "idle" /\ life \notin Terminal
Current == Serves /\ source = "same"

\* _persist_case_state: an invalid candidate is rolled back and raised.
Save(d, k) ==
    /\ UNCHANGED <<why, named>>
    /\ IF Valid(d) THEN dec' = d /\ cards' = k /\ life' = Lifecycle(d)
                   ELSE UNCHANGED <<dec, cards, life>>

\* _persist_stale_case
GoesStale ==
    /\ life' = "stale" /\ why' = (IF source = "unreadable" THEN "blocker" ELSE "differences")
    /\ UNCHANGED <<dec, cards, named>>

\* Any handler that finds the source changed.
FindsChange ==
    /\ Serves /\ source # "same" /\ GoesStale
    /\ UNCHANGED <<mode, profile, source, generated, asked, reserved, session, handoffs,
                   receiver, tallies>>
-----------------------------------------------------------------------------
(* Human decisions *)

Decided == UNCHANGED <<mode, profile, source, generated, asked, reserved, session, handoffs,
                       receiver, tallies>>

Reviewed(f) == f \in Meaning => CardIsCurrent(f)

\* A family that is edited was renamed in its proposals; only the same name is
\* what the case would accept as approved.
Approve(f) ==
    /\ Current /\ Reviewed(f) /\ ~Collides(dec, f) /\ Name(dec, f) = profile[f]
    /\ Save([dec EXCEPT ![f] = Decision(f, "approved", profile[f])], cards)
    /\ Decided

Eligible(f) == dec[f] = Undecided /\ f \notin Meaning /\ ~Collides(dec, f)

ApproveLowRisk ==
    /\ Current /\ \E f \in Families : Eligible(f)
    /\ Save([f \in Families |-> IF Eligible(f) THEN Decision(f, "approved", profile[f])
                                              ELSE dec[f]], cards)
    /\ Decided

Edit(f, to) ==
    /\ Current /\ Reviewed(f) /\ \A g \in Families \ {f} : Name(dec, g) # to
    /\ Save([dec EXCEPT ![f] = Decision(f, "edited", to)], cards)
    /\ Decided

\* Refusing an edit gives its family the old name back, and the case refuses that
\* when an approved family would collide with it.
Refuse(f) ==
    /\ Current /\ Reviewed(f)
    /\ Save([dec EXCEPT ![f] = Decision(f, "refused", Nothing)], cards)
    /\ Decided
-----------------------------------------------------------------------------
(* Decision cards *)

\* _store_card_failure
Failure(f) ==
    IF Ready(dec[f]) THEN UNCHANGED case
    ELSE Save([dec EXCEPT ![f] = Open("unresolved")], [cards EXCEPT ![f] = Nothing])

\* _bind_card, and _persist_generated_card: evidence that has changed meanwhile,
\* or is not that of the frozen proposals, is refused after the call was paid.
Bind(f, evidence, card) ==
    IF evidence = Evidence(dec, f) /\ evidence = Pristine(f)
      THEN Save(IF Ready(dec[f]) \/ dec[f] = Undecided THEN dec
                ELSE [dec EXCEPT ![f] = Open("pending")],
                [cards EXCEPT ![f] = card])
      ELSE UNCHANGED case

\* generate_card up to its await.  A card that is current is its own answer; the
\* budget is reserved before the call.
Ask(c, f) ==
    /\ Current /\ f \in Meaning /\ ~CardIsCurrent(f)
    /\ mode = "live" /\ asked[c] = Nothing /\ reserved < CallCap
    /\ asked' = [asked EXCEPT ![c] = [of |-> f, evidence |-> Evidence(dec, f)]]
    /\ reserved' = reserved + 1
    /\ UNCHANGED <<mode, profile, source, case, generated, session, handoffs, receiver,
                   tallies>>

\* The cap is reached: no call, and a failure on record.
AskInVain(f) ==
    /\ Current /\ f \in Meaning /\ ~CardIsCurrent(f)
    /\ mode = "live" /\ reserved = CallCap
    /\ Failure(f) /\ Decided

\* The recorded card answers at once, for the one family it was recorded for.
Replay(f) ==
    /\ Current /\ f \in Meaning /\ ~CardIsCurrent(f) /\ mode = "replay"
    /\ IF Meaning = {f} /\ Evidence(dec, f) = Pristine(f)
         THEN Bind(f, Pristine(f), 0)
         ELSE Failure(f)
    /\ Decided

\* Mutant: the case is not looked at again when the answer comes.
AnswerUnseen(c) ==
    /\ session = "idle" /\ asked[c] # Nothing
    /\ asked' = [asked EXCEPT ![c] = Nothing]
    /\ \/ generated' = generated + 1 /\ Bind(asked[c].of, asked[c].evidence, generated + 1)
       \/ Failure(asked[c].of) /\ UNCHANGED generated
    /\ UNCHANGED <<mode, profile, source, reserved, session, handoffs, receiver, tallies>>

\* generate_card from its await: the case again, then the card or the failure,
\* which is the provider's, or that of writing the record for later replays.
Answer(c) ==
    /\ session = "idle" /\ asked[c] # Nothing
    /\ asked' = [asked EXCEPT ![c] = Nothing]
    /\ \/ life \in Terminal /\ UNCHANGED <<case, generated>>
       \/ Serves /\ source # "same" /\ GoesStale /\ UNCHANGED generated
       \/ Current /\ generated' = generated + 1
             /\ Bind(asked[c].of, asked[c].evidence, generated + 1)
       \/ Current /\ Failure(asked[c].of) /\ UNCHANGED generated
    /\ UNCHANGED <<mode, profile, source, reserved, session, handoffs, receiver, tallies>>
-----------------------------------------------------------------------------
(* Staging *)

Stages(step) == session' = step /\ UNCHANGED <<mode, profile, source, generated, asked, reserved,
                                               receiver>>

\* Mutant: a decision may be older than the card it is shown with.
LedgerAnyTime == \A f \in Meaning : cards[f] # Nothing

\* DecisionLedgerV2.from_case: no decision predates its card.
Ledger == \A f \in Meaning : cards[f] # Nothing /\ cards[f] <= dec[f].at

\* stage_package up to its pending directory.  What the ledger refuses is raised,
\* and nothing is on disk.
BeginStage ==
    /\ Current /\ life = "ready_to_stage" /\ Ledger
    /\ Stages("allocated") /\ UNCHANGED <<case, handoffs, tallies>>

\* The content and controls are copied, every member against its digest, and the
\* source is scanned again; so it is before the promotion.
CopyPackage == session = "allocated" /\ source = "same" /\ Stages("copied")
        /\ UNCHANGED <<case, handoffs, tallies>>
\* The proof, the bag and the receipt are written and verified.
Seal == session = "copied" /\ Stages("sealed") /\ UNCHANGED <<case, handoffs, tallies>>

PromoteHandoff ==
    /\ session = "sealed" /\ source = "same" /\ Stages("promoted")
    /\ handoffs' = Append(handoffs, [dec |-> dec, cards |-> cards])
    /\ UNCHANGED <<case, tallies>>

\* A scan or a copy finds the source changed: the case is looked at again.
StageFindsChange ==
    /\ session \in {"allocated", "sealed"} /\ source # "same"
    /\ Stages("idle") /\ GoesStale /\ UNCHANGED <<handoffs, tallies>>

\* Any other failure keeps the pending directory, or the promoted one.
StageFails ==
    /\ session \in {"allocated", "copied", "sealed", "promoted"} /\ failed < MaxFailed
    /\ failed' = failed + 1 /\ Stages("idle")
    /\ IF source # "same" /\ session # "promoted" THEN GoesStale ELSE UNCHANGED case
    /\ UNCHANGED <<handoffs, crashed, touched>>

\* _finalize_case_handoff
FinalizeCase ==
    /\ session = "promoted" /\ Stages("idle")
    /\ life' = "handoff_ready" /\ named' = Len(handoffs)
    /\ UNCHANGED <<why, dec, cards, handoffs, tallies>>
-----------------------------------------------------------------------------
(* The process *)

SessionDies ==
    /\ session # "down" /\ crashed < MaxCrashed
    /\ crashed' = crashed + 1 /\ session' = "down"
    /\ asked' = [c \in Calls |-> Nothing]
    /\ UNCHANGED <<mode, profile, source, case, generated, reserved, handoffs, receiver,
                   failed, touched>>

\* _initialize_existing_case: the lock, the case, and the source against it.
StartSession ==
    /\ session = "down" /\ session' = "idle"
    /\ IF life \notin Terminal /\ source # "same" THEN GoesStale ELSE UNCHANGED case
    /\ UNCHANGED <<mode, profile, source, generated, asked, reserved, handoffs, receiver,
                   tallies>>

\* The user, or another program, works in the package; what was changed may be
\* changed back.
Change(s) ==
    /\ source # s /\ touched < MaxTouched
    /\ touched' = touched + 1 /\ source' = s
    /\ UNCHANGED <<mode, profile, case, generated, asked, reserved, session, handoffs, receiver,
                   crashed, failed>>
-----------------------------------------------------------------------------
(* The receiver *)

Receives == UNCHANGED <<mode, profile, source, case, generated, asked, reserved, session, handoffs,
                        crashed>>

\* The handoff the case names is handed over.
Receive ==
    /\ life = "handoff_ready" /\ bag = "absent" /\ bag' = "whole"
    /\ UNCHANGED <<restoring, taken, place, failed, touched>> /\ Receives

\* verify_receipt, over a bag that holds one handoff's files or no longer does.
Verifies == bag = "whole"

\* restore_receipt: verified, its destination absent, a pending directory made.
BeginRestore ==
    /\ restoring = "none" /\ Verifies /\ place = "absent"
    /\ restoring' = "verified" /\ UNCHANGED <<bag, taken, place, failed, touched>> /\ Receives

\* Authority and members are read as they are now.  An edit shows when a member
\* is not what the snapshot says, unless the snapshot was edited with it.
CopyBack ==
    /\ restoring = "verified" /\ restoring' = "copied"
    /\ taken' = (IF bag = "whole" THEN "original" ELSE "other")
    /\ UNCHANGED <<bag, place, failed, touched>> /\ Receives

\* Mutant: what was verified once stays verified.
TrustBag == restoring = "copied" /\ restoring' = "checked"
            /\ UNCHANGED <<bag, taken, place, failed, touched>> /\ Receives
\* The bag is verified again and is the same, file by file.
CheckBag == restoring = "copied" /\ Verifies /\ restoring' = "checked"
            /\ UNCHANGED <<bag, taken, place, failed, touched>> /\ Receives

\* promote_directory_no_replace
PromoteBack ==
    /\ restoring = "checked" /\ place = "absent"
    /\ restoring' = "none" /\ place' = taken /\ taken' = Nothing
    /\ UNCHANGED <<bag, failed, touched>> /\ Receives

\* Any failure, and anything at the destination or in the bag: the pending
\* directory is discarded.
DropRestore ==
    /\ restoring # "none" /\ (failed < MaxFailed \/ bag = "edited" \/ place # "absent")
    /\ failed' = (IF bag = "edited" \/ place # "absent" THEN failed ELSE failed + 1)
    /\ restoring' = "none" /\ taken' = Nothing
    /\ UNCHANGED <<bag, place, touched>> /\ Receives

\* The receiver's own doing.
EditBag ==
    /\ bag = "whole" /\ touched < MaxTouched /\ bag' = "edited" /\ touched' = touched + 1
    /\ UNCHANGED <<restoring, taken, place, failed>> /\ Receives
Occupy ==
    /\ bag # "absent" /\ place = "absent" /\ touched < MaxTouched
    /\ place' = "stranger" /\ touched' = touched + 1
    /\ UNCHANGED <<bag, restoring, taken, failed>> /\ Receives
-----------------------------------------------------------------------------
AtlasNext ==
    \/ FindsChange \/ ApproveLowRisk
    \/ \E f \in Families :
          \/ Approve(f) \/ Refuse(f) \/ AskInVain(f) \/ Replay(f)
          \/ \E to \in Descriptors : Edit(f, to)
          \/ \E c \in Calls : Ask(c, f)
    \/ \E c \in Calls : Answer(c)
    \/ BeginStage \/ CopyPackage \/ Seal \/ PromoteHandoff \/ FinalizeCase
    \/ StageFindsChange \/ StageFails
    \/ SessionDies \/ StartSession \/ \E s \in {"same", "different", "unreadable"} : Change(s)
    \/ Receive \/ BeginRestore \/ CopyBack \/ CheckBag \/ PromoteBack \/ DropRestore
    \/ EditBag \/ Occupy

AtlasSpec == AtlasInit /\ [][AtlasNext]_atlas
-----------------------------------------------------------------------------
(* Properties *)

\* The variables hold what the code can write, and the durable case is one that
\* MigrationCase accepts.
AtlasTypes ==
    /\ mode \in {"live", "replay"} /\ profile \in [Families -> Descriptors]
    /\ source \in {"same", "different", "unreadable"}
    /\ life \in CaseLives /\ (life = "stale" <=> why # Nothing)
    /\ life \notin Terminal => life = Lifecycle(dec)
    /\ Valid(dec)
    /\ \A f \in Meaning : Ready(dec[f]) => cards[f] # Nothing
    /\ \A f \in Families \ Meaning : cards[f] = Nothing
    /\ generated <= reserved /\ reserved <= CallCap
    /\ session \in SessionSteps /\ named \in 0..Len(handoffs)
    /\ bag \in {"absent", "whole", "edited"}
    /\ restoring \in {"none", "verified", "copied", "checked"}
    /\ place \in {"absent", "stranger", "original", "other"}

\* Every directory ever promoted hands over complete, distinct and human
\* decisions, and each names the card that was on record when it was made, though
\* a question asked twice may replace the card of a decision; there are as many
\* directories as there were attempts, and the finalized case names the last.
HandoffIsAuthorized ==
    /\ AtlasTypes
    /\ \A i \in 1..Len(handoffs) : LET h == handoffs[i] IN
          /\ \A f \in Families : Ready(h.dec[f])
          /\ \A f \in Families : \A g \in Families \ {f} : Name(h.dec, f) # Name(h.dec, g)
          /\ \A f \in Meaning : h.cards[f] = h.dec[f].on
    /\ Len(handoffs) <= 1 + crashed + failed
    /\ life = "handoff_ready" =>
          named = Len(handoffs) /\ handoffs[named] = [dec |-> dec, cards |-> cards]

\* A decision to export changes by the human's act only, whatever answers or
\* failures come late; nothing is decided or kept about a source that has
\* changed, though it changed during an await; a finalized or stale case stays.
DecisionsStand == [][
    /\ \A f \in Families : Ready(dec[f]) /\ dec'[f] # dec[f] =>
          Approve(f) \/ Refuse(f) \/ \E to \in Descriptors : Edit(f, to)
    /\ source # "same" => UNCHANGED <<dec, cards>>
    /\ life \in Terminal => UNCHANGED case ]_atlas

\* A restore puts the original package where nothing was, whatever becomes of the
\* bag and of the destination meanwhile.
RestoredIsOriginal == [][
    place' # place => place = "absent" /\ place' \in {"original", "stranger"} ]_atlas
==================================================================================
