-------------------------- MODULE CopyTransaction --------------------------
(***************************************************************************)
(* The copy transaction and what is done with its result, while other      *)
(* programs change the source, the directory being written, the result and *)
(* the Change File (folder_refactor/transaction.py, inventory.py,          *)
(* verification/bag_writer.py, connected_change/service.py), the source-   *)
(* free verification of a result (receipt_verifier.py, verification.py)    *)
(* and its restoration (reconstruction.py, of both packages).              *)
(*                                                                         *)
(* What the accepted map does to a folder is ConnectedChange's subject;    *)
(* here a file has bytes, and a copy of them, relinked or not.  A tree is  *)
(* a function from paths to contents; a hash is what it is the hash of.    *)
(***************************************************************************)
EXTENDS Naturals, Sequences, FiniteSets, Functions

CONSTANTS Order,      \* the files of the source, as they are walked
          Relinked,   \* the Markdown files whose links change
          Empties,    \* the explicit empty folders
          Kinds,      \* receipt versions and roles
          MaxEdits,   \* how often anything is changed from outside
          MaxSilent,  \* how often a file is changed and keeps its identity
          MaxAltered, \* how often a tree is altered
          Absent, Stranger

CopyAssumption ==
    /\ Order \in Seq(Range(Order)) /\ IsInjective(Order)
    /\ Relinked \subseteq Range(Order) /\ IsFiniteSet(Empties)
    /\ Range(Order) \cap {"listing", "external", "copy"} = {}
    /\ Kinds \subseteq {<<1, "origin">>} \cup ({2, 3} \X {"origin", "receiver"})
                         \cup {<<3, "derivative">>}
    /\ {MaxEdits, MaxSilent, MaxAltered} \subseteq Nat /\ Absent # Stranger

Files == Range(Order)
Bytes == {"old", "new"}

VARIABLES kind, phase,
          next,      \* the file at hand, of a walk over all
          folder,    \* the source: its names, and its files' bytes and identities
          snapshot,  \* the scan that everything else is compared with
          same,      \* whether the scan under way agreed with it so far
          moment,    \* the source as it was between the first two scans
          late,      \* what changed after it was last looked at
          opened,    \* the source file being read
          building,   \* the directory being written
          finalized, \* receipt_finalized
          proof,     \* whether the tree was verified, and altered since
          made,      \* the tree as it was verified
          result,    \* what lies at the result's path
          external,  \* the Change File, as read or changed
          wanted,    \* a restoration's rows
          copy, home,\* its pending directory, and what lies at its destination
          edits, silent, altered

counted == <<silent, altered>>
read == <<folder, late, external, edits, counted>>
reading == <<snapshot, same, moment, opened>>
writing == <<building, finalized, proof, made>>
restoring == <<wanted, copy, home>>
copying == <<kind, phase, next, read, reading, writing, result, restoring>>
-----------------------------------------------------------------------------
(***************************************************************************)
(* Trees.                                                                  *)
(***************************************************************************)
Edited == <<"edited">>
Part(t, part) == Restrict(t, {p \in DOMAIN t : p[1] = part})

\* What a write makes of t, and all entries of s written to t.
Put(p, content, t) == [q \in DOMAIN t \cup {p} |-> IF q = p THEN content ELSE t[q]]
Over(s, t) == [q \in DOMAIN s \cup DOMAIN t |-> IF q \in DOMAIN s THEN s[q] ELSE t[q]]

Data(t) == Part(t, "data")
Folders(t) == {p \in DOMAIN t : p[1] = "folder"}
Proof(t) == Part(t, "proof")
Has(t, p) == p \in DOMAIN t
Holds(t, p, content) == Has(t, p) /\ t[p] = content
Intact(t, p) == Has(t, p) /\ t[p] # Edited

Snapshot == <<"proof", "snapshot">>
PlanFile == <<"proof", "plan">>
Report == <<"proof", "report">>
Evidence == <<"proof", "evidence">>
Receipt == <<"proof", "receipt">>
Change == <<"proof", "change">>
Page == <<"proof", "page">>
Original(f) == <<"proof", "original", f>>
Payload == <<"bag", "manifest">>
Tags == <<"bag", "tagmanifest">>
Extras == {<<"data", "x">>, <<"folder", "y">>, <<"proof", "x">>, <<"root", "x">>}

\* A file of the result, of these bytes.
Copied(f, bytes) == IF f \in Relinked THEN <<f, bytes, "relinked">> ELSE <<f, bytes>>
Accepted(bytes) ==
    [p \in {<<"data", f>> : f \in Files} |-> Copied(p[2], bytes[p[2]])]
EmptyFolders == {<<"folder", e>> : e \in Empties}

\* What the authorities say: the source; the map and the links it leads to; the
\* rows, the ledger and the report; where the plan comes from, the match and the
\* consent.  Each is computed again from the first.
SnapshotOf(bytes) == <<"snapshot", bytes>>
PlanOf(bytes) == <<"plan", bytes>>
ReportOf(bytes) == <<"report", bytes, Accepted(bytes)>>
Provisional(bytes) == <<"report", bytes, Accepted(bytes), "provisional">>
EvidenceOf(bytes) == <<"evidence", kind, bytes>>

\* A transaction writes one receipt, one page and one Change File: their names are
\* their hashes.  Any other content is its own.
Hash(content) ==
    IF content[1] \in {"receipt", "page", "change"} THEN <<content[1]>> ELSE content

Originals == {Original(f) : f \in Relinked}
Committed == {Snapshot, PlanFile, Report, Evidence} \cup Originals
Commitments(t) == Restrict(t, Committed \cap DOMAIN t)

\* Receivers carry the Change File they imported, the others write their own.
Imported == <<"imported">>
ChangeOf(receipt) ==
    IF kind[2] = "receiver" THEN Imported ELSE <<"change", Hash(receipt)>>
Family == Committed \cup {Receipt, Page} \cup (IF kind[1] = 1 THEN {} ELSE {Change})
-----------------------------------------------------------------------------
(***************************************************************************)
(* The bag (bag_writer.py, bagit_validator.py).                            *)
(***************************************************************************)
RootEntries(t) == ~Has(t, <<"root", "x">>)

TagFiles(t) ==
    [p \in {p \in DOMAIN t : p[1] = "proof"} \cup ({Payload} \cap DOMAIN t) |-> Hash(t[p])]

\* Additional tag files are not BagIt's business, nor is a missing tag manifest.
BagValid(t) ==
    /\ Intact(t, Payload) /\ t[Payload] = <<"manifest", Data(t)>>
    /\ Has(t, Tags) => /\ t[Tags] # Edited
                       /\ \A p \in DOMAIN t[Tags][2] : Has(t, p) /\ t[Tags][2][p] = Hash(t[p])

Bagged(t) == Put(Payload, <<"manifest", Data(t)>>, t)
Tagged(t) == Put(Tags, <<"tagmanifest", TagFiles(t)>>, t)
-----------------------------------------------------------------------------
(***************************************************************************)
(* Verification of a result from itself alone.                             *)
(***************************************************************************)
\* The receipt is well formed, of its role, and under its own fingerprint.
ReceiptWhole(t) == Intact(t, Receipt)

\* Every authority it commits to is as committed.
CommitmentsHold(t) ==
    /\ ReceiptWhole(t)
    /\ t[Receipt][2].proof = Commitments(t)

Said(t) == t[Snapshot][2]

\* The authorities follow from each other.
AuthoritiesBind(t) ==
    /\ \A p \in {Snapshot, PlanFile, Report, Evidence} : Intact(t, p)
    /\ t[PlanFile] = PlanOf(Said(t))
    /\ t[Report] = ReportOf(Said(t))
    /\ t[Evidence] = EvidenceOf(Said(t))

\* The originals are the source's, and each payload is its copy.
PayloadsFollow(t) ==
    /\ \A f \in Relinked : Holds(t, Original(f), <<f, Said(t)[f]>>)
    /\ \A f \in Files : Holds(t, <<"data", f>>, Copied(f, Said(t)[f]))

\* Mutant: what is in the result beyond what the proof names goes unnoticed.
FamilyPresent(t) == Family \subseteq DOMAIN Proof(t)

FamilyExact(t) == DOMAIN Proof(t) = Family

PageFollows(t) == Holds(t, Page, <<"page", Hash(t[Receipt])>>)

\* folder-change-receipt.v1: the whole tree has to be as the proof names it.
TreeShape(t) ==
    DOMAIN t = Family \cup DOMAIN t[Receipt][2].data \cup EmptyFolders \cup {Payload, Tags}

Unchanged(t) ==
    /\ BagValid(t)
    /\ CommitmentsHold(t)
    /\ t[Receipt][2].data = Data(t)

FirstVerified(t) ==
    /\ Unchanged(t)
    /\ AuthoritiesBind(t)
    /\ TreeShape(t)
    /\ PayloadsFollow(t)
    /\ PageFollows(t)

\* v2 and v3: the folders are compared with the tree that was there when the
\* receipt was written, and counted against the report.
OrganizedTree(t) == [data |-> Data(t), folders |-> Folders(t)]
CountsAgree(tree) ==
    /\ Cardinality(DOMAIN tree.data) = Cardinality(Files)
    /\ Cardinality(tree.folders) = Cardinality(Empties)

\* An own Change File follows from the authorities and the tree, an imported one
\* commits to the tree.
Expected(bytes) == [data |-> Accepted(bytes), folders |-> EmptyFolders]
ChangeFollows(t) ==
    /\ Intact(t, Change)
    /\ t[Change] = ChangeOf(t[Receipt])
    /\ kind[2] = "receiver" => t[Receipt][2].tree = Expected(Said(t))

ConnectedVerified(t) ==
    /\ BagValid(t)
    /\ CommitmentsHold(t)
    /\ AuthoritiesBind(t) /\ CountsAgree(t[Receipt][2].tree)
    /\ FamilyExact(t)
    /\ t[Receipt][2].data = Data(t)
    /\ PayloadsFollow(t)
    /\ OrganizedTree(t) = t[Receipt][2].tree
    /\ ChangeFollows(t)
    /\ PageFollows(t)

Verified(t) == IF kind[1] = 1 THEN FirstVerified(t) ELSE ConnectedVerified(t)
-----------------------------------------------------------------------------
(***************************************************************************)
(* The source: scanned when the transaction is prepared, once more after   *)
(* its Markdown was read, after staging and before the promotion.          *)
(***************************************************************************)
Untouched == [bytes |-> [f \in Files |-> "old"], id |-> [f \in Files |-> 0],
              names |-> Files \cup Empties, listing |-> 0]

CopyInit ==
    /\ kind \in Kinds
    /\ phase = "scanning" /\ next = 1
    /\ folder = Untouched /\ late = {}
    /\ snapshot = [Untouched EXCEPT !.bytes = <<>>, !.id = <<>>]
    /\ same = TRUE /\ moment = Absent /\ opened = Absent
    /\ building = Absent /\ finalized = FALSE /\ proof = "unproved" /\ made = Absent
    /\ result = Absent /\ external = "read"
    /\ wanted = Absent /\ copy = Absent /\ home = Absent
    /\ edits = 0 /\ silent = 0 /\ altered = 0

\* A failed copy leaves nothing behind, until its receipt is finalized.
Fail ==
    /\ phase' = "failed" /\ next' = 1 /\ opened' = Absent
    /\ IF finalized THEN UNCHANGED <<building, proof>>
                    ELSE building' = Absent /\ UNCHANGED proof
    /\ UNCHANGED <<kind, read, snapshot, same, moment, finalized, made, result, restoring>>

File == Order[next]
Present == File \in folder.names

ScanFirst ==
    /\ phase = "scanning" /\ next <= Len(Order)
    /\ IF ~Present THEN Fail
       ELSE /\ snapshot' = [snapshot EXCEPT !.bytes = Put(File, folder.bytes[File], @),
                                            !.id = Put(File, folder.id[File], @)]
            /\ late' = late \ {File}
            /\ next' = next + 1
            /\ UNCHANGED <<kind, phase, folder, same, moment, opened, writing, result,
                           external, edits, counted, restoring>>

\* A Markdown file is read under the identity and to the digest it was scanned with.
ReadMarkdown(f) ==
    /\ f \in folder.names
    /\ folder.id[f] = snapshot.id[f] /\ folder.bytes[f] = snapshot.bytes[f]

Parse ==
    /\ phase = "scanning" /\ next > Len(Order)
    /\ IF \A f \in Relinked : ReadMarkdown(f)
         THEN /\ phase' = "rescanning" /\ next' = 0 /\ moment' = folder
              /\ UNCHANGED <<kind, read, snapshot, same, opened, writing, result, restoring>>
         ELSE Fail

\* A scan lists the folder, then looks at each file; at its end all must be as
\* they were: names, bytes and identities.
Scans == {"rescanning", "restaging", "last look"}
List ==
    /\ phase \in Scans /\ next = 0
    /\ same' = (folder.names = snapshot.names /\ folder.listing = snapshot.listing)
    /\ late' = late \ {"listing"}
    /\ next' = 1
    /\ UNCHANGED <<kind, phase, folder, snapshot, moment, opened, writing, result, external,
                   edits, counted, restoring>>

ScanMember ==
    /\ phase \in Scans /\ next \in DOMAIN Order
    /\ same' = (same /\ ReadMarkdown(File))
    /\ late' = late \ {File}
    /\ next' = next + 1
    /\ UNCHANGED <<kind, phase, folder, snapshot, moment, opened, writing, result, external,
                   edits, counted, restoring>>

\* Mutant: the last scan is made and not compared.
ScannedOnce(to) ==
    /\ phase' = to /\ next' = 1
    /\ UNCHANGED <<kind, read, reading, writing, result, restoring>>

Scanned(to) ==
    IF same
      THEN /\ phase' = to /\ next' = 1
           /\ UNCHANGED <<kind, read, reading, writing, result, restoring>>
      ELSE Fail

SourceAccepted == phase = "rescanning" /\ next > Len(Order) /\ Scanned("accepted")
-----------------------------------------------------------------------------
(***************************************************************************)
(* The copy.                                                               *)
(***************************************************************************)
\* The links are derived once more, both paths are free, and the directory made.
StartCopy ==
    /\ phase = "accepted"
    /\ IF (\A f \in Relinked : ReadMarkdown(f)) /\ result = Absent
         THEN /\ phase' = "copying" /\ next' = 1
              /\ building' = <<>>
              /\ UNCHANGED <<kind, read, reading, finalized, proof, made, result, restoring>>
         ELSE Fail

\* A file with links to change is copied as it is, and then with them changed.
Unlinked == File \in Relinked /\ ~Has(building, Original(File))
CopyTo == IF Unlinked THEN Original(File) ELSE <<"data", File>>

OpenSource ==
    /\ phase = "copying" /\ next <= Len(Order) /\ opened = Absent
    /\ IF Present /\ folder.id[File] = snapshot.id[File] /\ ~Has(building, CopyTo)
         THEN /\ opened' = [id |-> folder.id[File], seen |-> {folder.bytes[File]}]
              /\ UNCHANGED <<kind, phase, next, read, snapshot, same, moment, writing, result,
                             restoring>>
         ELSE Fail

\* What was read is any of what the file held meanwhile, or a mixture.
CopyFile(bytes) ==
    /\ phase = "copying" /\ opened # Absent
    /\ bytes \in opened.seen \/ (bytes = "mixed" /\ Cardinality(opened.seen) > 1)
    /\ IF opened.id = snapshot.id[File] /\ bytes = snapshot.bytes[File]
         THEN /\ building' = Put(CopyTo,
                               IF Unlinked THEN <<File, bytes>> ELSE Copied(File, bytes), building)
              /\ next' = IF Unlinked THEN next ELSE next + 1
              /\ opened' = Absent
              /\ UNCHANGED <<kind, phase, read, snapshot, same, moment, finalized, proof,
                             made, result, restoring>>
         ELSE Fail

\* The empty folders and the first authorities.
Stage ==
    /\ phase = "copying" /\ next > Len(Order)
    /\ IF EmptyFolders \cap DOMAIN building = {}
         THEN /\ building' = Put(Snapshot, SnapshotOf(snapshot.bytes),
                               Put(PlanFile, PlanOf(snapshot.bytes),
                                   Over([p \in EmptyFolders |-> <<"folder">>], building)))
              /\ phase' = "staged" /\ next' = 1
              /\ UNCHANGED <<kind, read, reading, finalized, proof, made, result, restoring>>
         ELSE Fail

\* _verify_staged_payloads: exactly the accepted files, each a copy of what was
\* scanned, and the empty folders (others are not looked for).
StagedPayloads(t) ==
    /\ Data(t) = Accepted(snapshot.bytes)
    /\ \A f \in Relinked : Holds(t, Original(f), <<f, snapshot.bytes[f]>>)
    /\ EmptyFolders \subseteq Folders(t)

VerifyStaged ==
    /\ phase = "staged"
    /\ IF StagedPayloads(building)
         THEN /\ phase' = "restaging" /\ next' = 0
              /\ UNCHANGED <<kind, read, reading, writing, result, restoring>>
         ELSE Fail

\* The members measured once more are the ones that were verified.
SourceStood == phase = "restaging" /\ next > Len(Order) /\ Scanned("measuring")

MeasureStaged ==
    /\ phase = "measuring"
    /\ IF Data(building) = Accepted(snapshot.bytes)
         THEN /\ phase' = "bagging" /\ next' = 1
              /\ UNCHANGED <<kind, read, reading, writing, result, restoring>>
         ELSE Fail

\* Maps, ledger and report, the bag and its validation, and the report that says so.
WriteBag ==
    LET t == Tagged(Bagged(Put(Report, Provisional(snapshot.bytes), building)))
    IN /\ phase = "bagging"
       /\ IF RootEntries(building) /\ DOMAIN Data(building) # {}
            THEN /\ building' = [t EXCEPT ![Report] = ReportOf(snapshot.bytes)]
                 /\ phase' = "validated" /\ next' = 1
                 /\ UNCHANGED <<kind, read, reading, finalized, proof, made, result, restoring>>
            ELSE Fail
-----------------------------------------------------------------------------
(***************************************************************************)
(* The proof.  Of version 1 it is written here, of the others by the       *)
(* finalizer of the role; its failure is the transaction's.                *)
(***************************************************************************)
\* Where the plan came from: of a derivative its parent's review, of a receiver the
\* match.
Evident(t) == Put(Evidence, EvidenceOf(snapshot.bytes), t)

\* The receipt, of what was measured before and of what is there now, with what
\* is derived from it.
ReceiptOf(t) ==
    <<"receipt", [data |-> Accepted(snapshot.bytes), tree |-> OrganizedTree(t),
                  proof |-> Commitments(t)]>>

WithReceipt(t) ==
    LET receipt == ReceiptOf(t)
        changed == IF kind[1] = 1 THEN t ELSE Put(Change, ChangeOf(receipt), t)
    IN Put(Receipt, receipt, Put(Page, <<"page", Hash(receipt)>>, changed))

\* Version 1 compares every committed byte with what was to be written.
AsWritten(t) ==
    /\ t[Snapshot] = SnapshotOf(snapshot.bytes) /\ t[PlanFile] = PlanOf(snapshot.bytes)
    /\ t[Report] = ReportOf(snapshot.bytes)
    /\ \A f \in Relinked : t[Original(f)] = <<f, snapshot.bytes[f]>>

\* A receiver compares the tree with the one its Change File commits to, and all
\* others count.
Receiptable(t) ==
    /\ Committed \subseteq DOMAIN t
    /\ IF kind[1] = 1 THEN AsWritten(t)
       ELSE IF kind[2] = "receiver" THEN OrganizedTree(t) = Expected(snapshot.bytes)
       ELSE CountsAgree(OrganizedTree(t))

WriteReceipt ==
    LET t == Evident(building)
    IN /\ phase = "validated"
       /\ IF Receiptable(t)
            THEN /\ building' = WithReceipt(t)
                 /\ finalized' = (kind[1] = 1)
                 /\ phase' = "sealing" /\ next' = 1
                 /\ UNCHANGED <<kind, read, reading, proof, made, result, restoring>>
            ELSE Fail

\* The bag is completed over an unchanged payload and the whole verified; a
\* Change File that was read must still be as it was.
External == kind[2] # "origin"
Sealable(t) ==
    /\ RootEntries(t)
    /\ Intact(t, Payload) /\ t[Payload] = <<"manifest", Data(t)>>
    /\ Verified(Tagged(t))

Seal ==
    /\ phase = "sealing"
    /\ IF Sealable(building) /\ (External => external = "read")
         THEN /\ building' = Tagged(building) /\ made' = Tagged(building)
              /\ proof' = "proved" /\ finalized' = TRUE
              /\ phase' = "last look" /\ next' = 0
              /\ UNCHANGED <<kind, read, reading, result, restoring>>
         ELSE Fail

\* Before the promotion: the source once more, and the Change File.
LastLook ==
    /\ phase = "last look" /\ next > Len(Order)
    /\ Scanned("confirming")

Confirm ==
    /\ phase = "confirming"
    /\ IF External => external = "read"
         THEN /\ phase' = "promoting" /\ next' = 1
              /\ late' = late \ {"external"}
              /\ UNCHANGED <<kind, folder, external, edits, counted, reading, writing, result,
                             restoring>>
         ELSE Fail

\* An atomic rename that replaces nothing.
PromoteResult ==
    /\ phase = "promoting"
    /\ IF result = Absent
         THEN /\ result' = building /\ building' = Absent
              /\ phase' = "promoted" /\ next' = 1
              /\ UNCHANGED <<kind, read, reading, finalized, proof, made, restoring>>
         ELSE Fail

Running == {"scanning", "rescanning", "accepted", "copying", "staged", "restaging",
            "measuring", "bagging", "validated", "sealing", "last look", "confirming",
            "promoting"}
Breaks == phase \in Running /\ Fail
-----------------------------------------------------------------------------
(***************************************************************************)
(* Restoration: what the source was, from the result alone, beside it.     *)
(***************************************************************************)
\* The pending restoration is the restoration's own, and removed when it fails.
NotRestored ==
    /\ phase' = "not restored" /\ next' = 1 /\ wanted' = Absent /\ copy' = Absent
    /\ UNCHANGED <<kind, read, reading, writing, result, home>>

RestoreBegin ==
    /\ phase = "promoted"
    /\ IF result # Stranger /\ Verified(result) /\ home = Absent
         THEN /\ phase' = "verified" /\ next' = 1
              /\ proof' = "proved"
              /\ wanted' = [receipt |-> result[Receipt], rows |-> <<>>]
              /\ UNCHANGED <<kind, read, reading, building, finalized, made, result, copy,
                             home>>
         ELSE NotRestored

\* The authorities are read again, and must be those the receipt commits to.
RestoreLoad ==
    LET Same(p) == Intact(result, p) /\ Holds(wanted.receipt[2].proof, p, result[p])
    IN /\ phase = "verified"
       /\ IF /\ Holds(result, Receipt, wanted.receipt)
             /\ \A p \in {Snapshot, PlanFile, Report} : Same(p)
            THEN /\ phase' = "restoring" /\ next' = 1
                 /\ wanted' = [wanted EXCEPT !.rows = Said(result)]
                 /\ copy' = <<>>
                 /\ UNCHANGED <<kind, read, reading, writing, result, home>>
            ELSE NotRestored

\* The original of a relinked file, the payload of any other.
Kept == IF File \in Relinked THEN Original(File) ELSE <<"data", File>>

RestoreMember ==
    /\ phase = "restoring" /\ next <= Len(Order)
    /\ IF Holds(result, Kept, <<File, wanted.rows[File]>>)
         THEN /\ copy' = Put(File, result[Kept], copy)
              /\ next' = next + 1
              /\ UNCHANGED <<kind, phase, read, reading, writing, result, wanted, home>>
         ELSE NotRestored

\* With its empty folders it is scanned and compared with the snapshot; the connected
\* result is verified again.
Restored(rows) ==
    [p \in Files \cup Empties |-> IF p \in Files THEN <<p, rows[p]>> ELSE <<"folder">>]

Whole == Over([e \in Empties |-> <<"folder">>], copy)

\* Mutant: each member was checked when it was copied, so nothing is compared.
ScannedUnread ==
    /\ phase = "restoring" /\ next > Len(Order)
    /\ copy' = Whole /\ late' = late \ {"copy"}
    /\ phase' = IF kind[1] = 1 THEN "returning" ELSE "reverifying"
    /\ next' = 1
    /\ UNCHANGED <<kind, folder, external, edits, counted, reading, writing, result, wanted,
                   home>>

RestoreScan ==
    /\ phase = "restoring" /\ next > Len(Order)
    /\ IF Whole = Restored(wanted.rows)
         THEN /\ copy' = Whole /\ late' = late \ {"copy"}
              /\ phase' = IF kind[1] = 1 THEN "returning" ELSE "reverifying"
              /\ next' = 1
              /\ UNCHANGED <<kind, folder, external, edits, counted, reading, writing, result,
                             wanted, home>>
         ELSE NotRestored

RestoreVerify ==
    /\ phase = "reverifying"
    /\ IF Verified(result) /\ result[Receipt] = wanted.receipt
         THEN /\ phase' = "returning" /\ next' = 1
              /\ proof' = "proved"
              /\ UNCHANGED <<kind, read, reading, building, finalized, made, result, restoring>>
         ELSE NotRestored

RestorePromote ==
    /\ phase = "returning"
    /\ IF home = Absent
         THEN /\ home' = copy /\ copy' = Absent
              /\ phase' = "restored" /\ next' = 1
              /\ UNCHANGED <<kind, read, reading, writing, result, wanted>>
         ELSE NotRestored
-----------------------------------------------------------------------------
(***************************************************************************)
(* Other programs.                                                         *)
(***************************************************************************)
Disturb == edits < MaxEdits /\ edits' = edits + 1

\* The source while it is read: a file is written in place or replaced, with its
\* identity kept by a clock that does not move, or a name comes or goes.
WriteSource(f, bytes, isSilent) ==
    /\ phase \in Running /\ f \in folder.names /\ folder.bytes[f] # bytes
    /\ Disturb
    /\ isSilent => silent < MaxSilent
    /\ silent' = IF isSilent THEN silent + 1 ELSE silent
    /\ UNCHANGED altered
    /\ folder' = [folder EXCEPT !.bytes[f] = bytes,
                                !.id[f] = IF isSilent THEN @ ELSE edits']
    /\ opened' = IF opened # Absent /\ f = File
                   THEN [id |-> folder'.id[f], seen |-> opened.seen \cup {bytes}]
                   ELSE opened
    /\ late' = late \cup {f}
    /\ UNCHANGED <<kind, phase, next, snapshot, same, moment, writing, result, external,
                   restoring>>

\* A descriptor that is open stays with the file that was there.
ReplaceSource(f, bytes) ==
    /\ phase \in Running /\ f \in folder.names
    /\ Disturb
    /\ folder' = [folder EXCEPT !.bytes[f] = bytes, !.id[f] = edits', !.listing = edits']
    /\ late' = late \cup {f, "listing"}
    /\ UNCHANGED <<kind, phase, next, reading, writing, result, external, counted, restoring>>

RenameSource ==
    /\ phase \in Running
    /\ Disturb
    /\ \E n \in Files \cup Empties \cup {"x"} :
          folder' = [folder EXCEPT !.names = IF n \in @ THEN @ \ {n} ELSE @ \cup {n},
                                   !.listing = edits']
    /\ late' = late \cup {"listing"}
    /\ UNCHANGED <<kind, phase, next, reading, writing, result, external, counted, restoring>>

ChangeExternal ==
    /\ phase \in Running /\ External /\ external = "read"
    /\ Disturb
    /\ external' = "changed" /\ late' = late \cup {"external"}
    /\ UNCHANGED <<kind, phase, next, folder, counted, reading, writing, result, restoring>>

\* A tree with one path edited, gone or too many, and perhaps bagged anew.
Without(t, p) == Restrict(t, DOMAIN t \ {p})
Touched(t) ==
    {Put(p, IF p[1] = "folder" THEN <<"folder">> ELSE Edited, t) :
        p \in DOMAIN t \cup Extras} \cup {Without(t, p) : p \in DOMAIN t}
Altered(t) ==
    Touched(t) \cup (IF Has(t, Payload) THEN {Tagged(Bagged(u)) : u \in Touched(t)} ELSE {})

Alter == altered < MaxAltered /\ altered' = altered + 1
Shaken == IF proof = "proved" THEN "altered" ELSE proof

AlterPending ==
    /\ building \notin {Absent, <<>>}
    /\ Disturb /\ Alter
    /\ building' \in Touched(building) \ {building}
    /\ proof' = Shaken
    /\ UNCHANGED <<kind, phase, next, folder, late, external, silent, reading, finalized, made,
                   result, restoring>>

AlterFinal ==
    /\ result \notin {Absent, Stranger}
    /\ Disturb /\ Alter
    /\ result' \in Altered(result) \ {result}
    /\ proof' = Shaken
    /\ UNCHANGED <<kind, phase, next, folder, late, external, silent, reading, building,
                   finalized, made, restoring>>

AlterCopy ==
    /\ copy \notin {Absent, <<>>}
    /\ Disturb
    /\ copy' \in {Put(p, Edited, copy) : p \in DOMAIN copy \cup {"x"}}
    /\ late' = late \cup {"copy"}
    /\ UNCHANGED <<kind, phase, next, folder, external, counted, reading, writing, result,
                   wanted, home>>

\* Something else takes the result's place, or the restoration's.
OccupyFinal ==
    /\ phase \in Running /\ result = Absent
    /\ Disturb
    /\ result' = Stranger
    /\ UNCHANGED <<kind, phase, next, folder, late, external, counted, reading, writing,
                   restoring>>

OccupyHome ==
    /\ phase \in {"promoted", "verified", "restoring", "reverifying", "returning"}
    /\ home = Absent
    /\ Disturb
    /\ home' = Stranger
    /\ UNCHANGED <<kind, phase, next, folder, late, external, counted, reading, writing, result,
                   wanted, copy>>

Others ==
    \/ \E f \in Files, bytes \in Bytes :
          \/ \E isSilent \in BOOLEAN : WriteSource(f, bytes, isSilent)
          \/ ReplaceSource(f, bytes)
    \/ RenameSource \/ ChangeExternal
    \/ AlterPending \/ AlterFinal \/ AlterCopy
    \/ OccupyFinal \/ OccupyHome

CopyNext ==
    \/ ScanFirst \/ Parse \/ List \/ ScanMember \/ SourceAccepted
    \/ StartCopy \/ OpenSource \/ (\E bytes \in Bytes \cup {"mixed"} : CopyFile(bytes))
    \/ Stage \/ VerifyStaged \/ SourceStood \/ MeasureStaged \/ WriteBag
    \/ WriteReceipt \/ Seal \/ LastLook \/ Confirm \/ PromoteResult \/ Breaks
    \/ RestoreBegin \/ RestoreLoad \/ RestoreMember \/ RestoreScan \/ RestoreVerify
    \/ RestorePromote
    \/ Others

CopySpec == CopyInit /\ [][CopyNext]_copying
-----------------------------------------------------------------------------
(***************************************************************************)
(* Properties.                                                             *)
(***************************************************************************)
CopyTypeOK ==
    /\ kind \in Kinds
    /\ phase \in Running \cup {"failed", "promoted", "verified", "restoring", "reverifying",
                               "returning", "restored", "not restored"}
    /\ next \in 0 .. Len(Order) + 1
    /\ folder \in [bytes: [Files -> Bytes], id: [Files -> 0 .. MaxEdits],
                   names: SUBSET (Files \cup Empties \cup {"x"}), listing: 0 .. MaxEdits]
    /\ {same, finalized} \subseteq BOOLEAN
    /\ late \subseteq Files \cup {"listing", "external", "copy"}
    /\ proof \in {"unproved", "proved", "altered"}
    /\ external \in {"read", "changed"}
    /\ silent \in 0 .. MaxSilent /\ altered \in 0 .. MaxAltered /\ edits \in 0 .. MaxEdits

Own(t) == t \notin {Absent, Stranger}

\* What is wrong with the source, unless it changed after the last look at it.
StillThere ==
    /\ "listing" \in late \/ \A f \in Files \ late : ReadMarkdown(f)
    /\ "listing" \in late \/ (folder.names = snapshot.names
                              /\ folder.listing = snapshot.listing)
    /\ "external" \in late \/ external = "read" \/ ~External

\* The result that is promoted, or left behind by a late failure, and was not altered
\* since it was proved, verifies from itself alone; it is the accepted copy of what
\* the source was at one moment; and at the promotion the source was last seen so.
\* A result of a connected change is never left behind unproved.  (Empty folders are
\* counted only in results that write their own Change File.)
ResultIsAccepted ==
    /\ CopyTypeOK
    /\ phase \in {"accepted", "copying", "promoted"} =>
         snapshot.bytes = moment.bytes /\ snapshot.names = moment.names
    /\ \A t \in {building, result} : (Own(t) /\ proof = "proved") =>
         /\ Verified(t)
         /\ Data(t) = Accepted(snapshot.bytes)
         /\ Cardinality(Folders(t)) = Cardinality(Empties)
         /\ (kind[1] = 1 \/ kind[2] = "receiver") => Folders(t) = EmptyFolders
    /\ phase = "promoted" => StillThere
    /\ (phase = "failed" /\ Own(building)) => (kind[1] = 1 \/ proof # "unproved")

\* Nothing the proof covers is altered in a result, or bagged anew, and verifies:
\* its files, folders and proof are those that were proved, and of version 1 all.
AlterationsAreFound ==
    (Own(result) /\ Verified(result)) =>
        IF kind[1] = 1 THEN result = made
        ELSE Data(result) = Data(made) /\ Folders(result) = Folders(made)
             /\ Proof(result) = Proof(made)

\* What is restored is the source as it was scanned, unless changed once it was
\* scanned itself; and it replaces nothing.
RestoredIsSource ==
    /\ [](phase = "restored" => (home = Restored(snapshot.bytes) \/ "copy" \in late))
    /\ [][/\ result = Stranger => result' = Stranger
          /\ home = Stranger => home' = Stranger]_copying
=============================================================================
