----------------------------- MODULE LegacyProofs -----------------------------
(***************************************************************************)
(* LegacyJob for any callers, servers and bounds: a crash never blocks a   *)
(* job, and a finished copy is kept.  Both follow from what the holder of  *)
(* the writer lock has done so far (Phase), and from what the disk shows   *)
(* as long as nobody else has touched it (Untouched).                      *)
(*                                                                         *)
(* Atlas for any families, descriptors, questions and bounds: what is      *)
(* handed over was decided, decisions are a human's, and a restore is of   *)
(* the original.  A decision names the card it was made by; a card that    *)
(* comes later is numbered higher than the decision, and the ledger that   *)
(* opens staging refuses it (CardsOK).                                     *)
(***************************************************************************)
EXTENDS LegacyJob, Atlas, FiniteSetTheorems, SequenceTheorems, TLAPS


Kinds == {"job", "answer"}
Moves == {"idle", "verified", "copied", "told"}

Types ==
    /\ era \in {"v1", "v2"} /\ authority \in {"planned", "capsule"}
    /\ job \in Record /\ ops \in [Servers -> Seq(Kinds)]
    /\ pending \in Trees /\ final \in Places /\ restored \in Places
    /\ rc \in [Callers -> Moves] /\ changed \in BOOLEAN
    /\ crashes \in Nat /\ failures \in Nat /\ changes \in Nat

\* Whoever is at a step under the lock has it.
Control ==
    /\ lock \in Callers \cup {None} /\ pc \in [Callers -> Steps]
    /\ \A c \in Callers : pc[c] \in Locked <=> lock = c

\* Where the holder of the lock is.
Phase == IF lock = None THEN "free" ELSE pc[lock]

\* A server works on version 2 only, and reports a failure only.
ServersOK ==
    /\ era = "v1" => \A t \in Servers : ops[t] = <<>> /\ pc[t] = "idle"
    /\ failures = 0 => \A c \in Callers : pc[c] # "reporting"

RecordOK ==
    /\ job.life = "executing" => job.accepted
    /\ job.life \in {"planning", "awaiting"} => ~job.accepted
    /\ job.life \in Ended => Phase = "free"

\* What the holder has made of the record and of the hidden tree.
HolderOK ==
    /\ Phase = "planning" => job.life = "planning"
    /\ Phase \in Locked \ {"planning"} => job.life = "executing"
    /\ Phase \in Copying \cup {"recovering", "repromoting", "promoted"} => job.paths
    /\ Phase \in {"copying", "promoted"} => pending = "absent"
    /\ Phase = "staged" => pending = "partial"
    /\ Phase = "sealing" => pending = "receipt"
    /\ Phase \in {"sealed", "scanned"} => pending = "whole"

\* As long as the user has touched nothing, what is on disk is what the recorded
\* paths say, and a copy under way finds its destination free.
Untouched ==
    changes = 0 =>
        /\ ~changed /\ final \in {"absent", "own"}
        /\ pending # "absent" \/ final # "absent" => job.paths
        /\ final = "own" => pending = "absent"
        /\ Phase \in Copying \cup {"repromoting"} => final = "absent"
        /\ Phase = "promoted" => final = "own"
        /\ failures = 0 => Phase # "failed"

BlockedOK ==
    job.life = "blocked" /\ job.accepted /\ changes = 0 /\ failures = 0
        => era = "v1" /\ pending = "receipt"

LInv ==
    /\ Types /\ Control /\ ServersOK
    /\ RecordOK /\ HolderOK /\ Untouched /\ BlockedOK
-----------------------------------------------------------------------------
(* What the ways to end a step do to the lock *)

LEMMA PhaseFacts ==
    ASSUME LInv, NEW c \in Callers
    PROVE  /\ lock = c => Phase = pc[c] /\ pc[c] \in Locked
           /\ pc[c] \in Locked => lock = c
           /\ c # None /\ Callers # {} /\ Servers \subseteq Callers
           /\ lock = None <=> Phase = "free"
           /\ pc[c] \in Steps
BY LegacyAssumption DEF LInv, Control, Phase, Locked, Copying

\* The call ends: as it should, with an exception, or to begin anew.
LEMMA Releases ==
    ASSUME LInv, NEW c \in Callers, lock \in {None, c}, NEW step \in Steps \ Locked,
           pc' = [pc EXCEPT ![c] = step], lock' = None
    PROVE  /\ Control' /\ Phase' = "free"
           /\ \A t \in Callers \ {c} : pc'[t] = pc[t]
           /\ pc'[c] = step
BY PhaseFacts DEF LInv, Control, Phase

LEMMA LeaveFacts ==
    ASSUME LInv, NEW c \in Callers, Leave(c)
    PROVE  /\ ops' \in [Servers -> Seq(Kinds)]
           /\ failures' = failures /\ era' = era => ServersOK'
           /\ lock \in {None, c} => Control' /\ Phase' = "free" /\ lock' = None
           /\ lock \notin {None, c} => Control' /\ Phase' = Phase /\ lock' = lock
<1>1. ops' \in [Servers -> Seq(Kinds)]
  <2>1. \A q \in Seq(Kinds) : q # <<>> => Tail(q) \in Seq(Kinds)
    OBVIOUS
  <2> QED
    BY <2>1 DEF Leave, LInv, Types
<1>2. pc' = [pc EXCEPT ![c] = "idle"] /\ "idle" \in Steps \ Locked
  BY DEF Leave, Steps, Locked, Copying
<1>3. failures' = failures /\ era' = era => ServersOK'
  <2>1. ASSUME era = "v1", era' = era  PROVE \A t \in Servers : ops'[t] = <<>> /\ pc'[t] = "idle"
    BY <2>1, LegacyAssumption DEF Leave, LInv, ServersOK, Types, Control
  <2>2. ASSUME failures = 0  PROVE \A t \in Callers : pc'[t] # "reporting"
    BY <1>2, <2>2 DEF LInv, ServersOK, Control
  <2> QED
    BY <2>1, <2>2 DEF ServersOK
<1>4. lock \in {None, c} => lock' = None
  BY DEF Leave
<1>5. ASSUME lock \notin {None, c}
      PROVE  Control' /\ Phase' = Phase /\ lock' = lock
  <2>1. lock' = lock /\ pc[c] \notin Locked
    BY <1>5, PhaseFacts DEF Leave
  <2>2. lock \in Callers /\ pc'[lock] = pc[lock]
    BY <1>2, <1>5 DEF LInv, Control
  <2> QED
    BY <1>2, <1>5, <2>1, <2>2 DEF LInv, Control, Phase
<1>6. ASSUME lock \in {None, c}
      PROVE  Control' /\ Phase' = "free" /\ lock' = None
  BY <1>2, <1>4, <1>6, Releases
<1> QED
  BY <1>1, <1>3, <1>5, <1>6

\* The next step under the lock, by who takes it or has it.
LEMMA TakeFacts ==
    ASSUME LInv, NEW c \in Callers, NEW step \in Locked, lock \in {None, c},
           Start(c, step) \/ (lock = c /\ Go(c, step))
    PROVE  /\ Control' /\ Phase' = step
           /\ \A t \in Callers \ {c} : pc'[t] = pc[t]
           /\ pc'[c] = step
<1>1. lock' = c /\ pc' = [pc EXCEPT ![c] = step] /\ step \in Steps
  BY DEF Start, Go, Steps
<1> QED
  BY <1>1, PhaseFacts DEF LInv, Control, Phase

\* A step of somebody who works in version 2 or is no server.
LEMMA ServersKept ==
    ASSUME LInv, NEW c \in Callers, NEW step \in Steps \ {"reporting"},
           pc' = [pc EXCEPT ![c] = step], UNCHANGED <<era, failures, ops>>,
           pc[c] # "idle" \/ c \notin Servers \/ era = "v2"
    PROVE  ServersOK'
<1>1. \A t \in Servers : era = "v1" => t # c
  BY DEF LInv, ServersOK
<1> QED
  BY <1>1, LegacyAssumption DEF LInv, ServersOK, Control, Types

LEMMA RestKept ==
    ASSUME LInv, Keep
    PROVE  /\ era' = era /\ authority' = authority /\ restored' = restored /\ rc' = rc
           /\ changed' = changed /\ crashes' = crashes /\ failures' = failures
           /\ changes' = changes
           /\ job' \in Record /\ ops' \in [Servers -> Seq(Kinds)] /\ pending' \in Trees
                /\ final' \in Places => Types'
BY DEF Keep, recreation, bounds, LInv, Types

LEMMA EndFacts ==
    ASSUME LInv, NEW ended \in Lives, Ends(ended)
    PROVE  /\ job' \in Record /\ job'.life = ended
           /\ job'.accepted = job.accepted /\ job'.paths = job.paths
BY DEF LInv, Types, Record, Ends
-----------------------------------------------------------------------------
(* The ends of a job and of a call *)

\* The job ends, unless it is blocked for no reason.
LEMMA Closes ==
    ASSUME LInv, NEW c \in Callers, lock \in {None, c}, Leave(c), NEW ended \in Ended,
           Ends(ended), UNCHANGED disk, Keep,
           ended = "blocked" /\ job.accepted /\ changes = 0 /\ failures = 0
               => era = "v1" /\ pending = "receipt"
    PROVE  LInv'
<1>1. Control' /\ Phase' = "free" /\ ServersOK' /\ Types'
  BY LeaveFacts, RestKept, EndFacts DEF Ended, Lives, disk, LInv, Types
<1>2. job'.life = ended /\ job'.accepted = job.accepted /\ job'.paths = job.paths
  BY EndFacts DEF Ended, Lives
<1>3. RecordOK' /\ HolderOK'
  BY <1>1, <1>2 DEF RecordOK, HolderOK, Ended, Locked, Copying
<1>4. Untouched' /\ BlockedOK'
  BY <1>1, <1>2, RestKept DEF Untouched, BlockedOK, LInv, disk, Copying
<1> QED
  BY <1>1, <1>3, <1>4 DEF LInv

LEMMA StaleCloses ==
    ASSUME LInv, NEW c \in Callers, lock \in {None, c}, Stale(c), UNCHANGED disk, Keep
    PROVE  LInv'
BY Closes DEF Stale, Ended

LEMMA BlockCloses ==
    ASSUME LInv, NEW c \in Callers, lock \in {None, c}, Block(c), UNCHANGED disk, Keep,
           job.accepted /\ changes = 0 /\ failures = 0 => era = "v1" /\ pending = "receipt"
    PROVE  LInv'
BY Closes DEF Block, Ended

\* The call ends, and the job stays as it is.
LEMMA Backs ==
    ASSUME LInv, NEW c \in Callers, Leave(c), UNCHANGED <<job, disk>>, Keep
    PROVE  LInv'
<1>1. Control' /\ ServersOK' /\ Types' /\ Phase' \in {"free", Phase}
  BY LeaveFacts, RestKept DEF disk, LInv, Types
<1> QED
  BY <1>1, RestKept DEF LInv, RecordOK, HolderOK, Untouched, BlockedOK, disk, Locked, Copying

\* An exception nobody records: a server reports it.
LEMMA RaiseBacks ==
    ASSUME LInv, NEW c \in Callers, lock \in {None, c}, Raise(c), UNCHANGED disk, Keep,
           c \notin Servers
    PROVE  LInv'
BY Backs DEF Raise

\* Work goes on at a next step, with what the record and the disk are then.
LEMMA Proceeds ==
    ASSUME LInv, NEW c \in Callers, NEW step \in Locked, lock \in {None, c},
           Start(c, step) \/ (lock = c /\ Go(c, step)), UNCHANGED ops, Keep,
           pc[c] # "idle" \/ c \notin Servers \/ era = "v2",
           job' \in Record, pending' \in Trees, final' \in Places
    PROVE  /\ Phase' = step /\ Control' /\ ServersOK' /\ Types'
           /\ era' = era /\ changed' = changed
           /\ failures' = failures /\ changes' = changes
<1>1. step \in Steps \ {"reporting"} /\ pc' = [pc EXCEPT ![c] = step]
  BY DEF Start, Go, Steps, Locked, Copying
<1>2. ops' \in [Servers -> Seq(Kinds)]
  BY DEF LInv, Types
<1> QED
  BY <1>1, <1>2, TakeFacts, RestKept, ServersKept DEF Keep, bounds

-----------------------------------------------------------------------------
(* Planning *)

LEMMA ReplanKeeps ==
    ASSUME LInv, NEW c \in Callers, NEW was \in {"planning", "awaiting"}, Replan(c, was),
           c \notin Servers \/ era = "v2"
    PROVE  LInv'
<1>1. CASE Stale(c)
  BY <1>1, StaleCloses DEF Replan, Free
<1>2. CASE /\ ~changed /\ Start(c, "planning") /\ UNCHANGED ops
           /\ job' = [job EXCEPT !.life = "planning", !.answered = @ \/ was = "awaiting"]
  <2>1. job' \in Record /\ job'.life = "planning" /\ ~job'.accepted /\ job'.paths = job.paths
    <3> DEFINE x == job.answered \/ was = "awaiting"
    <3>1. x \in BOOLEAN /\ job' = [job EXCEPT !.life = "planning", !.answered = x]
      BY <1>2 DEF LInv, Types, Record
    <3> HIDE DEF x
    <3>2. job' \in Record /\ job'.life = "planning" /\ job'.accepted = job.accepted
            /\ job'.paths = job.paths
      BY <3>1 DEF LInv, Types, Record, Lives
    <3> QED
      BY <3>2 DEF LInv, RecordOK, Replan
  <2>2. Phase' = "planning" /\ Control' /\ ServersOK' /\ Types'
    BY <1>2, <2>1, Proceeds DEF Replan, Free, Locked, LInv, Types, disk
  <2> QED
    BY <1>2, <2>1, <2>2, RestKept
    DEF Replan, LInv, RecordOK, HolderOK, Untouched, BlockedOK, disk, Locked, Copying, Ended
<1> QED
  BY <1>1, <1>2 DEF Replan

LEMMA PlanKeeps ==
    ASSUME LInv, NEW c \in Callers, Plan(c)
    PROVE  LInv'
<1>1. lock = c /\ Phase = "planning" /\ job.life = "planning" /\ ~job.accepted
  BY PhaseFacts DEF Plan, Locked, LInv, HolderOK, RecordOK
<1>2. CASE Stale(c)
  BY <1>1, <1>2, StaleCloses DEF Plan
<1>3. CASE ~changed /\ Ends("blocked") /\ Leave(c)
  BY <1>1, <1>3, Closes DEF Plan, Ended
<1>4. CASE ~changed /\ Asks(c)
  <2>1. job' \in Record /\ job'.life = "awaiting" /\ ~job'.accepted /\ job'.paths = job.paths
    BY <1>1, <1>4, EndFacts DEF Asks, Lives
  <2>2. Control' /\ Phase' = "free" /\ ServersOK' /\ Types'
    BY <1>1, <1>4, <2>1, LeaveFacts, RestKept DEF Asks, Plan, disk, LInv, Types
  <2> QED
    BY <1>1, <1>4, <2>1, <2>2, RestKept
    DEF Plan, LInv, RecordOK, HolderOK, Untouched, BlockedOK, disk, Locked, Copying, Ended
<1>5. CASE ~changed /\ Accepts(c)
  <2>1. job' \in Record /\ job'.life = "executing" /\ job'.accepted /\ job'.paths = job.paths
    BY <1>5 DEF Accepts, LInv, Types, Record, Lives
  <2>2. /\ Phase' \in {"begun", "free"} /\ Control' /\ ServersOK' /\ Types'
    <3>1. CASE era = "v1"
      BY <1>1, <1>5, <2>1, <3>1, Proceeds DEF Plan, Accepts, Locked, LInv, Types, disk
    <3>2. CASE era # "v1"
      <4>1. lock' = None /\ pc' = [pc EXCEPT ![c] = "started"] /\ UNCHANGED ops
        BY <1>5, <3>2 DEF Accepts
      <4>2. Control' /\ Phase' = "free"
        BY <1>1, <4>1, Releases DEF Steps, Locked, Copying
      <4>3. ServersOK' /\ Types'
        BY <1>1, <2>1, <3>2, <4>1, RestKept, ServersKept
        DEF Plan, Steps, disk, LInv, Types
      <4> QED
        BY <4>2, <4>3
    <3> QED
      BY <3>1, <3>2
  <2> QED
    BY <1>1, <1>5, <2>1, <2>2, RestKept
    DEF Plan, LInv, RecordOK, HolderOK, Untouched, BlockedOK, disk, Locked, Copying, Ended
<1> QED
  BY <1>2, <1>3, <1>4, <1>5 DEF Plan
-----------------------------------------------------------------------------
(* Version 1 *)

\* What the classification says of the record and the disk.
LEMMA ClassFacts ==
    /\ Classified = "promoted" => job.paths /\ pending = "absent" /\ final = "own"
    /\ Classified = "finished" => job.paths /\ pending = "whole" /\ final = "absent"
    /\ Runnable => final = "absent" /\ pending \in {"absent", "partial"}
    /\ Runnable /\ pending # "absent" => job.paths
    /\ Classified = "ambiguous" =>
          /\ pending # "absent" \/ final # "absent"
          /\ ~(job.paths /\ pending \in {"partial", "whole"} /\ final = "absent")
          /\ ~(job.paths /\ pending = "absent" /\ final = "own")
    /\ Classified \in {"ready", "incomplete", "finished", "promoted", "ambiguous"}
<1>1. disk = <<"absent", "absent">> <=> pending = "absent" /\ final = "absent"
  BY DEF disk
<1>2. Classified =
        IF pending = "absent" /\ final = "absent" THEN "ready"
        ELSE IF job.paths /\ pending = "partial" /\ final = "absent" THEN "incomplete"
        ELSE IF job.paths /\ pending = "whole" /\ final = "absent" THEN "finished"
        ELSE IF job.paths /\ pending = "absent" /\ final = "own" THEN "promoted"
        ELSE "ambiguous"
  BY <1>1 DEF Classified
<1> QED
  BY <1>2 DEF Runnable

LEMMA RecoverV1Keeps ==
    ASSUME LInv, NEW c \in Callers \ Servers, lock = None, job.life = "executing",
           RecoverV1(c), UNCHANGED disk, Keep
    PROVE  LInv'
<1>1. CASE Stale(c)
  BY <1>1, StaleCloses
<1>2. CASE Ends("verified") /\ Leave(c)
  BY <1>2, Closes DEF Ended
<1>3. CASE ~changed /\ Classified = "finished" /\ Start(c, "repromoting") /\ UNCHANGED <<job, ops>>
  <2>1. Phase' = "repromoting" /\ Control' /\ ServersOK' /\ Types'
    BY <1>3, Proceeds DEF Locked, LInv, Types, disk
  <2> QED
    BY <1>3, <2>1, RestKept, ClassFacts
    DEF LInv, RecordOK, HolderOK, Untouched, BlockedOK, disk, Locked, Copying, Ended
<1> QED
  BY <1>1, <1>2, <1>3 DEF RecoverV1

LEMMA ResumeV1Keeps ==
    ASSUME LInv, NEW c \in Callers \ Servers, ResumeV1(c)
    PROVE  LInv'
<1>1. CASE RecoverV1(c)
  BY <1>1, RecoverV1Keeps DEF ResumeV1, Free
<1>2. CASE Stale(c)
  BY <1>2, StaleCloses DEF ResumeV1, Free
<1>3. CASE Runnable /\ ~changed /\ Start(c, "begun") /\ UNCHANGED <<job, ops>>
  <2>1. Phase' = "begun" /\ Control' /\ ServersOK' /\ Types'
    BY <1>3, Proceeds DEF ResumeV1, Free, Locked, LInv, Types, disk
  <2> QED
    BY <1>3, <2>1, RestKept
    DEF ResumeV1, LInv, RecordOK, HolderOK, Untouched, BlockedOK, disk, Locked, Copying, Ended
<1> QED
  BY <1>1, <1>2, <1>3 DEF ResumeV1

LEMMA WebCheckpointKeeps ==
    ASSUME LInv, NEW c \in Callers \ Servers, WebCheckpoint(c)
    PROVE  LInv'
<1>1. CASE job.life = "executing" /\ RecoverV1(c)
  BY <1>1, RecoverV1Keeps DEF WebCheckpoint, Free
<1>2. CASE Stale(c)
  BY <1>2, StaleCloses DEF WebCheckpoint, Free
<1>3. CASE job.life = "executing" /\ Classified = "ambiguous" /\ Block(c)
  <2>1. changes = 0 => pending = "receipt"
    BY <1>3, ClassFacts DEF LInv, Untouched, Types, Trees
  <2> QED
    BY <1>3, <2>1, BlockCloses DEF WebCheckpoint, Free
<1> QED
  BY <1>1, <1>2, <1>3 DEF WebCheckpoint

\* Only callers that are no servers work on a job of version 1.
LEMMA WorkerV1 ==
    ASSUME LInv, NEW c \in Callers, era = "v1", pc[c] # "idle"
    PROVE  c \notin Servers
BY DEF LInv, ServersOK

LEMMA BeginV1Keeps ==
    ASSUME LInv, NEW c \in Callers, BeginV1(c)
    PROVE  LInv'
<1>1. lock = c /\ Phase = "begun" /\ job.life = "executing" /\ c \notin Servers
  BY PhaseFacts, WorkerV1 DEF BeginV1, Locked, LInv, HolderOK
<1>2. CASE Raise(c) /\ UNCHANGED disk
  BY <1>1, <1>2, RaiseBacks DEF BeginV1
<1>3. CASE Stale(c) /\ UNCHANGED disk
  BY <1>1, <1>3, StaleCloses DEF BeginV1
<1>4. CASE /\ Runnable /\ (job.paths \/ ~changed)
           /\ pending' = "absent" /\ UNCHANGED final
           /\ job' = [job EXCEPT !.paths = TRUE] /\ Go(c, "copying") /\ UNCHANGED ops
  <2>1. job' \in Record /\ job'.life = job.life /\ job'.accepted = job.accepted /\ job'.paths
    BY <1>4 DEF LInv, Types, Record
  <2>2. Phase' = "copying" /\ Control' /\ ServersOK' /\ Types'
    BY <1>1, <1>4, <2>1, Proceeds DEF BeginV1, Locked, Copying, LInv, Types, Trees
  <2> QED
    BY <1>1, <1>4, <2>1, <2>2, RestKept, ClassFacts
    DEF BeginV1, LInv, RecordOK, HolderOK, Untouched, BlockedOK, Locked, Copying, Ended
<1> QED
  BY <1>2, <1>3, <1>4 DEF BeginV1
-----------------------------------------------------------------------------
(* Version 2 *)

LEMMA RehydrateKeeps ==
    ASSUME LInv, NEW c \in Callers, Rehydrate(c)
    PROVE  LInv'
BY StaleCloses DEF Rehydrate, Free

LEMMA PrepareKeeps ==
    ASSUME LInv, NEW c \in Callers, lock = None, era = "v2", job.life = "planning",
           Prepare(c), UNCHANGED disk, Keep
    PROVE  LInv'
<1>1. CASE Block(c)
  BY <1>1, BlockCloses DEF LInv, RecordOK
<1>2. CASE job' = [job EXCEPT !.life = "executing", !.accepted = TRUE]
           /\ Start(c, "begun") /\ UNCHANGED ops
  <2>1. job' \in Record /\ job'.life = "executing" /\ job'.accepted /\ job'.paths = job.paths
    BY <1>2 DEF LInv, Types, Record, Lives
  <2>2. Phase' = "begun" /\ Control' /\ ServersOK' /\ Types'
    BY <1>2, <2>1, Proceeds DEF Locked, LInv, Types, disk
  <2> QED
    BY <1>2, <2>1, <2>2, RestKept
    DEF LInv, RecordOK, HolderOK, Untouched, BlockedOK, disk, Locked, Copying, Ended
<1> QED
  BY <1>1, <1>2 DEF Prepare

LEMMA RunV2Keeps ==
    ASSUME LInv, NEW c \in Callers, RunV2(c)
    PROVE  LInv'
<1> DEFINE promoted == job.paths /\ pending = "absent" /\ final # "absent"
<1>1. lock = None /\ era = "v2" /\ UNCHANGED disk /\ Keep
  BY DEF RunV2, Free
<1>2. CASE UNCHANGED job /\ Leave(c)
  BY <1>1, <1>2, Backs
<1>3. CASE job.life = "executing" /\ promoted /\ final = "own" /\ Ends("verified") /\ Leave(c)
  BY <1>1, <1>3, Closes DEF Ended
<1>4. CASE promoted /\ final # "own" /\ Block(c)
  BY <1>1, <1>4, BlockCloses DEF LInv, Untouched
<1>5. CASE Stale(c)
  BY <1>1, <1>5, StaleCloses
<1>6. CASE job.life = "planning" /\ Prepare(c)
  BY <1>1, <1>6, PrepareKeeps
<1>7. CASE job.life = "executing" /\ ~promoted /\ ~changed /\ Start(c, "begun")
           /\ UNCHANGED <<job, ops>>
  <2>1. Phase' = "begun" /\ Control' /\ ServersOK' /\ Types'
    BY <1>1, <1>7, Proceeds DEF Locked, LInv, Types, disk
  <2> QED
    BY <1>1, <1>7, <2>1, RestKept
    DEF LInv, RecordOK, HolderOK, Untouched, BlockedOK, disk, Locked, Copying, Ended
<1>8. \/ UNCHANGED job /\ Leave(c)
      \/ job.life = "executing" /\ promoted /\ final = "own" /\ Ends("verified") /\ Leave(c)
      \/ job.life = "executing" /\ promoted /\ final # "own" /\ Block(c)
      \/ Stale(c)
      \/ job.life = "planning" /\ Prepare(c)
      \/ job.life = "executing" /\ ~promoted /\ ~changed /\ Start(c, "begun")
            /\ UNCHANGED <<job, ops>>
  BY DEF RunV2
<1> QED
  BY <1>2, <1>3, <1>4, <1>5, <1>6, <1>7, <1>8

LEMMA ResumeV2Keeps ==
    ASSUME LInv, NEW c \in Callers, ResumeV2(c)
    PROVE  LInv'
<1>1. CASE RunV2(c)
  BY <1>1, RunV2Keeps
<1>2. CASE UNCHANGED job /\ Leave(c) /\ UNCHANGED disk /\ Keep
  BY <1>2, Backs
<1> QED
  BY <1>1, <1>2 DEF ResumeV2

LEMMA BeginV2Keeps ==
    ASSUME LInv, NEW c \in Callers, BeginV2(c)
    PROVE  LInv'
<1>1. /\ lock = c /\ Phase = "begun" /\ job.life = "executing"
      /\ era = "v2" /\ UNCHANGED disk /\ Keep
  BY PhaseFacts DEF BeginV2, Locked, LInv, HolderOK
<1>2. CASE ~job.paths /\ disk # <<"absent", "absent">> /\ Block(c)
  BY <1>1, <1>2, BlockCloses DEF LInv, Untouched, disk
<1>3. CASE Stale(c)
  BY <1>1, <1>3, StaleCloses
<1>4. CASE Go(c, "recovering") /\ UNCHANGED ops
           /\ ((job.paths /\ UNCHANGED job) \/ job' = [job EXCEPT !.paths = TRUE])
  <2>1. job' \in Record /\ job'.life = job.life /\ job'.accepted = job.accepted /\ job'.paths
    BY <1>4 DEF LInv, Types, Record
  <2>2. Phase' = "recovering" /\ Control' /\ ServersOK' /\ Types'
    BY <1>1, <1>4, <2>1, Proceeds DEF BeginV2, Locked, LInv, Types, disk
  <2> QED
    BY <1>1, <2>1, <2>2, RestKept
    DEF LInv, RecordOK, HolderOK, Untouched, BlockedOK, disk, Locked, Copying, Ended
<1> QED
  BY <1>2, <1>3, <1>4 DEF BeginV2

LEMMA RecoverV2Keeps ==
    ASSUME LInv, NEW c \in Callers, RecoverV2(c)
    PROVE  LInv'
<1>1. lock = c /\ Phase = "recovering" /\ job.life = "executing" /\ job.paths
  BY PhaseFacts DEF RecoverV2, Locked, LInv, HolderOK
<1>2. CASE Stale(c) /\ UNCHANGED pending
  BY <1>1, <1>2, StaleCloses DEF RecoverV2, disk
<1>3. CASE Ends("verified") /\ Leave(c) /\ UNCHANGED pending
  BY <1>1, <1>3, Closes DEF RecoverV2, disk, Ended
<1>4. CASE final # "absent" /\ disk # <<"absent", "own">> /\ Block(c) /\ UNCHANGED pending
  BY <1>1, <1>4, BlockCloses DEF RecoverV2, disk, LInv, Untouched
<1>5. CASE final = "absent" /\ pending = "whole" /\ UNCHANGED <<pending, job, ops>>
           /\ Go(c, "repromoting")
  <2>1. Phase' = "repromoting" /\ Control' /\ ServersOK' /\ Types'
    BY <1>1, <1>5, Proceeds DEF RecoverV2, Locked, LInv, Types
  <2> QED
    BY <1>1, <1>5, <2>1, RestKept
    DEF RecoverV2, LInv, RecordOK, HolderOK, Untouched, BlockedOK, Locked, Copying, Ended
<1>6. CASE final = "absent" /\ pending # "whole" /\ pending' = "absent"
           /\ Go(c, "copying") /\ UNCHANGED <<job, ops>>
  <2>1. Phase' = "copying" /\ Control' /\ ServersOK' /\ Types'
    BY <1>1, <1>6, Proceeds DEF RecoverV2, Locked, Copying, LInv, Types, Trees
  <2> QED
    BY <1>1, <1>6, <2>1, RestKept
    DEF RecoverV2, LInv, RecordOK, HolderOK, Untouched, BlockedOK, Locked, Copying, Ended
<1> QED
  BY <1>2, <1>3, <1>4, <1>5, <1>6 DEF RecoverV2
-----------------------------------------------------------------------------
(* The copy *)

\* The record stays, and what the holder has made is at its next step.
LEMMA Advances ==
    ASSUME LInv, NEW c \in Callers, lock = c, NEW step \in Locked \ {"planning"}, Go(c, step),
           Phase \in Copying \cup {"repromoting"}, UNCHANGED <<job, ops>>, Keep,
           pending' \in Trees, final' \in Places,
           step \in {"copying", "promoted"} => pending' = "absent",
           step = "staged" => pending' = "partial",
           step = "sealing" => pending' = "receipt",
           step \in {"sealed", "scanned"} => pending' = "whole",
           changes = 0 => /\ final' \in {"absent", "own"}
                          /\ final' = "own" => pending' = "absent"
                          /\ step \in Copying \cup {"repromoting"} => final' = "absent"
                          /\ step = "promoted" => final' = "own",
           step # "failed"
    PROVE  LInv'
<1>1. pc[c] # "idle" /\ job.life = "executing" /\ job.paths
  BY PhaseFacts DEF LInv, HolderOK, Copying, Locked
<1>2. Phase' = step /\ Control' /\ ServersOK' /\ Types'
  BY <1>1, Proceeds DEF LInv, Types
<1> QED
  BY <1>1, <1>2, RestKept
  DEF LInv, RecordOK, HolderOK, Untouched, BlockedOK, Locked, Copying, Ended

LEMMA RepromoteKeeps ==
    ASSUME LInv, NEW c \in Callers, Repromote(c)
    PROVE  LInv'
<1>1. lock = c /\ Phase = "repromoting" /\ job.life = "executing" /\ job.paths
  BY PhaseFacts DEF Repromote, Locked, LInv, HolderOK
<1>2. CASE final = "absent" /\ final' = "own" /\ pending' = "absent"
           /\ Go(c, "promoted") /\ UNCHANGED <<job, ops>>
  BY <1>1, <1>2, Advances DEF Repromote, Locked, Copying, Trees, Places
<1>3. CASE final # "absent" /\ UNCHANGED disk /\ era = "v1" /\ Raise(c)
  <2>1. c \notin Servers
    BY <1>1, <1>3, WorkerV1 DEF Repromote
  <2> QED
    BY <1>1, <1>3, <2>1, RaiseBacks DEF Repromote
<1>4. CASE final # "absent" /\ UNCHANGED disk /\ era = "v2" /\ Block(c)
  BY <1>1, <1>4, BlockCloses DEF Repromote, LInv, Untouched
<1> QED
  BY <1>2, <1>3, <1>4 DEF Repromote

LEMMA CopyKeeps ==
    ASSUME LInv, NEW c \in Callers, Copy(c)
    PROVE  LInv'
<1>1. /\ pc[c] \in Copying => lock = c /\ Phase = pc[c]
      /\ final \in Places
  BY PhaseFacts DEF Locked, LInv, Types
<1>2. CASE final = "absent" /\ CopyStep(c, "copying", "staged", "partial")
  BY <1>1, <1>2, Advances DEF CopyStep, Locked, Copying, Trees
<1>3. CASE CopyStep(c, "staged", "sealing", "receipt")
  BY <1>1, <1>3, Advances DEF CopyStep, Locked, Copying, Trees, LInv, Untouched
<1>4. CASE CopyStep(c, "sealing", "sealed", "whole")
  BY <1>1, <1>4, Advances DEF CopyStep, Locked, Copying, Trees, LInv, Untouched
<1>5. CASE CopyStep(c, "sealed", "scanned", "whole")
  BY <1>1, <1>5, Advances DEF CopyStep, Locked, Copying, Trees, LInv, Untouched
<1> QED
  BY <1>2, <1>3, <1>4, <1>5 DEF Copy

LEMMA PromoteKeeps ==
    ASSUME LInv, NEW c \in Callers, Promote(c)
    PROVE  LInv'
<1>1. lock = c /\ Phase = "scanned"
  BY PhaseFacts DEF Promote, Locked, Copying
<1> QED
  BY <1>1, Advances DEF Promote, Locked, Copying, Trees, Places

LEMMA CopyFailsKeeps ==
    ASSUME LInv, NEW c \in Callers, CopyFails(c)
    PROVE  LInv'
<1>1. lock = c /\ Phase = pc[c] /\ pc[c] \in Copying /\ job.life = "executing" /\ job.paths
  BY PhaseFacts DEF CopyFails, Locked, Copying, LInv, HolderOK
<1>2. /\ pc' = [pc EXCEPT ![c] = "failed"] /\ lock' = lock /\ "failed" \in Locked
      /\ UNCHANGED <<era, authority, job, ops, final, restored, rc, changed, crashes, changes>>
  BY DEF CopyFails, Go, recreation, Locked
<1>3. Control' /\ Phase' = "failed"
  BY <1>1, <1>2, TakeFacts DEF CopyFails
<1>4. failures' \in {failures, failures + 1} /\ failures' \in Nat /\ failures' >= failures
  BY DEF CopyFails, LInv, Types
<1>5. changes = 0 => failures' = failures + 1
  BY <1>1 DEF CopyFails, LInv, Untouched, Copying
<1>6. pending' \in {pending, "absent"}
  BY DEF CopyFails
<1>7. ServersOK'
  <2>1. \A t \in Servers : era = "v1" => t # c
    BY <1>1 DEF LInv, ServersOK, Copying
  <2>2. failures' = 0 => failures = 0
    BY <1>4 DEF LInv, Types
  <2> QED
    BY <1>2, <2>1, <2>2, LegacyAssumption DEF LInv, ServersOK, Control
<1>8. Types'
  BY <1>2, <1>4, <1>6 DEF LInv, Types, Trees
<1>9. RecordOK' /\ HolderOK'
  BY <1>1, <1>2, <1>3 DEF LInv, RecordOK, HolderOK, Locked, Copying, Ended
<1>10. changes' = 0 => failures' # 0
  BY <1>2, <1>5 DEF LInv, Types
<1>11. Untouched' /\ BlockedOK'
  BY <1>1, <1>2, <1>3, <1>6, <1>10 DEF LInv, Untouched, BlockedOK, Copying
<1> QED
  BY <1>3, <1>7, <1>8, <1>9, <1>11 DEF LInv

LEMMA SettleKeeps ==
    ASSUME LInv, NEW c \in Callers, Settle(c)
    PROVE  LInv'
<1>1. lock = c /\ Phase = "failed"
  BY PhaseFacts DEF Settle, Locked
<1>2. CASE Stale(c)
  BY <1>1, <1>2, StaleCloses DEF Settle
<1>3. CASE Ends("blocked") /\ Leave(c)
  BY <1>1, <1>3, Closes DEF Settle, Ended, LInv, Untouched
<1> QED
  BY <1>2, <1>3 DEF Settle

LEMMA FinalizeKeeps ==
    ASSUME LInv, NEW c \in Callers, Finalize(c)
    PROVE  LInv'
<1>1. lock = c /\ Phase = "promoted"
  BY PhaseFacts DEF Finalize, Locked
<1>2. CASE Ends("verified") /\ Leave(c)
  BY <1>1, <1>2, Closes DEF Finalize, Ended
<1>3. CASE era = "v1" /\ final = "absent" /\ Raise(c)
  <2>1. c \notin Servers
    BY <1>1, <1>3, WorkerV1 DEF Finalize
  <2> QED
    BY <1>1, <1>3, <2>1, RaiseBacks DEF Finalize
<1>4. CASE era = "v2" /\ final # "own" /\ Block(c)
  BY <1>1, <1>4, BlockCloses DEF Finalize, LInv, Untouched
<1> QED
  BY <1>2, <1>3, <1>4 DEF Finalize
-----------------------------------------------------------------------------
(* Recreation, the server, crashes and the user *)

\* Nothing that the invariant compares changes.
LEMMA Elsewhere ==
    ASSUME LInv, UNCHANGED <<era, authority, job, lock, pc, pending, final, changed, failures,
                             changes>>,
           ServersOK', Types'
    PROVE  LInv'
BY DEF LInv, Control, Phase, RecordOK, HolderOK, Untouched, BlockedOK

LEMMA RecreationKeeps ==
    ASSUME LInv, NEW c \in Callers, Recreate(c) \/ CopyOriginal(c) \/ PromoteOriginal(c)
    PROVE  LInv'
<1>1. /\ UNCHANGED <<era, authority, job, lock, pc, pending, final, changed, crashes, failures,
                     changes>>
      /\ ops' = ops
  BY DEF Recreate, CopyOriginal, PromoteOriginal, RecreationOnly, disk, bounds
<1>2. restored' \in {restored, "own"}
  BY DEF Recreate, CopyOriginal, PromoteOriginal
<1>3. PICK step \in Moves : rc' = [rc EXCEPT ![c] = step]
  BY DEF Recreate, CopyOriginal, PromoteOriginal, Turn, Moves
<1>4. Types' /\ ServersOK'
  BY <1>1, <1>2, <1>3 DEF LInv, Types, Places, ServersOK
<1> QED
  BY <1>1, <1>4, Elsewhere

LEMMA LaunchFacts ==
    ASSUME LInv, NEW t \in Servers, NEW kind \in Kinds, Launch(t, kind)
    PROVE  ops' \in [Servers -> Seq(Kinds)]
BY DEF Launch, LInv, Types

\* Operations are launched for a job of version 2.
LEMMA ServersOps ==
    ASSUME LInv, era = "v2", UNCHANGED <<era, pc, failures>>
    PROVE  ServersOK'
BY DEF LInv, ServersOK

LEMMA ScheduleKeeps ==
    ASSUME LInv, NEW t \in Servers, Schedule(t)
    PROVE  LInv'
<1>1. ops' \in [Servers -> Seq(Kinds)] /\ Types'
  BY LaunchFacts, RestKept DEF Schedule, Kinds, LInv, Types, disk
<1> QED
  BY <1>1, Elsewhere, RestKept, ServersOps DEF Schedule, disk

LEMMA AnswerByToolKeeps ==
    ASSUME LInv, NEW t \in Servers, AnswerByTool(t)
    PROVE  LInv'
<1>1. era = "v2" /\ UNCHANGED <<lock, pc, pending, final>> /\ Keep /\ lock = None
  BY DEF AnswerByTool, disk, Free
<1>2. CASE job.life = "awaiting" /\ Ends("stale") /\ UNCHANGED ops
  <2>1. job' \in Record /\ job'.life = "stale"
    BY <1>2, EndFacts DEF Lives
  <2>2. Types' /\ ServersOK'
    BY <1>1, <1>2, <2>1, RestKept, ServersOps DEF LInv, Types
  <2> QED
    BY <1>1, <1>2, <2>1, <2>2, EndFacts, RestKept
    DEF LInv, Control, Phase, RecordOK, HolderOK, Untouched, BlockedOK, Locked, Copying, Ended,
        Lives
<1>3. CASE /\ job.life = "awaiting" /\ Launch(t, "answer")
           /\ job' = [job EXCEPT !.life = "planning", !.answered = TRUE]
  <2>1. job' \in Record /\ job'.life = "planning" /\ ~job'.accepted /\ job'.paths = job.paths
    BY <1>3 DEF LInv, Types, Record, RecordOK, Lives
  <2>2. Types' /\ ServersOK'
    BY <1>1, <1>3, <2>1, LaunchFacts, RestKept, ServersOps DEF LInv, Types, Kinds
  <2> QED
    BY <1>1, <1>3, <2>1, <2>2, RestKept
    DEF LInv, Control, Phase, RecordOK, HolderOK, Untouched, BlockedOK, Locked, Copying, Ended
<1>4. CASE UNCHANGED job /\ Launch(t, "answer")
  <2>1. Types' /\ ServersOK'
    BY <1>1, <1>4, LaunchFacts, RestKept, ServersOps DEF LInv, Types, Kinds
  <2> QED
    BY <1>1, <1>4, <2>1, Elsewhere, RestKept
<1> QED
  BY <1>2, <1>3, <1>4 DEF AnswerByTool

\* A server with an operation works on a job of version 2.
LEMMA OperatesV2 ==
    ASSUME LInv, NEW t \in Servers, ops[t] # <<>> \/ pc[t] # "idle"
    PROVE  era = "v2"
BY DEF LInv, Types, ServersOK

LEMMA OperateKeeps ==
    ASSUME LInv, NEW t \in Servers, Operate(t)
    PROVE  LInv'
<1>1. t \in Callers /\ era = "v2" /\ pc[t] = "idle"
  BY OperatesV2, LegacyAssumption DEF Operate
<1>2. CASE UNCHANGED <<job, disk>> /\ Leave(t) /\ Keep
  BY <1>1, <1>2, Backs
<1>3. CASE Replan(t, "planning")
  BY <1>1, <1>3, ReplanKeeps
<1>4. CASE RunV2(t)
  BY <1>1, <1>4, RunV2Keeps
<1>5. CASE /\ failures' = failures + 1 /\ Raise(t)
           /\ UNCHANGED <<era, authority, disk, recreation, changed, crashes, changes>>
  <2>1. /\ pc' = [pc EXCEPT ![t] = "reporting"] /\ lock' = lock
        /\ UNCHANGED <<job, ops, pending, final, rc, restored>>
    BY <1>1, <1>5, PhaseFacts DEF Raise, disk, recreation, Locked, Copying
  <2>2. Control' /\ Phase' = Phase
    BY <1>1, <2>1, PhaseFacts DEF LInv, Control, Phase, Steps, Locked, Copying
  <2>3. failures \in Nat /\ failures' # 0
    BY <1>5 DEF LInv, Types
  <2>4. Types' /\ ServersOK'
    BY <1>1, <1>5, <2>1, <2>3 DEF LInv, Types, ServersOK
  <2> QED
    BY <1>5, <2>1, <2>2, <2>3, <2>4 DEF LInv, RecordOK, HolderOK, Untouched, BlockedOK
<1> QED
  BY <1>2, <1>3, <1>4, <1>5 DEF Operate

LEMMA ReportKeeps ==
    ASSUME LInv, NEW t \in Servers, Report(t)
    PROVE  LInv'
<1>1. t \in Callers /\ UNCHANGED disk /\ Keep
  BY LegacyAssumption DEF Report
<1>2. CASE Free /\ Block(t)
  <2>1. failures # 0
    BY <1>1 DEF Report, LInv, ServersOK
  <2> QED
    BY <1>1, <1>2, <2>1, BlockCloses DEF Free
<1>3. CASE UNCHANGED job /\ Leave(t)
  BY <1>1, <1>3, Backs
<1> QED
  BY <1>2, <1>3 DEF Report

LEMMA CrashKeeps ==
    ASSUME LInv, NEW c \in Callers, Crash(c)
    PROVE  LInv'
<1>1. /\ UNCHANGED <<era, authority, job, pending, final, restored, changed, failures, changes>>
      /\ crashes' \in Nat
      /\ pc' = [pc EXCEPT ![c] = "idle"] /\ lock' = IF lock = c THEN None ELSE lock
  BY DEF Crash, disk, LInv, Types
<1>2. rc' \in [Callers -> Moves]
  BY DEF Crash, Turn, LInv, Types, Moves
<1>3. ops' \in [Servers -> Seq(Kinds)] /\ \A t \in Servers : ops'[t] \in {ops[t], <<>>}
  BY DEF Crash, LInv, Types
<1>4. Types' /\ ServersOK'
  BY <1>1, <1>2, <1>3, LegacyAssumption DEF LInv, Types, ServersOK, Control
<1>5. Control' /\ Phase' \in {"free", Phase}
  <2>1. CASE lock = c
    BY <1>1, <2>1, Releases DEF Steps, Locked, Copying
  <2>2. CASE lock # c
    BY <1>1, <2>2, PhaseFacts DEF LInv, Control, Phase, Steps, Locked, Copying
  <2> QED
    BY <2>1, <2>2
<1> QED
  BY <1>1, <1>4, <1>5
  DEF LInv, RecordOK, HolderOK, Untouched, BlockedOK, Locked, Copying

LEMMA DisturbKeeps ==
    ASSUME LInv, Disturb
    PROVE  LInv'
<1>1. /\ UNCHANGED <<era, authority, job, lock, pc, ops, pending, rc, crashes, failures>>
      /\ changes' \in Nat /\ changes' # 0
  BY DEF Disturb, LInv, Types
<1>2. changed' \in BOOLEAN /\ final' \in Places /\ restored' \in Places
  BY DEF Disturb, Touched, LInv, Types, Places
<1> QED
  BY <1>1, <1>2
  DEF LInv, Types, Control, Phase, ServersOK, RecordOK, HolderOK, Untouched, BlockedOK
-----------------------------------------------------------------------------
(* The theorems *)

LEMMA InitOK == Init => LInv
<1> SUFFICES ASSUME Init  PROVE LInv
  OBVIOUS
<1>1. Types
  <2>1. job \in Record
    BY DEF Init, Record, Lives
  <2>2. ops \in [Servers -> Seq(Kinds)]
    BY DEF Init
  <2>3. rc \in [Callers -> Moves]
    BY DEF Init, Moves
  <2>4. authority \in {"planned", "capsule"}
    BY DEF Init
  <2> QED
    BY <2>1, <2>2, <2>3, <2>4 DEF Init, Types, Trees, Places
<1>2. Control /\ Phase = "free"
  BY LegacyAssumption DEF Init, Control, Phase, Steps, Locked, Copying
<1>3. ServersOK
  BY LegacyAssumption DEF Init, ServersOK
<1> QED
  BY <1>1, <1>2, <1>3
  DEF Init, LInv, RecordOK, HolderOK, Untouched, BlockedOK, Locked, Copying, Ended

LEMMA StutterKeeps == LInv /\ UNCHANGED vars => LInv'
BY DEF vars, disk, recreation, bounds, LInv, Types, Control, Phase, ServersOK, RecordOK,
       HolderOK, Untouched, BlockedOK

LEMMA WorkKeeps ==
    ASSUME LInv, NEW c \in Callers, Work(c)
    PROVE  LInv'
BY PlanKeeps, BeginV1Keeps, BeginV2Keeps, RecoverV2Keeps, RepromoteKeeps, CopyKeeps,
   PromoteKeeps, CopyFailsKeeps, SettleKeeps, FinalizeKeeps DEF Work

LEMMA ReopenKeeps ==
    ASSUME LInv, NEW c \in Callers \ Servers, Reopen(c)
    PROVE  LInv'
BY ResumeV1Keeps, WebCheckpointKeeps, RehydrateKeeps, ResumeV2Keeps, ReplanKeeps DEF Reopen

LEMMA NextOK == LInv /\ [Next]_vars => LInv'
<1> SUFFICES ASSUME LInv, [Next]_vars  PROVE LInv'
  OBVIOUS
<1>1. ASSUME NEW c \in Callers, Work(c) \/ Crash(c)  PROVE LInv'
  BY <1>1, WorkKeeps, CrashKeeps
<1>2. ASSUME NEW c \in Callers, Recreate(c) \/ CopyOriginal(c) \/ PromoteOriginal(c)  PROVE LInv'
  BY <1>2, RecreationKeeps
<1>3. ASSUME NEW c \in Callers \ Servers, Reopen(c)  PROVE LInv'
  BY <1>3, ReopenKeeps
<1>4. ASSUME NEW t \in Servers,
             Schedule(t) \/ AnswerByTool(t) \/ Operate(t) \/ Report(t) \/ ResumeV2(t)
      PROVE  LInv'
  BY <1>4, ScheduleKeeps, AnswerByToolKeeps, OperateKeeps, ReportKeeps, ResumeV2Keeps,
     LegacyAssumption
<1> QED
  BY <1>1, <1>2, <1>3, <1>4, DisturbKeeps, StutterKeeps DEF Next

LEMMA Invariant == Spec => []LInv
<1> QED
  BY InitOK, NextOK, PTL DEF Spec

LEMMA InvProperty == LInv => CrashNeverBlocks
<1> SUFFICES ASSUME LInv  PROVE CrashNeverBlocks
  OBVIOUS
<1>1. /\ None \notin Callers /\ lock \in Callers \cup {None} /\ pc \in [Callers -> Steps]
      /\ \A c \in Callers : pc[c] \in Locked <=> lock = c
  BY LegacyAssumption DEF LInv, Control
<1>2. /\ lock = None <=> \A c \in Callers : pc[c] \notin Locked
      /\ lock # None => pc[lock] \in Locked /\ \A c \in Callers \ {lock} : pc[c] \notin Locked
  <2> HIDE DEF Locked
  <2> QED
    BY <1>1
<1>3. TypeOK
  BY <1>1, <1>2 DEF TypeOK, LInv, Types, Kinds, Moves
<1> QED
  BY <1>3 DEF CrashNeverBlocks, LInv, BlockedOK

\* A crash alone never blocks an accepted job of an earlier era, and the writer
\* lock excludes: for any callers, servers and bounds.
THEOREM CrashesAreSurvived == Spec => []CrashNeverBlocks
<1> QED
  BY Invariant, InvProperty, PTL
-----------------------------------------------------------------------------
(* A finished copy is kept *)

Kept ==
    /\ pending = "whole" => pending' = "whole" \/ (final = "absent" /\ final' = "own")
    /\ changes' = changes =>
           (final # "absent" => final' = final) /\ (restored # "absent" => restored' = restored)
    /\ era = "v2" /\ job.life # "verified" /\ job'.life = "verified"
           => final' = "own" /\ pending' = "absent"
    /\ \A c \in Callers : rc[c] # "told" /\ rc'[c] = "told" => restored' = "own"

\* A step that leaves the disk as it is, and verifies only what is in its place.
LEMMA QuietKept ==
    ASSUME LInv, UNCHANGED disk, Keep,
           era = "v2" /\ job.life # "verified" /\ job'.life = "verified"
               => final = "own" /\ pending = "absent"
    PROVE  Kept
BY DEF Kept, Keep, recreation, disk

LEMMA NotVerified ==
    ASSUME LInv, NEW ended \in Lives \ {"verified"}, Ends(ended)
    PROVE  job'.life # "verified"
BY EndFacts

LEMMA StaleKept ==
    ASSUME LInv, NEW c \in Callers, Stale(c) \/ Block(c), UNCHANGED disk, Keep
    PROVE  Kept
BY QuietKept, NotVerified DEF Stale, Block, Lives

\* The record is as it was, or is not verified now.
LEMMA OtherwiseKept ==
    ASSUME LInv, UNCHANGED disk, Keep, job' = job \/ job'.life # "verified"
    PROVE  Kept
BY QuietKept

LEMMA ReplanKept ==
    ASSUME LInv, NEW c \in Callers, NEW was, Replan(c, was)
    PROVE  Kept
<1>1. CASE Stale(c)
  BY <1>1, StaleKept DEF Replan
<1>2. CASE job' = [job EXCEPT !.life = "planning", !.answered = @ \/ was = "awaiting"]
  BY <1>2, OtherwiseKept DEF Replan, LInv, Types, Record
<1> QED
  BY <1>1, <1>2 DEF Replan

LEMMA PlanKept ==
    ASSUME LInv, NEW c \in Callers, Plan(c)
    PROVE  Kept
<1>1. CASE Stale(c)
  BY <1>1, StaleKept DEF Plan
<1>2. CASE Ends("blocked") \/ Ends("awaiting")
  BY <1>2, OtherwiseKept, NotVerified DEF Plan, Lives
<1>3. CASE job' = [job EXCEPT !.life = "executing", !.accepted = TRUE]
  BY <1>3, OtherwiseKept DEF Plan, LInv, Types, Record
<1> QED
  BY <1>1, <1>2, <1>3 DEF Plan, Asks, Accepts

LEMMA RecoverV1Kept ==
    ASSUME LInv, NEW c \in Callers, era = "v1", RecoverV1(c), UNCHANGED disk, Keep
    PROVE  Kept
BY QuietKept DEF RecoverV1

LEMMA V1Kept ==
    ASSUME LInv, NEW c \in Callers, ResumeV1(c) \/ WebCheckpoint(c)
    PROVE  Kept
BY QuietKept DEF ResumeV1, WebCheckpoint

LEMMA BeginV1Kept ==
    ASSUME LInv, NEW c \in Callers, BeginV1(c)
    PROVE  Kept
<1>1. CASE UNCHANGED disk
  BY <1>1, QuietKept DEF BeginV1
<1>2. CASE Runnable /\ pending' = "absent" /\ UNCHANGED final
  BY <1>2, ClassFacts DEF BeginV1, Kept, Keep, recreation
<1> QED
  BY <1>1, <1>2 DEF BeginV1, disk

LEMMA RunV2Kept ==
    ASSUME LInv, NEW c \in Callers, RunV2(c)
    PROVE  Kept
<1> DEFINE promoted == job.paths /\ pending = "absent" /\ final # "absent"
<1>1. UNCHANGED disk /\ Keep
  BY DEF RunV2
<1>2. CASE Stale(c) \/ Block(c)
  BY <1>1, <1>2, StaleKept
<1>3. CASE job' = job \/ (final = "own" /\ pending = "absent")
  BY <1>1, <1>3, QuietKept
<1>4. CASE job' = [job EXCEPT !.life = "executing", !.accepted = TRUE]
  BY <1>1, <1>4, OtherwiseKept DEF LInv, Types, Record
<1>5. \/ job' = job
      \/ promoted /\ final = "own"
      \/ Block(c) \/ Stale(c)
      \/ job' = [job EXCEPT !.life = "executing", !.accepted = TRUE]
  BY DEF RunV2, Prepare
<1> QED
  BY <1>2, <1>3, <1>4, <1>5

LEMMA ResumeV2Kept ==
    ASSUME LInv, NEW c \in Callers, ResumeV2(c)
    PROVE  Kept
BY RunV2Kept, OtherwiseKept DEF ResumeV2

LEMMA BeginV2Kept ==
    ASSUME LInv, NEW c \in Callers, BeginV2(c)
    PROVE  Kept
<1>1. UNCHANGED disk /\ Keep
  BY DEF BeginV2
<1>2. CASE Block(c) \/ Stale(c)
  BY <1>1, <1>2, StaleKept
<1>3. CASE job' = job
  BY <1>1, <1>3, OtherwiseKept
<1>4. CASE job' = [job EXCEPT !.paths = TRUE]
  BY <1>1, <1>4, QuietKept DEF LInv, Types, Record
<1> QED
  BY <1>2, <1>3, <1>4 DEF BeginV2

LEMMA RecoverV2Kept ==
    ASSUME LInv, NEW c \in Callers, RecoverV2(c)
    PROVE  Kept
<1>1. CASE UNCHANGED pending /\ (Stale(c) \/ Block(c))
  BY <1>1, StaleKept DEF RecoverV2, disk
<1>2. CASE UNCHANGED pending /\ final = "own" /\ pending = "absent"
  BY <1>2, QuietKept DEF RecoverV2, disk
<1>3. CASE pending' = pending /\ job' = job
  BY <1>3, QuietKept DEF RecoverV2, disk
<1>4. CASE pending # "whole" /\ pending' = "absent" /\ job' = job
  BY <1>4 DEF RecoverV2, Kept, Keep, recreation
<1> QED
  BY <1>1, <1>2, <1>3, <1>4 DEF RecoverV2

LEMMA RepromoteKept ==
    ASSUME LInv, NEW c \in Callers, Repromote(c)
    PROVE  Kept
<1>1. CASE final = "absent" /\ final' = "own" /\ job' = job
  BY <1>1 DEF Repromote, Kept, Keep, recreation
<1>2. CASE UNCHANGED disk /\ era = "v1"
  BY <1>2, QuietKept DEF Repromote
<1>3. CASE UNCHANGED disk /\ Block(c)
  BY <1>3, StaleKept DEF Repromote
<1> QED
  BY <1>1, <1>2, <1>3 DEF Repromote

\* The tree under way is not whole before it is sealed.
LEMMA CopyKept ==
    ASSUME LInv, NEW c \in Callers, Copy(c) \/ Promote(c) \/ CopyFails(c)
    PROVE  Kept
<1>1. pc[c] \in Copying /\ lock = c /\ Phase = pc[c]
  BY PhaseFacts DEF Copy, CopyStep, Promote, CopyFails, Locked, Copying
<1>2. /\ pc[c] \in {"copying", "staged", "sealing"} => pending # "whole"
      /\ job' = job /\ restored' = restored /\ rc' = rc
  BY <1>1 DEF Copy, CopyStep, Promote, CopyFails, Copying, LInv, HolderOK, Keep, recreation
<1>3. CASE Copy(c)
  BY <1>2, <1>3 DEF Copy, CopyStep, Kept
<1>4. CASE Promote(c)
  BY <1>2, <1>4 DEF Promote, Kept
<1>5. CASE CopyFails(c)
  <2>1. Finalized(c) \/ pc[c] \in {"copying", "staged", "sealing"}
    BY <1>1 DEF Finalized, Copying
  <2>2. final' = final /\ pending' = IF Finalized(c) THEN pending ELSE "absent"
    BY <1>5 DEF CopyFails
  <2> QED
    BY <1>2, <2>1, <2>2 DEF Kept
<1> QED
  BY <1>3, <1>4, <1>5

LEMMA SettleKept ==
    ASSUME LInv, NEW c \in Callers, Settle(c)
    PROVE  Kept
BY StaleKept, OtherwiseKept, NotVerified DEF Settle, Lives

LEMMA FinalizeKept ==
    ASSUME LInv, NEW c \in Callers, Finalize(c)
    PROVE  Kept
<1>1. pending = "absent"
  BY PhaseFacts DEF Finalize, Locked, LInv, HolderOK
<1>2. CASE era = "v1"
  BY <1>2, QuietKept DEF Finalize
<1>3. CASE final = "own"
  BY <1>1, <1>3, QuietKept DEF Finalize
<1>4. CASE Block(c)
  BY <1>4, StaleKept DEF Finalize
<1> QED
  BY <1>2, <1>3, <1>4 DEF Finalize

LEMMA RecreationKept ==
    ASSUME LInv, NEW c \in Callers, Recreate(c) \/ CopyOriginal(c) \/ PromoteOriginal(c)
    PROVE  Kept
<1>1. UNCHANGED <<job, pending, final>>
  BY DEF Recreate, CopyOriginal, PromoteOriginal, RecreationOnly, disk
<1>2. restored # "absent" => restored' = restored
  BY DEF Recreate, CopyOriginal, PromoteOriginal
<1>3. rc' = [rc EXCEPT ![c] = rc'[c]] /\ (rc[c] # "told" /\ rc'[c] = "told" => restored' = "own")
  BY DEF Recreate, CopyOriginal, PromoteOriginal, Turn, LInv, Types
<1> QED
  BY <1>1, <1>2, <1>3 DEF Kept, LInv, Types

LEMMA ServerKept ==
    ASSUME LInv, NEW t \in Servers, Schedule(t) \/ AnswerByTool(t) \/ Operate(t) \/ Report(t)
    PROVE  Kept
<1>1. t \in Callers
  BY LegacyAssumption
<1>2. CASE Schedule(t)
  BY <1>2, OtherwiseKept DEF Schedule
<1>3. CASE AnswerByTool(t)
  <2>1. UNCHANGED disk /\ Keep
    BY <1>3 DEF AnswerByTool, disk
  <2>2. job' = job \/ job'.life # "verified"
    BY <1>3, NotVerified DEF AnswerByTool, Lives, LInv, Types, Record
  <2> QED
    BY <2>1, <2>2, OtherwiseKept
<1>4. CASE Operate(t)
  <2>1. CASE Replan(t, "planning") \/ RunV2(t)
    BY <1>1, <2>1, ReplanKept, RunV2Kept
  <2>2. CASE UNCHANGED <<job, disk>> /\ Keep
    BY <2>2, OtherwiseKept
  <2>3. CASE Raise(t) /\ UNCHANGED <<disk, recreation>>
    BY <2>3 DEF Raise, Kept, disk, recreation
  <2> QED
    BY <1>4, <2>1, <2>2, <2>3 DEF Operate
<1>5. CASE Report(t)
  BY <1>1, <1>5, StaleKept, OtherwiseKept DEF Report
<1> QED
  BY <1>2, <1>3, <1>4, <1>5

LEMMA EnvironmentKept ==
    ASSUME LInv, Disturb \/ \E c \in Callers : Crash(c)
    PROVE  Kept
<1>1. CASE Disturb
  BY <1>1 DEF Disturb, Kept, LInv, Types
<1>2. ASSUME NEW c \in Callers, Crash(c)  PROVE Kept
  BY <1>2 DEF Crash, Turn, Kept, disk, LInv, Types
<1> QED
  BY <1>1, <1>2

LEMMA StepsKeep == LInv /\ [Next]_vars => Kept \/ UNCHANGED vars
<1> SUFFICES ASSUME LInv, Next  PROVE Kept
  OBVIOUS
<1>1. ASSUME NEW c \in Callers, Work(c)  PROVE Kept
  BY <1>1, PlanKept, BeginV1Kept, BeginV2Kept, RecoverV2Kept, RepromoteKept, CopyKept,
     SettleKept, FinalizeKept DEF Work
<1>2. ASSUME NEW c \in Callers, Recreate(c) \/ CopyOriginal(c) \/ PromoteOriginal(c)  PROVE Kept
  BY <1>2, RecreationKept
<1>3. ASSUME NEW c \in Callers \ Servers, Reopen(c)  PROVE Kept
  BY <1>3, V1Kept, StaleKept, ResumeV2Kept, ReplanKept DEF Reopen, Rehydrate
<1>4. ASSUME NEW t \in Servers,
             Schedule(t) \/ AnswerByTool(t) \/ Operate(t) \/ Report(t) \/ ResumeV2(t)
      PROVE  Kept
  BY <1>4, ServerKept, ResumeV2Kept, LegacyAssumption
<1> QED
  BY <1>1, <1>2, <1>3, <1>4, EnvironmentKept DEF Next

\* A finished copy is only ever promoted, what the user may own is never replaced,
\* version 2 verifies only what is in its place, and who is told that the original
\* was recreated finds it: for any callers, servers and bounds.
THEOREM CopiesAreKept == Spec => FinishedCopyIsKept
<1>1. LInv /\ [Next]_vars => [Kept]_vars
  BY StepsKeep
<1> QED
  BY <1>1, Invariant, PTL DEF Spec, FinishedCopyIsKept, Kept
-----------------------------------------------------------------------------
(***************************************************************************)
(* The case of the Name Atlas workflow.                                    *)
(***************************************************************************)
Acts == {"none", "approved", "edited", "refused", "unresolved", "pending"}
Decisions == [act : Acts, to : Descriptors \cup {Nothing}, at : Nat, on : Nat \cup {Nothing}]
Drafts == [Families -> Decisions]
Piles == [Families -> Nat \cup {Nothing}]
Staging == {"allocated", "copied", "sealed", "promoted"}

CaseTypes ==
    /\ mode \in {"live", "replay"} /\ profile \in [Families -> Descriptors]
    /\ source \in {"same", "different", "unreadable"}
    /\ life \in CaseLives /\ why \in {Nothing, "blocker", "differences"}
    /\ dec \in Drafts /\ cards \in Piles
    /\ generated \in Nat /\ reserved \in Nat
    /\ asked = [c \in Calls |-> asked[c]]
    /\ \A c \in Calls : asked[c] # Nothing => asked[c].of \in Meaning
    /\ session \in SessionSteps /\ handoffs \in Seq([dec : Drafts, cards : Piles])
    /\ named \in 0..Len(handoffs)
    /\ crashed \in Nat /\ failed \in Nat /\ touched \in Nat

\* The card on record for a decision to export is the one it was made by, or came
\* after it; one that comes now is newer than all decisions.
CardsOK(d, k) ==
    /\ \A f \in Meaning : Ready(d[f]) =>
         k[f] # Nothing /\ (k[f] = d[f].on \/ k[f] > d[f].at)
    /\ \A f \in Families \ Meaning : k[f] = Nothing
    /\ \A f \in Families : d[f].at <= generated

CaseOK ==
    /\ life = "stale" <=> why # Nothing
    /\ life \notin Terminal => life = Lifecycle(dec)
    /\ Valid(dec) /\ CardsOK(dec, cards)

\* Nothing else writes the case while it is staged.
StagingOK ==
    /\ session \in Staging => life = "ready_to_stage" /\ Ledger
    /\ session = "promoted" \/ life = "handoff_ready" =>
         Len(handoffs) > 0 /\ handoffs[Len(handoffs)] = [dec |-> dec, cards |-> cards]
    /\ life = "handoff_ready" => named = Len(handoffs)

Asking == {c \in Calls : asked[c] # Nothing}

\* Each question is paid for when it is asked; each directory but the last was
\* left by a failure or a crash.
Counted ==
    /\ IsFiniteSet(Asking) /\ generated + Cardinality(Asking) <= reserved
    /\ reserved <= CallCap
    /\ Len(handoffs) <= crashed + failed
                          + IF session = "promoted" \/ life = "handoff_ready" THEN 1 ELSE 0

Authorized(h) ==
    /\ \A f \in Families : Ready(h.dec[f])
    /\ \A f \in Families : \A g \in Families \ {f} : Name(h.dec, f) # Name(h.dec, g)
    /\ \A f \in Meaning : h.cards[f] = h.dec[f].on

Handed == \A i \in 1..Len(handoffs) : Authorized(handoffs[i])

\* An edited bag never becomes whole again.
RestoreOK ==
    /\ bag \in {"absent", "whole", "edited"}
    /\ restoring \in {"none", "verified", "copied", "checked"}
    /\ place \in {"absent", "stranger", "original", "other"}
    /\ restoring # "none" => bag # "absent"
    /\ restoring = "copied" /\ bag = "whole" => taken = "original"
    /\ restoring = "checked" => taken = "original"

AInv == CaseTypes /\ CaseOK /\ StagingOK /\ Counted /\ Handed /\ RestoreOK
--------------------------------------------------------------------------------
(* Saving the case *)

\* What the handlers of the case leave alone.
Apart ==
    /\ UNCHANGED <<mode, profile, source, session, handoffs, receiver, tallies>>
    /\ generated' \in {generated, generated + 1}

\* What the other parts of the invariant need of a handler that saved the case.
Saved ==
    /\ CaseOK' /\ StagingOK' /\ Handed' /\ RestoreOK'
    /\ life' \in CaseLives /\ why' \in {Nothing, "blocker", "differences"}
    /\ dec' \in Drafts /\ cards' \in Piles /\ named' = named
    /\ life' = "handoff_ready" <=> life = "handoff_ready"

LEMMA NoneIsNone == AtlasAssumption =>
    /\ Nothing \notin Nat /\ Nothing # "blocker" /\ Nothing # "differences"
    /\ Meaning \subseteq Families
    /\ CallCap \in Nat /\ MaxCrashed \in Nat /\ MaxFailed \in Nat
BY DEF AtlasAssumption

LEMMA SameProfile ==
    ASSUME profile' = profile
    PROVE  (Valid(dec)' <=> Valid(dec')) /\ (Lifecycle(dec)' = Lifecycle(dec'))
BY DEF Valid, Lifecycle, Collides, Name, Ready

LEMMA ApartKeeps ==
    ASSUME AInv, Apart
    PROVE  Handed' /\ RestoreOK'
BY DEF AInv, Apart, Handed, Authorized, Name, Ready, RestoreOK, receiver

LEMMA GeneratedGrows ==
    ASSUME AInv, Apart
    PROVE  /\ generated \in Nat /\ generated' \in Nat /\ generated' >= generated
           /\ \A n \in Nat : n <= generated => n <= generated'
           /\ \A f \in Families : dec[f].at \in Nat
BY DEF AInv, CaseTypes, Apart, Drafts, Decisions

LEMMA SaveStep ==
    ASSUME AInv, AtlasAssumption, Serves, Apart,
           NEW d \in Drafts, NEW k \in Piles, CardsOK(d, k), Save(d, k)
    PROVE  Saved
<1>1. Handed' /\ RestoreOK'
  BY ApartKeeps
<1>2. why' = why /\ named' = named /\ profile' = profile /\ session' = session
  BY DEF Save, Apart
<1>3. CASE Valid(d)
  <2>1. dec' = d /\ cards' = k /\ life' = Lifecycle(d)
    BY <1>3 DEF Save
  <2>2. life' \in {"ready_to_stage", "blocked", "review"}
    BY <2>1 DEF Lifecycle
  <2>3. why = Nothing
    BY NoneIsNone DEF AInv, CaseOK, Serves, Terminal
  <2>4. CaseOK'
    <3>1. CardsOK(d, k)'
      BY GeneratedGrows DEF CardsOK, Drafts, Decisions
    <3> QED
      BY <1>2, <1>3, <2>1, <2>2, <2>3, <3>1, SameProfile DEF CaseOK, CardsOK
  <2>5. StagingOK'
    BY <1>2, <2>2 DEF StagingOK, Serves, Staging
  <2> QED
    BY <1>1, <1>2, <2>1, <2>2, <2>3, <2>4, <2>5 DEF Saved, CaseLives, Serves, Terminal
<1>4. CASE ~Valid(d)
  <2>1. UNCHANGED <<dec, cards, life>>
    BY <1>4 DEF Save
  <2> QED
    BY <1>1, <1>2, <2>1, SameProfile, GeneratedGrows
    DEF Saved, AInv, CaseTypes, CaseOK, CardsOK, StagingOK, Serves, Staging, Terminal
<1> QED
  BY <1>3, <1>4

LEMMA StaleStep ==
    ASSUME AInv, AtlasAssumption, Serves, Apart, GoesStale
    PROVE  Saved
<1>1. Handed' /\ RestoreOK'
  BY ApartKeeps
<1>2. /\ life' = "stale" /\ why' \in {"blocker", "differences"} /\ why' # Nothing
      /\ dec' = dec /\ cards' = cards /\ named' = named
      /\ profile' = profile /\ session' = session
  BY NoneIsNone DEF GoesStale, Apart
<1>3. CaseOK' /\ StagingOK'
  BY <1>2, SameProfile, GeneratedGrows
  DEF AInv, CaseOK, CardsOK, StagingOK, Serves, Staging, Terminal
<1> QED
  BY <1>1, <1>2, <1>3 DEF Saved, AInv, CaseTypes, CaseLives, Serves, Terminal

LEMMA SameStep ==
    ASSUME AInv, UNCHANGED case, Apart
    PROVE  Saved
<1>1. /\ UNCHANGED <<life, why, dec, cards, named, profile, session, handoffs>>
      /\ Handed' /\ RestoreOK'
  BY ApartKeeps DEF case, Apart
<1>2. CaseOK' /\ StagingOK'
  BY <1>1, SameProfile, GeneratedGrows DEF AInv, CaseOK, CardsOK, StagingOK, Ledger
<1> QED
  BY <1>1, <1>2 DEF Saved, AInv, CaseTypes

\* A handler that asks the model nothing.
LEMMA DecidedKeeps ==
    ASSUME AInv, Saved, Decided
    PROVE  AInv'
<1>1. /\ UNCHANGED <<mode, profile, source, generated, asked, reserved, session, handoffs>>
      /\ UNCHANGED <<crashed, failed, touched>>
  BY DEF Decided, tallies
<1>2. CaseTypes'
  BY <1>1 DEF AInv, CaseTypes, Saved
<1>3. Counted'
  BY <1>1 DEF AInv, Counted, Asking, Saved
<1> QED
  BY <1>2, <1>3 DEF AInv, Saved
--------------------------------------------------------------------------------
(* Decisions and cards *)

LEMMA DecisionFacts ==
    ASSUME AInv, AtlasAssumption, NEW f \in Families, NEW act \in Acts,
           NEW to \in Descriptors \cup {Nothing}, Reviewed(f)
    PROVE  /\ [dec EXCEPT ![f] = Decision(f, act, to)] \in Drafts
           /\ CardsOK([dec EXCEPT ![f] = Decision(f, act, to)], cards)
<1>1. /\ Decision(f, act, to) \in Decisions /\ Decision(f, act, to).on = cards[f]
      /\ Decision(f, act, to).at = generated /\ generated \in Nat
  BY DEF Decision, Decisions, AInv, CaseTypes, Piles
<1>2. f \in Meaning => cards[f] # Nothing
  BY DEF Reviewed, CardIsCurrent
<1> DEFINE d == [dec EXCEPT ![f] = Decision(f, act, to)]
<1>3. d \in Drafts /\ \A g \in Families : d[g] = IF g = f THEN Decision(f, act, to) ELSE dec[g]
  BY <1>1 DEF AInv, CaseTypes, Drafts
<1>4. CardsOK(dec, cards) /\ Meaning \subseteq Families
  BY NoneIsNone DEF AInv, CaseOK
<1> HIDE DEF d
<1>5. CardsOK(d, cards)
  BY <1>1, <1>2, <1>3, <1>4 DEF CardsOK
<1> QED
  BY <1>3, <1>5 DEF d

LEMMA ApproveKeeps ==
    ASSUME AInv, AtlasAssumption, NEW f \in Families, Approve(f)
    PROVE  AInv'
<1>1. Serves /\ Apart /\ cards \in Piles
  BY DEF Approve, Current, Decided, Apart, AInv, CaseTypes
<1>2. Saved
  BY <1>1, DecisionFacts, SaveStep DEF Approve, Acts, AInv, CaseTypes
<1> QED
  BY <1>2, DecidedKeeps DEF Approve

LEMMA EditKeeps ==
    ASSUME AInv, AtlasAssumption, NEW f \in Families, NEW to \in Descriptors, Edit(f, to)
    PROVE  AInv'
<1>1. Serves /\ Apart /\ cards \in Piles
  BY DEF Edit, Current, Decided, Apart, AInv, CaseTypes
<1>2. Saved
  BY <1>1, DecisionFacts, SaveStep DEF Edit, Acts
<1> QED
  BY <1>2, DecidedKeeps DEF Edit

LEMMA RefuseKeeps ==
    ASSUME AInv, AtlasAssumption, NEW f \in Families, Refuse(f)
    PROVE  AInv'
<1>1. Serves /\ Apart /\ cards \in Piles
  BY DEF Refuse, Current, Decided, Apart, AInv, CaseTypes
<1>2. Saved
  BY <1>1, DecisionFacts, SaveStep DEF Refuse, Acts
<1> QED
  BY <1>2, DecidedKeeps DEF Refuse

LEMMA ApproveLowRiskKeeps ==
    ASSUME AInv, AtlasAssumption, ApproveLowRisk
    PROVE  AInv'
<1> DEFINE d == [f \in Families |-> IF Eligible(f) THEN Decision(f, "approved", profile[f])
                                                   ELSE dec[f]]
<1>1. Serves /\ Apart /\ cards \in Piles /\ Save(d, cards)
  BY DEF ApproveLowRisk, Current, Decided, Apart, AInv, CaseTypes
<1>2. \A f \in Families : /\ Decision(f, "approved", profile[f]) \in Decisions
                          /\ Decision(f, "approved", profile[f]).at = generated
                          /\ generated <= generated
  BY DEF Decision, Decisions, AInv, CaseTypes, Piles, Acts
<1>3. d \in Drafts
  BY <1>2 DEF AInv, CaseTypes, Drafts
<1>4. \A f \in Meaning : d[f] = dec[f]
  BY NoneIsNone DEF Eligible
<1>7. \A f \in Families : d[f].at <= generated
  BY <1>2 DEF AInv, CaseOK, CardsOK
<1> HIDE DEF d
<1>5. CardsOK(d, cards)
  BY <1>4, <1>7 DEF AInv, CaseOK, CardsOK
<1>6. Saved
  BY <1>1, <1>3, <1>5, SaveStep
<1> QED
  BY <1>6, DecidedKeeps DEF ApproveLowRisk

LEMMA OpenFacts ==
    ASSUME AInv, AtlasAssumption, NEW f \in Families, NEW act \in {"unresolved", "pending"}
    PROVE  /\ [dec EXCEPT ![f] = Open(act)] \in Drafts
           /\ \A g \in Families : LET d == [dec EXCEPT ![f] = Open(act)] IN
                /\ Ready(d[g]) => g # f /\ d[g] = dec[g]
                /\ d[g].at <= generated
<1>1. Open(act) \in Decisions /\ ~Ready(Open(act)) /\ Open(act).at = 0
  BY DEF Open, Undecided, Decisions, Acts, Ready
<1>2. generated \in Nat /\ \A g \in Families : dec[g].at <= generated
  BY DEF AInv, CaseTypes, CaseOK, CardsOK
<1> QED
  BY <1>1, <1>2 DEF AInv, CaseTypes, Drafts

LEMMA FailureStep ==
    ASSUME AInv, AtlasAssumption, Serves, Apart, NEW f \in Meaning, Failure(f)
    PROVE  Saved
<1>1. CASE Ready(dec[f])
  BY <1>1, SameStep DEF Failure
<1>2. CASE ~Ready(dec[f])
  <2> DEFINE d == [dec EXCEPT ![f] = Open("unresolved")]
             k == [cards EXCEPT ![f] = Nothing]
  <2>1. f \in Families /\ Meaning \subseteq Families
    BY NoneIsNone
  <2>2. /\ d \in Drafts /\ \A g \in Families : Ready(d[g]) => g # f /\ d[g] = dec[g]
        /\ \A g \in Families : d[g].at <= generated
    BY <2>1, OpenFacts
  <2>3. k \in Piles /\ k[f] = Nothing /\ \A g \in Families : g # f => k[g] = cards[g]
    BY <2>1 DEF AInv, CaseTypes, Piles
  <2>4. Save(d, k)
    BY <1>2 DEF Failure
  <2> HIDE DEF d, k
  <2>5. CardsOK(d, k)
    BY <2>1, <2>2, <2>3 DEF AInv, CaseOK, CardsOK
  <2> QED
    BY <2>2, <2>3, <2>4, <2>5, SaveStep
<1> QED
  BY <1>1, <1>2

\* A card that comes later than a decision is numbered higher; the recorded one
\* comes before any decision.
LEMMA BindStep ==
    ASSUME AInv, AtlasAssumption, Serves, Apart, NEW f \in Meaning, NEW evidence,
           NEW card \in Nat, Bind(f, evidence, card),
           Ready(dec[f]) => card > dec[f].at
    PROVE  Saved
<1>1. CASE UNCHANGED case
  BY <1>1, SameStep
<1>2. CASE Save(IF Ready(dec[f]) \/ dec[f] = Undecided THEN dec
                ELSE [dec EXCEPT ![f] = Open("pending")],
                [cards EXCEPT ![f] = card])
  <2> DEFINE d == IF Ready(dec[f]) \/ dec[f] = Undecided THEN dec
                  ELSE [dec EXCEPT ![f] = Open("pending")]
             k == [cards EXCEPT ![f] = card]
  <2>1. f \in Families /\ Meaning \subseteq Families /\ card # Nothing
    BY NoneIsNone
  <2>2. /\ d \in Drafts /\ \A g \in Families : Ready(d[g]) => d[g] = dec[g]
        /\ \A g \in Families : d[g].at <= generated
    BY <2>1, OpenFacts DEF AInv, CaseTypes, CaseOK, CardsOK
  <2>3. k \in Piles /\ k[f] = card /\ \A g \in Families : g # f => k[g] = cards[g]
    BY <2>1 DEF AInv, CaseTypes, Piles
  <2>4. Save(d, k)
    BY <1>2
  <2> HIDE DEF d, k
  <2>5. CardsOK(d, k)
    BY <2>1, <2>2, <2>3 DEF AInv, CaseOK, CardsOK
  <2> QED
    BY <2>2, <2>3, <2>4, <2>5, SaveStep
<1> QED
  BY <1>1, <1>2 DEF Bind

LEMMA AskKeeps ==
    ASSUME AInv, AtlasAssumption, NEW f \in Families, NEW c \in Calls, Ask(c, f)
    PROVE  AInv'
<1>1. /\ UNCHANGED <<mode, profile, source, case, generated, session, handoffs, receiver>>
      /\ UNCHANGED <<crashed, failed, touched>> /\ Apart
  BY DEF Ask, Apart, tallies
<1>2. Saved
  BY <1>1, SameStep
<1>3. reserved' = reserved + 1 /\ reserved' \in Nat /\ reserved < CallCap /\ CallCap \in Nat
  BY NoneIsNone DEF Ask, AInv, CaseTypes
<1> DEFINE q == [of |-> f, evidence |-> Evidence(dec, f)]
<1>4. asked' = [asked EXCEPT ![c] = q] /\ q.of \in Meaning
  BY DEF Ask
<1> HIDE DEF q
<1>5. /\ asked' = [x \in Calls |-> asked'[x]]
      /\ \A x \in Calls : asked'[x] # Nothing => asked'[x].of \in Meaning
      /\ Asking' \subseteq Asking \cup {c}
  BY <1>4 DEF AInv, CaseTypes, Asking
<1>6. CaseTypes'
  BY <1>1, <1>2, <1>3, <1>5 DEF AInv, CaseTypes, Saved
<1>7. /\ IsFiniteSet(Asking \cup {c})
      /\ Cardinality(Asking \cup {c}) <= Cardinality(Asking) + 1
      /\ Cardinality(Asking) \in Nat
  <2>1. IsFiniteSet(Asking)
    BY DEF AInv, Counted
  <2>2. Cardinality(Asking) \in Nat
    BY <2>1, FS_CardinalityType
  <2>3. /\ IsFiniteSet(Asking \cup {c})
        /\ Cardinality(Asking \cup {c})
             = IF c \in Asking THEN Cardinality(Asking) ELSE Cardinality(Asking) + 1
    BY <2>1, FS_AddElement
  <2> HIDE DEF Asking
  <2> QED
    BY <2>2, <2>3
<1>8. /\ IsFiniteSet(Asking') /\ Cardinality(Asking') \in Nat
      /\ Cardinality(Asking') <= Cardinality(Asking) + 1
  BY <1>5, <1>7, FS_Subset, FS_CardinalityType
<1>9. Counted'
  <2>1. generated' + Cardinality(Asking') <= reserved' /\ reserved' <= CallCap
    <3>1. /\ generated + Cardinality(Asking) <= reserved /\ reserved <= CallCap
          /\ generated \in Nat /\ reserved \in Nat
      BY DEF AInv, Counted, CaseTypes
    <3> HIDE DEF Asking
    <3> QED
      BY <1>1, <1>3, <1>7, <1>8, <3>1
  <2>2. (Len(handoffs) <= crashed + failed
            + IF session = "promoted" \/ life = "handoff_ready" THEN 1 ELSE 0)'
    BY <1>1 DEF AInv, Counted, case
  <2> QED
    BY <1>8, <2>1, <2>2 DEF Counted
<1> QED
  BY <1>2, <1>6, <1>9 DEF AInv, Saved

LEMMA AskInVainKeeps ==
    ASSUME AInv, AtlasAssumption, NEW f \in Families, AskInVain(f)
    PROVE  AInv'
<1>1. Serves /\ Apart /\ f \in Meaning
  BY DEF AskInVain, Current, Decided, Apart
<1> QED
  BY <1>1, FailureStep, DecidedKeeps DEF AskInVain

LEMMA ReplayKeeps ==
    ASSUME AInv, AtlasAssumption, NEW f \in Families, Replay(f)
    PROVE  AInv'
<1>1. Serves /\ Apart /\ f \in Meaning
  BY DEF Replay, Current, Decided, Apart
<1>2. CASE Failure(f)
  BY <1>1, <1>2, FailureStep, DecidedKeeps DEF Replay
<1>3. CASE Evidence(dec, f) = Pristine(f) /\ Bind(f, Pristine(f), 0)
  <2>1. cards[f] = Nothing
    BY <1>3 DEF Replay, CardIsCurrent
  <2>2. ~Ready(dec[f])
    BY <1>1, <2>1 DEF AInv, CaseOK, CardsOK
  <2>3. Saved
    BY <1>1, <1>3, <2>2, BindStep
  <2> QED
    BY <2>3, DecidedKeeps DEF Replay
<1> QED
  BY <1>2, <1>3 DEF Replay

LEMMA AnswerKeeps ==
    ASSUME AInv, AtlasAssumption, NEW c \in Calls, Answer(c)
    PROVE  AInv'
<1>1. /\ asked' = [asked EXCEPT ![c] = Nothing] /\ asked[c] # Nothing /\ asked[c].of \in Meaning
      /\ UNCHANGED <<mode, profile, source, reserved, session, handoffs>>
      /\ UNCHANGED <<crashed, failed, touched>>
      /\ Apart
  BY DEF Answer, AInv, CaseTypes, Apart, tallies
<1>2. Saved
  <2>1. CASE life \in Terminal /\ UNCHANGED <<case, generated>>
    BY <1>1, <2>1, SameStep
  <2>2. CASE Serves /\ GoesStale
    BY <1>1, <2>2, StaleStep
  <2>3. CASE Current /\ Bind(asked[c].of, asked[c].evidence, generated + 1)
    <3>1. generated + 1 \in Nat
      BY DEF AInv, CaseTypes
    <3>2. Ready(dec[asked[c].of]) => generated + 1 > dec[asked[c].of].at
      BY <1>1, GeneratedGrows, NoneIsNone DEF AInv, CaseOK, CardsOK
    <3> QED
      BY <1>1, <2>3, <3>1, <3>2, BindStep DEF Current
  <2>4. CASE Current /\ Failure(asked[c].of)
    BY <1>1, <2>4, FailureStep DEF Current
  <2> QED
    BY <2>1, <2>2, <2>3, <2>4 DEF Answer
<1>3. /\ asked' = [x \in Calls |-> asked'[x]]
      /\ \A x \in Calls : asked'[x] # Nothing => asked'[x].of \in Meaning
      /\ Asking' = Asking \ {c} /\ c \in Asking
  BY <1>1 DEF AInv, CaseTypes, Asking
<1>4. CaseTypes'
  BY <1>1, <1>2, <1>3, GeneratedGrows DEF AInv, CaseTypes, Saved
<1>5. /\ IsFiniteSet(Asking') /\ Cardinality(Asking') = Cardinality(Asking) - 1
      /\ Cardinality(Asking) \in Nat /\ Cardinality(Asking') \in Nat
  <2>1. IsFiniteSet(Asking)
    BY DEF AInv, Counted
  <2> QED
    BY <1>3, <2>1, FS_RemoveElement, FS_CardinalityType
<1>6. generated' + Cardinality(Asking') <= reserved' /\ reserved' <= CallCap
  <2>1. /\ generated + Cardinality(Asking) <= reserved /\ reserved <= CallCap
        /\ generated \in Nat /\ reserved \in Nat
    BY DEF AInv, Counted, CaseTypes
  <2>2. CallCap \in Nat
    BY DEF AtlasAssumption
  <2>3. reserved' = reserved /\ generated' \in {generated, generated + 1}
    BY <1>1 DEF Apart
  <2> HIDE DEF Asking
  <2> QED
    BY <1>5, <2>1, <2>2, <2>3
<1>7. Counted'
  BY <1>1, <1>2, <1>5, <1>6 DEF AInv, Counted, Saved
<1> QED
  BY <1>2, <1>4, <1>7 DEF AInv, Saved

LEMMA FindsChangeKeeps ==
    ASSUME AInv, AtlasAssumption, FindsChange
    PROVE  AInv'
<1>1. Apart /\ Decided
  BY DEF FindsChange, Apart, Decided
<1> QED
  BY <1>1, StaleStep, DecidedKeeps DEF FindsChange
--------------------------------------------------------------------------------
(* Staging, and the process *)

\* The package is staged: neither the case nor the receiver is touched.
StagedOnly ==
    /\ UNCHANGED <<mode, profile, source, life, why, dec, cards, named, generated, asked,
                   reserved, touched>>
    /\ UNCHANGED <<bag, restoring, taken, place>>

LEMMA StagedStep ==
    ASSUME AInv, StagedOnly, session' \in SessionSteps, handoffs' = handoffs,
           crashed' \in Nat, failed' \in Nat
    PROVE  CaseTypes' /\ CaseOK' /\ Handed' /\ RestoreOK'
<1>1. CaseTypes'
  BY DEF AInv, CaseTypes, StagedOnly
<1>2. CaseOK'
  BY SameProfile DEF AInv, CaseOK, CardsOK, StagedOnly
<1>3. Handed' /\ RestoreOK'
  BY DEF AInv, StagedOnly, Handed, Authorized, Name, Ready, RestoreOK
<1> QED
  BY <1>1, <1>2, <1>3

LEMMA StageKeeps ==
    ASSUME AInv, BeginStage \/ CopyPackage \/ Seal
    PROVE  AInv'
<1>1. /\ StagedOnly /\ handoffs' = handoffs /\ UNCHANGED <<crashed, failed>>
      /\ session' \in Staging \ {"promoted"} /\ session # "promoted"
      /\ life = "ready_to_stage" /\ Ledger
  BY DEF BeginStage, CopyPackage, Seal, Stages, StagedOnly, case, tallies, receiver, Staging, AInv,
         StagingOK, Current, Serves
<1>2. CaseTypes' /\ CaseOK' /\ Handed' /\ RestoreOK'
  BY <1>1, StagedStep DEF AInv, CaseTypes, Staging, SessionSteps
<1>3. StagingOK'
  BY <1>1 DEF StagingOK, StagedOnly, Ledger
<1>4. Counted'
  BY <1>1 DEF AInv, Counted, Asking, StagedOnly
<1> QED
  BY <1>2, <1>3, <1>4 DEF AInv

\* What is promoted was decided, by the cards on record.
LEMMA CaseIsAuthorized ==
    ASSUME AInv, AtlasAssumption, life = "ready_to_stage", Ledger
    PROVE  Authorized([dec |-> dec, cards |-> cards])
<1>1. \A f \in Families : Ready(dec[f])
  BY DEF AInv, CaseOK, Lifecycle, Terminal
<1>2. \A f \in Families : \A g \in Families \ {f} : Name(dec, f) # Name(dec, g)
  BY <1>1 DEF AInv, CaseOK, Valid
<1>3. ASSUME NEW f \in Meaning  PROVE cards[f] = dec[f].on
  <2>1. f \in Families /\ Ready(dec[f]) /\ cards[f] \in Nat \cup {Nothing} /\ dec[f] \in Decisions
    BY <1>1, NoneIsNone DEF AInv, CaseTypes, Piles, Drafts
  <2>2. cards[f] # Nothing /\ cards[f] <= dec[f].at /\ dec[f].at \in Nat
    BY <2>1 DEF Ledger, Decisions
  <2>3. cards[f] = dec[f].on \/ cards[f] > dec[f].at
    BY <2>1 DEF AInv, CaseOK, CardsOK
  <2>4. cards[f] \in Nat
    BY <2>1, <2>2
  <2> QED
    BY <2>2, <2>3, <2>4
<1> QED
  BY <1>1, <1>2, <1>3 DEF Authorized

LEMMA CasePromoteKeeps ==
    ASSUME AInv, AtlasAssumption, PromoteHandoff
    PROVE  AInv'
<1> DEFINE h == [dec |-> dec, cards |-> cards]
<1>1. /\ StagedOnly /\ UNCHANGED <<crashed, failed>> /\ session' = "promoted"
      /\ session = "sealed" /\ life = "ready_to_stage" /\ Ledger
      /\ handoffs' = Append(handoffs, h)
  BY DEF PromoteHandoff, Stages, StagedOnly, case, tallies, receiver, Staging, AInv, StagingOK
<1>2. h \in [dec : Drafts, cards : Piles]
  BY DEF AInv, CaseTypes
<1>3. Authorized(h) /\ h = [dec |-> dec', cards |-> cards']
  BY <1>1, CaseIsAuthorized, NoneIsNone DEF StagedOnly
<1> HIDE DEF h
<1>4. /\ handoffs' \in Seq([dec : Drafts, cards : Piles])
      /\ Len(handoffs') = Len(handoffs) + 1 /\ Len(handoffs) \in Nat
      /\ \A i \in 1..Len(handoffs) : handoffs'[i] = handoffs[i]
      /\ handoffs'[Len(handoffs')] = h
  BY <1>1, <1>2 DEF AInv, CaseTypes
<1>5. CaseTypes'
  BY <1>1, <1>4 DEF AInv, CaseTypes, StagedOnly, SessionSteps
<1>6. CaseOK'
  BY <1>1, SameProfile DEF AInv, CaseOK, CardsOK, StagedOnly
<1>7. RestoreOK'
  BY <1>1 DEF AInv, RestoreOK, StagedOnly
<1>8. Handed'
  <2>1. profile' = profile /\ \A i \in 1..Len(handoffs') : Authorized(handoffs'[i])
    BY <1>1, <1>3, <1>4 DEF AInv, Handed, StagedOnly
  <2> QED
    BY <2>1 DEF Handed, Authorized, Name, Ready
<1>9. StagingOK'
  BY <1>1, <1>3, <1>4 DEF StagingOK, StagedOnly, Ledger, Staging
<1>10. Counted'
  BY <1>1, <1>4 DEF AInv, Counted, Asking, StagedOnly, CaseTypes
<1> QED
  BY <1>5, <1>6, <1>7, <1>8, <1>9, <1>10 DEF AInv

LEMMA StageStops ==
    ASSUME AInv, session \in Staging, session' = "idle", GoesStale, session # "promoted",
           UNCHANGED <<mode, profile, source, generated, asked, reserved, handoffs, crashed,
                       touched>>,
           UNCHANGED <<bag, restoring, taken, place>>,
           failed' \in {failed, failed + 1}, AtlasAssumption
    PROVE  AInv'
<1>1. /\ life' = "stale" /\ why' \in {"blocker", "differences"} /\ why' # Nothing
      /\ dec' = dec /\ cards' = cards /\ named' = named /\ life = "ready_to_stage"
  BY NoneIsNone DEF GoesStale, AInv, StagingOK
<1>2. failed' \in Nat /\ failed' >= failed
  BY DEF AInv, CaseTypes
<1>3. CaseTypes'
  BY <1>1, <1>2 DEF AInv, CaseTypes, CaseLives, SessionSteps
<1>4. CaseOK' /\ StagingOK'
  BY <1>1, SameProfile DEF AInv, CaseOK, CardsOK, StagingOK, Staging, Terminal
<1>5. Handed' /\ RestoreOK'
  BY DEF AInv, Handed, Authorized, Name, Ready, RestoreOK
<1>6. Counted'
  BY <1>1, <1>2 DEF AInv, Counted, Asking, CaseTypes
<1> QED
  BY <1>3, <1>4, <1>5, <1>6 DEF AInv

LEMMA StageFindsChangeKeeps ==
    ASSUME AInv, AtlasAssumption, StageFindsChange
    PROVE  AInv'
BY StageStops DEF StageFindsChange, Stages, tallies, receiver, Staging

LEMMA StageFailsKeeps ==
    ASSUME AInv, AtlasAssumption, StageFails
    PROVE  AInv'
<1>1. CASE GoesStale /\ session # "promoted"
  BY <1>1, StageStops DEF StageFails, Stages, receiver, Staging
<1>2. CASE UNCHANGED case
  <2>1. /\ StagedOnly /\ handoffs' = handoffs /\ crashed' = crashed
        /\ failed' = failed + 1 /\ session' = "idle" /\ session \in Staging
        /\ life = "ready_to_stage"
    BY <1>2 DEF StageFails, Stages, StagedOnly, case, receiver, Staging, AInv, StagingOK
  <2>2. failed' \in Nat /\ crashed' \in Nat
    BY <2>1 DEF AInv, CaseTypes
  <2>3. CaseTypes' /\ CaseOK' /\ Handed' /\ RestoreOK'
    BY <2>1, <2>2, StagedStep DEF SessionSteps
  <2>4. StagingOK'
    BY <2>1 DEF StagingOK, StagedOnly, Staging
  <2>5. Counted'
    BY <2>1 DEF AInv, Counted, Asking, StagedOnly, CaseTypes
  <2> QED
    BY <2>3, <2>4, <2>5 DEF AInv
<1> QED
  BY <1>1, <1>2 DEF StageFails

LEMMA CaseFinalizeKeeps ==
    ASSUME AInv, AtlasAssumption, FinalizeCase
    PROVE  AInv'
<1>1. /\ UNCHANGED <<mode, profile, source, why, dec, cards, generated, asked, reserved, handoffs>>
      /\ UNCHANGED <<crashed, failed, touched, bag, restoring, taken, place>>
      /\ session = "promoted" /\ session' = "idle" /\ life' = "handoff_ready"
      /\ named' = Len(handoffs) /\ life = "ready_to_stage"
  BY DEF FinalizeCase, Stages, tallies, receiver, AInv, StagingOK, Staging
<1>2. CaseTypes'
  BY <1>1 DEF AInv, CaseTypes, CaseLives, SessionSteps
<1>3. CaseOK' /\ StagingOK'
  BY <1>1, SameProfile DEF AInv, CaseOK, CardsOK, StagingOK, Staging, Terminal
<1>4. Handed' /\ RestoreOK' /\ Counted'
  BY <1>1 DEF AInv, Handed, Authorized, Name, Ready, RestoreOK, Counted, Asking
<1> QED
  BY <1>2, <1>3, <1>4 DEF AInv

LEMMA CaseCrashKeeps ==
    ASSUME AInv, AtlasAssumption, SessionDies
    PROVE  AInv'
<1>1. /\ UNCHANGED <<mode, profile, source, life, why, dec, cards, named, generated, reserved,
                     handoffs, failed, touched>>
      /\ UNCHANGED <<bag, restoring, taken, place>>
      /\ session' = "down" /\ crashed' = crashed + 1 /\ asked' = [c \in Calls |-> Nothing]
  BY DEF SessionDies, case, receiver
<1>2. CaseTypes'
  BY <1>1 DEF AInv, CaseTypes, SessionSteps
<1>3. CaseOK' /\ StagingOK'
  BY <1>1, SameProfile DEF AInv, CaseOK, CardsOK, StagingOK, Staging
<1>4. Handed' /\ RestoreOK'
  BY <1>1 DEF AInv, Handed, Authorized, Name, Ready, RestoreOK
<1>5. Asking' = {}
  BY <1>1 DEF Asking
<1>6. Counted'
  <2>1. IsFiniteSet(Asking') /\ Cardinality(Asking') = 0 /\ Cardinality(Asking) \in Nat
    BY <1>5, FS_EmptySet, FS_CardinalityType DEF AInv, Counted
  <2>2. /\ generated + Cardinality(Asking) <= reserved /\ reserved <= CallCap
        /\ generated \in Nat /\ reserved \in Nat
    BY DEF AInv, Counted, CaseTypes
  <2>3. generated' + Cardinality(Asking') <= reserved' /\ reserved' <= CallCap
    <3> HIDE DEF Asking
    <3> QED
      BY <1>1, <2>1, <2>2
  <2> QED
    BY <1>1, <2>1, <2>3 DEF AInv, Counted, CaseTypes
<1> QED
  BY <1>2, <1>3, <1>4, <1>6 DEF AInv

LEMMA StartKeeps ==
    ASSUME AInv, AtlasAssumption, StartSession
    PROVE  AInv'
<1>1. /\ UNCHANGED <<mode, profile, source, generated, asked, reserved, handoffs>>
      /\ UNCHANGED <<crashed, failed, touched, bag, restoring, taken, place>>
      /\ session' = "idle" /\ session = "down"
  BY DEF StartSession, tallies, receiver
<1>2. Handed' /\ RestoreOK'
  BY <1>1 DEF AInv, Handed, Authorized, Name, Ready, RestoreOK
<1>3. CASE life \notin Terminal /\ GoesStale
  <2>1. /\ life' = "stale" /\ why' \in {"blocker", "differences"} /\ why' # Nothing
        /\ dec' = dec /\ cards' = cards /\ named' = named
    BY <1>3, NoneIsNone DEF GoesStale
  <2>2. CaseTypes'
    BY <1>1, <2>1 DEF AInv, CaseTypes, CaseLives, SessionSteps
  <2>3. CaseOK' /\ StagingOK'
    BY <1>1, <1>3, <2>1, SameProfile DEF AInv, CaseOK, CardsOK, StagingOK, Staging, Terminal
  <2>4. Counted'
    BY <1>1, <1>3, <2>1 DEF AInv, Counted, Asking, Terminal
  <2> QED
    BY <1>2, <2>2, <2>3, <2>4 DEF AInv
<1>4. CASE UNCHANGED case
  <2>1. UNCHANGED <<life, why, dec, cards, named>>
    BY <1>4 DEF case
  <2>2. CaseTypes'
    BY <1>1, <2>1 DEF AInv, CaseTypes, SessionSteps
  <2>3. CaseOK' /\ StagingOK'
    BY <1>1, <2>1, SameProfile DEF AInv, CaseOK, CardsOK, StagingOK, Staging
  <2>4. Counted'
    BY <1>1, <2>1 DEF AInv, Counted, Asking
  <2> QED
    BY <1>2, <2>2, <2>3, <2>4 DEF AInv
<1> QED
  BY <1>3, <1>4 DEF StartSession

LEMMA ChangeKeeps ==
    ASSUME AInv, NEW s \in {"same", "different", "unreadable"}, Change(s)
    PROVE  AInv'
<1>1. /\ UNCHANGED <<mode, profile, life, why, dec, cards, named, generated, asked, reserved,
                     session, handoffs, crashed, failed>>
      /\ UNCHANGED <<bag, restoring, taken, place>>
      /\ source' = s /\ touched' = touched + 1
  BY DEF Change, case, receiver
<1>2. CaseTypes'
  BY <1>1 DEF AInv, CaseTypes
<1>3. CaseOK' /\ StagingOK'
  BY <1>1, SameProfile DEF AInv, CaseOK, CardsOK, StagingOK, Ledger
<1>4. Handed' /\ RestoreOK' /\ Counted'
  BY <1>1 DEF AInv, Handed, Authorized, Name, Ready, RestoreOK, Counted, Asking
<1> QED
  BY <1>2, <1>3, <1>4 DEF AInv

LEMMA ReceiverKeeps ==
    ASSUME AInv, Receives, RestoreOK', failed' \in Nat, failed' >= failed,
           touched' \in Nat
    PROVE  AInv'
<1>1. UNCHANGED <<mode, profile, source, life, why, dec, cards, named, generated, asked,
                  reserved, session, handoffs, crashed>>
  BY DEF Receives, case
<1>2. CaseTypes'
  BY <1>1 DEF AInv, CaseTypes
<1>3. CaseOK' /\ StagingOK'
  BY <1>1, SameProfile DEF AInv, CaseOK, CardsOK, StagingOK, Ledger
<1>4. Handed' /\ Counted'
  BY <1>1 DEF AInv, Handed, Authorized, Name, Ready, Counted, Asking, CaseTypes
<1> QED
  BY <1>2, <1>3, <1>4 DEF AInv

ReceiverStep ==
    \/ Receive \/ BeginRestore \/ CopyBack \/ CheckBag \/ PromoteBack \/ DropRestore
    \/ EditBag \/ Occupy

LEMMA ReceiverStepKeeps ==
    ASSUME AInv, ReceiverStep
    PROVE  AInv'
<1>1. /\ Receives /\ failed' \in Nat /\ failed' >= failed /\ touched' \in Nat
  BY DEF ReceiverStep, Receive, BeginRestore, CopyBack, CheckBag, PromoteBack, DropRestore,
         EditBag, Occupy, AInv, CaseTypes
<1>2. RestoreOK'
  BY DEF ReceiverStep, Receive, BeginRestore, CopyBack, CheckBag, PromoteBack, DropRestore,
         EditBag, Occupy, Verifies, AInv, RestoreOK
<1> QED
  BY <1>1, <1>2, ReceiverKeeps
--------------------------------------------------------------------------------
(* The theorems *)

LEMMA CaseInitOK == AtlasAssumption /\ AtlasInit => AInv
<1> SUFFICES ASSUME AtlasAssumption, AtlasInit  PROVE AInv
  OBVIOUS
<1>1. Undecided \in Decisions /\ Undecided.act = "none" /\ Undecided.at = 0
  BY DEF Undecided, Decisions, Acts
<1>2. \A f \in Families : dec[f] = Undecided /\ cards[f] = Nothing
  BY DEF AtlasInit
<1>3. dec \in Drafts /\ cards \in Piles
  BY <1>1 DEF AtlasInit, Drafts, Piles
<1>4. handoffs \in Seq([dec : Drafts, cards : Piles]) /\ Len(handoffs) = 0
  BY DEF AtlasInit
<1>5. CaseTypes
  BY <1>3, <1>4 DEF AtlasInit, CaseTypes, CaseLives, SessionSteps
<1>6. \A f \in Families : dec[f].act = "none" /\ ~Ready(dec[f]) /\ dec[f].at = 0
  BY <1>1, <1>2 DEF Ready
<1>7. Valid(dec) /\ CardsOK(dec, cards)
  BY <1>2, <1>6, NoneIsNone DEF Valid, CardsOK, AtlasInit
<1>8. Lifecycle(dec) = "review"
  BY <1>6 DEF Lifecycle, AtlasAssumption
<1>9. CaseOK
  BY <1>7, <1>8 DEF AtlasInit, CaseOK
<1>10. StagingOK /\ Handed /\ RestoreOK
  BY <1>4 DEF AtlasInit, StagingOK, Staging, Handed, RestoreOK
<1>11. Asking = {}
  BY DEF AtlasInit, Asking
<1>12. Counted
  BY <1>4, <1>11, FS_EmptySet, NoneIsNone DEF AtlasInit, Counted
<1> QED
  BY <1>5, <1>9, <1>10, <1>12 DEF AInv

LEMMA CaseStutterKeeps == AInv /\ UNCHANGED atlas => AInv'
<1> SUFFICES ASSUME AInv, UNCHANGED atlas  PROVE AInv'
  OBVIOUS
<1>1. /\ UNCHANGED <<mode, profile, source, life, why, dec, cards, named, generated, asked,
                     reserved, session, handoffs, crashed, failed, touched>>
      /\ Receives /\ RestoreOK'
  BY DEF atlas, case, tallies, receiver, Receives, AInv, RestoreOK
<1> QED
  BY <1>1, ReceiverKeeps DEF AInv, CaseTypes

LEMMA CaseNextOK == AtlasAssumption /\ AInv /\ [AtlasNext]_atlas => AInv'
<1> SUFFICES ASSUME AtlasAssumption, AInv, AtlasNext  PROVE AInv'
  BY CaseStutterKeeps
<1>1. ASSUME NEW f \in Families,
             \/ Approve(f) \/ Refuse(f) \/ AskInVain(f) \/ Replay(f)
             \/ \E to \in Descriptors : Edit(f, to)
             \/ \E c \in Calls : Ask(c, f)
      PROVE  AInv'
  BY <1>1, ApproveKeeps, RefuseKeeps, AskInVainKeeps, ReplayKeeps, EditKeeps, AskKeeps
<1>2. ASSUME NEW c \in Calls, Answer(c)  PROVE AInv'
  BY <1>2, AnswerKeeps
<1>3. ASSUME NEW s \in {"same", "different", "unreadable"}, Change(s)  PROVE AInv'
  BY <1>3, ChangeKeeps
<1> QED
  BY <1>1, <1>2, <1>3, FindsChangeKeeps, ApproveLowRiskKeeps, StageKeeps, CasePromoteKeeps,
     StageFindsChangeKeeps, StageFailsKeeps, CaseFinalizeKeeps, CaseCrashKeeps, StartKeeps,
     ReceiverStepKeeps DEF AtlasNext, ReceiverStep

LEMMA CaseInvariant == ASSUME AtlasAssumption PROVE AtlasSpec => []AInv
<1>1. AtlasInit => AInv
  BY CaseInitOK
<1>2. AInv /\ [AtlasNext]_atlas => AInv'
  BY CaseNextOK
<1> QED
  BY <1>1, <1>2, PTL DEF AtlasSpec

LEMMA CaseInvProperty == AtlasAssumption /\ AInv => HandoffIsAuthorized
<1> SUFFICES ASSUME AtlasAssumption, AInv  PROVE HandoffIsAuthorized
  OBVIOUS
<1>1. Cardinality(Asking) \in Nat
  BY FS_CardinalityType DEF AInv, Counted
<1>2. generated <= reserved /\ reserved <= CallCap
  BY <1>1 DEF AInv, Counted, CaseTypes
<1>3. AtlasTypes
  BY <1>2 DEF AtlasTypes, AInv, CaseTypes, CaseOK, CardsOK, RestoreOK
<1>4. Len(handoffs) <= 1 + crashed + failed
  BY DEF AInv, Counted, CaseTypes
<1> QED
  BY <1>3, <1>4 DEF HandoffIsAuthorized, AInv, Handed, Authorized, StagingOK

\* Whatever is handed over is complete, distinct and human, and names the cards it
\* was decided by; a finalized case names the last handoff: for any families,
\* names, questions and bounds.
THEOREM HandoffsAreAuthorized ==
    ASSUME AtlasAssumption PROVE AtlasSpec => []HandoffIsAuthorized
<1>1. AInv => HandoffIsAuthorized
  BY CaseInvProperty
<1> QED
  BY <1>1, CaseInvariant, PTL
--------------------------------------------------------------------------------
(* What a step may not do *)

Stand ==
    /\ \A f \in Families : Ready(dec[f]) /\ dec'[f] # dec[f] =>
          Approve(f) \/ Refuse(f) \/ \E to \in Descriptors : Edit(f, to)
    /\ source # "same" => UNCHANGED <<dec, cards>>
    /\ life \in Terminal => UNCHANGED case

LEMMA SaveStands ==
    ASSUME AInv, Current, NEW d, NEW k, Save(d, k),
           \A f \in Families : Ready(dec[f]) => d[f] = dec[f]
    PROVE  Stand
BY DEF Stand, Save, Current, Serves

LEMMA ActStands ==
    ASSUME AInv, NEW f \in Families,
           Approve(f) \/ Refuse(f) \/ \E to \in Descriptors : Edit(f, to)
    PROVE  Stand
<1>1. Current
  BY DEF Approve, Refuse, Edit
<1>2. \A g \in Families \ {f} : dec'[g] = dec[g]
  BY DEF Approve, Refuse, Edit, Save, AInv, CaseTypes, Drafts
<1> QED
  BY <1>1, <1>2 DEF Stand, Current, Serves

LEMMA FailureStands ==
    ASSUME AInv, AtlasAssumption, Current, NEW f \in Meaning, Failure(f)
    PROVE  Stand
<1>1. CASE UNCHANGED case
  BY <1>1 DEF Stand, case
<1>2. CASE ~Ready(dec[f]) /\ Save([dec EXCEPT ![f] = Open("unresolved")],
                                  [cards EXCEPT ![f] = Nothing])
  BY <1>2, SaveStands DEF AInv, CaseTypes, Drafts
<1> QED
  BY <1>1, <1>2 DEF Failure

LEMMA BindStands ==
    ASSUME AInv, AtlasAssumption, Current, NEW f \in Meaning, NEW evidence, NEW card,
           Bind(f, evidence, card)
    PROVE  Stand
<1>1. CASE UNCHANGED case
  BY <1>1 DEF Stand, case
<1>2. CASE Save(IF Ready(dec[f]) \/ dec[f] = Undecided THEN dec
                ELSE [dec EXCEPT ![f] = Open("pending")], [cards EXCEPT ![f] = card])
  BY <1>2, SaveStands DEF AInv, CaseTypes, Drafts
<1> QED
  BY <1>1, <1>2 DEF Bind

\* A case that is served is not final yet.
LEMMA StaleStands ==
    ASSUME GoesStale, life \notin Terminal
    PROVE  Stand
BY DEF Stand, GoesStale

LEMMA NextStands == AtlasAssumption /\ AInv /\ [AtlasNext]_atlas => [Stand]_atlas
<1> SUFFICES ASSUME AtlasAssumption, AInv, AtlasNext  PROVE Stand
  OBVIOUS
<1>1. CASE \E f \in Families : \/ Approve(f) \/ Refuse(f)
                               \/ \E to \in Descriptors : Edit(f, to)
  BY <1>1, ActStands
<1>2. CASE ApproveLowRisk
  <2>1. \A f \in Families : Ready(dec[f]) => ~Eligible(f)
    BY DEF Eligible, Undecided, Ready
  <2> QED
    BY <1>2, <2>1, SaveStands DEF ApproveLowRisk
<1>3. ASSUME NEW f \in Families, AskInVain(f) \/ Replay(f)  PROVE Stand
  BY <1>3, FailureStands, BindStands DEF AskInVain, Replay
<1>4. ASSUME NEW c \in Calls, Answer(c)  PROVE Stand
  <2>1. asked[c].of \in Meaning
    BY <1>4 DEF Answer, AInv, CaseTypes
  <2>2. CASE UNCHANGED case
    BY <2>2 DEF Stand, case
  <2>3. CASE Serves /\ GoesStale
    BY <2>3, StaleStands DEF Serves
  <2>4. CASE Current /\ Bind(asked[c].of, asked[c].evidence, generated + 1)
    BY <2>1, <2>4, BindStands
  <2>5. CASE Current /\ Failure(asked[c].of)
    BY <2>1, <2>5, FailureStands
  <2> QED
    BY <1>4, <2>2, <2>3, <2>4, <2>5 DEF Answer
<1>5. CASE FindsChange \/ StageFindsChange \/ StageFails \/ StartSession
  <2>1. UNCHANGED case \/ (GoesStale /\ life \notin Terminal)
    BY <1>5
    DEF FindsChange, StageFindsChange, StageFails, StartSession, Serves, AInv, StagingOK, Staging,
        Terminal
  <2> QED
    BY <2>1, StaleStands DEF Stand, case
<1>6. CASE FinalizeCase
  BY <1>6 DEF FinalizeCase, Stand, AInv, StagingOK, Staging, Terminal
<1>7. CASE BeginStage \/ CopyPackage \/ Seal \/ PromoteHandoff \/ SessionDies
  BY <1>7 DEF BeginStage, CopyPackage, Seal, PromoteHandoff, SessionDies, Stand, case
<1>8. ASSUME NEW f \in Families, NEW c \in Calls, Ask(c, f)  PROVE Stand
  BY <1>8 DEF Ask, Stand, case
<1>9. ASSUME NEW s, Change(s)  PROVE Stand
  BY <1>9 DEF Change, Stand, case
<1>10. CASE ReceiverStep
  BY <1>10 DEF ReceiverStep, Receive, BeginRestore, CopyBack, CheckBag, PromoteBack,
               DropRestore, EditBag, Occupy, Receives, Stand, case
<1> QED
  BY <1>1, <1>2, <1>3, <1>4, <1>5, <1>6, <1>7, <1>8, <1>9, <1>10 DEF AtlasNext, ReceiverStep

\* Only a human's act changes a decision to export, nothing is kept about a source
\* that has changed, and a final case stays, however late an answer comes.
THEOREM DecisionsLast == ASSUME AtlasAssumption PROVE AtlasSpec => DecisionsStand
<1>1. AInv /\ [AtlasNext]_atlas => [Stand]_atlas
  BY NextStands
<1> QED
  BY <1>1, CaseInvariant, PTL DEF AtlasSpec, DecisionsStand, Stand

Restores == place' # place => place = "absent" /\ place' \in {"original", "stranger"}

LEMMA NextRestores == AInv /\ [AtlasNext]_atlas => [Restores]_atlas
<1> SUFFICES ASSUME AInv, AtlasNext, place' # place  PROVE Restores
  BY DEF Restores
<1>1. ReceiverStep
  BY DEF AtlasNext, ReceiverStep, FindsChange, ApproveLowRisk, Approve, Refuse, Edit, Decided, Ask,
         AskInVain, Replay, Answer, BeginStage, CopyPackage, Seal, PromoteHandoff,
         StageFindsChange, StageFails,
         FinalizeCase, Stages, SessionDies, StartSession, Change, receiver
<1> QED
  BY <1>1 DEF ReceiverStep, Receive, BeginRestore, CopyBack, CheckBag, PromoteBack, DropRestore,
              EditBag, Occupy, AInv, RestoreOK, Restores

\* A restore puts the original package where nothing was, whatever becomes of the
\* bag and of the destination meanwhile.
THEOREM RestoresAreOriginal == ASSUME AtlasAssumption PROVE AtlasSpec => RestoredIsOriginal
<1>1. AInv /\ [AtlasNext]_atlas => [Restores]_atlas
  BY NextRestores
<1> QED
  BY <1>1, CaseInvariant, PTL DEF AtlasSpec, RestoredIsOriginal, Restores
================================================================================
