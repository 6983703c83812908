------------------------------- MODULE Pairing -------------------------------
(***************************************************************************)
(* How a device is paired with ChatGPT at the public gateway: the worker's *)
(* handlers (gateway/src/gateway.ts) call three stores one after another,  *)
(* the PairingDirectory of one-time codes (pairing-directory.ts), the      *)
(* DeviceSession of each registration (device-session.ts) and the OAuth    *)
(* provider's grants.  Each call is one transaction of its store; between  *)
(* two of them anything may happen, and a handler may die.                 *)
(*                                                                         *)
(* One device, and one source address for the browsers.  Codes are random  *)
(* and named by the session they were issued for.  Signatures, scopes and  *)
(* the OAuth exchange of an honest client are valid.                       *)
(***************************************************************************)
EXTENDS Integers, Sequences, FiniteSets, FiniteSetsExt

CONSTANTS
    Devices,      \* handlers that serve requests of the device
    Browsers,     \* handlers that serve the authorization form
    Calls,        \* handlers that serve MCP calls
    MaxSessions,  \* bound on registrations
    MaxPosts,     \* bound on submitted forms
    MaxAttempts,  \* submissions per source and window
    MaxFailures,  \* failed submissions per code
    Window, CodeLife, SessionLife,  \* lifetimes of attempts, codes, sessions
    MaxDelay,     \* from a handler's clock to the directory's transaction
    MaxTime,      \* bound on the clock
    None

Session == 1 .. MaxSessions
Time == 1 .. MaxTime

SessionRecord == [approved : BOOLEAN, authorized : 0 .. MaxTime, expires : Nat,
                  revoked : BOOLEAN]
CodeRecord == [approved : BOOLEAN, failed : 0 .. MaxFailures, expires : Nat]
RateRecord == [attempts : SUBSET ((Nat \ {0}) \X Time), expires : Nat]

ASSUME PairingAssumption ==
    /\ {MaxSessions, MaxPosts, MaxAttempts, MaxFailures, Window, CodeLife,
        SessionLife, MaxTime} \subseteq Nat \ {0}
    /\ MaxDelay \in Nat
    /\ None \notin SessionRecord \cup CodeRecord \cup RateRecord

VARIABLES
    now,       \* the clock
    session,   \* the record of each DeviceSession
    pair,      \* the directory's code records
    missing,   \* failures on codes it does not know
    rate,      \* attempts of the source address
    alarm,     \* when the directory cleans up, or 0
    grants,    \* the provider's live grants
    device, browser, call,  \* the handlers
    local,     \* the session in the companion's state file, or 0
    issued,    \* history: grants ever made for each session
    admitted   \* history: times of the submissions the rate limit let through

directory == <<pair, missing, rate, alarm>>
history == <<issued, admitted>>
vars == <<now, session, directory, grants, device, browser, call, local, history>>
-----------------------------------------------------------------------------
Grant == [session : Session, at : Time]
Idle == [step |-> "idle", session |-> 0, at |-> 0, listed |-> {}]
Device == [step : {"idle", "replacing", "naming", "publishing", "approving",
                   "withdrawing", "listing", "revoking"},
           session : 0 .. MaxSessions, at : 0 .. MaxTime, listed : SUBSET Grant]
Browser == [step : {"idle", "submitting", "consumed", "checked", "granted"},
            session : 0 .. MaxSessions, at : 0 .. MaxTime, listed : {{}}]
Call == [step : {"idle", "checked", "observed", "relayed"},
         session : 0 .. MaxSessions, at : 0 .. MaxTime, listed : {{}}]

Known(s) == session[s] # None
Active(s) == Known(s) /\ ~session[s].revoked /\ session[s].expires > now

Step(h, step) == [h EXCEPT !.step = step]
Schedule(at) == alarm' = IF alarm = 0 \/ at < alarm THEN at ELSE alarm
-----------------------------------------------------------------------------
(* Registration *)

\* handleRegistration revokes the device's grants before it issues a code; the
\* provider lists them page by page and revokes them one by one.
StartRegistration(d) ==
    /\ device[d].step = "idle"
    /\ device' = [device EXCEPT ![d] = [Idle EXCEPT !.step = "replacing",
                                                    !.listed = grants]]
    /\ UNCHANGED <<now, session, directory, grants, browser, call, local, history>>

RevokeListed(d) ==
    /\ device[d].step \in {"replacing", "revoking"}
    /\ \E g \in device[d].listed :
         /\ grants' = grants \ {g}
         /\ device' = [device EXCEPT ![d].listed = @ \ {g}]
    /\ UNCHANGED <<now, session, directory, browser, call, local, history>>

EndListed(d) ==
    /\ device[d].step \in {"replacing", "revoking"} /\ device[d].listed = {}
    /\ device' = [device EXCEPT ![d] =
         IF @.step = "replacing" THEN [Idle EXCEPT !.step = "naming"] ELSE Idle]
    /\ local' \in {local} \cup (IF local = device[d].session THEN {0} ELSE {})
    /\ UNCHANGED <<now, session, directory, grants, browser, call, history>>

RegisterSession(d) ==
    /\ device[d].step = "naming"
    /\ \E s \in Session :
         /\ ~Known(s) /\ \A r \in 1 .. s - 1 : Known(r)
         /\ session' = [session EXCEPT ![s] =
              [approved |-> FALSE, authorized |-> 0, expires |-> now + CodeLife,
               revoked |-> FALSE]]
         /\ device' = [device EXCEPT ![d].step = "publishing", ![d].session = s,
                                     ![d].at = now]
    /\ UNCHANGED <<now, directory, grants, browser, call, local, history>>

\* The code is told to the device, which keeps the new session and no other,
\* unless the answer is lost; a code that is too late is tried again.
PublishCode(d) ==
    /\ device[d].step = "publishing"
    /\ LET s == device[d].session
           expires == device[d].at + CodeLife
       IN IF expires <= now
            THEN /\ device' = [device EXCEPT ![d] = [Idle EXCEPT !.step = "naming"]]
                 /\ UNCHANGED <<pair, alarm, local>>
            ELSE /\ pair' = [pair EXCEPT ![s] = [approved |-> FALSE, failed |-> 0,
                                                 expires |-> expires]]
                 /\ Schedule(expires)
                 /\ local' \in {local, s}
                 /\ device' = [device EXCEPT ![d] = Idle]
    /\ UNCHANGED <<now, session, missing, rate, grants, browser, call, history>>
-----------------------------------------------------------------------------
(* Local approval and revocation *)

ApproveSession(d) ==
    /\ device[d].step = "idle" /\ local # 0 /\ Active(local)
    /\ session' = [session EXCEPT ![local].approved = TRUE]
    /\ device' = [device EXCEPT ![d] = [Idle EXCEPT !.step = "approving",
                                          !.session = local, !.at = now]]
    /\ UNCHANGED <<now, directory, grants, browser, call, local, history>>

ApproveCode(d) ==
    /\ device[d].step = "approving"
    /\ LET s == device[d].session
       IN pair' = IF pair[s] # None /\ pair[s].expires > device[d].at
                    THEN [pair EXCEPT ![s].approved = TRUE] ELSE pair
    /\ device' = [device EXCEPT ![d] = Idle]
    /\ UNCHANGED <<now, session, missing, rate, alarm, grants, browser, call, local,
                   history>>

RevokeSession(d) ==
    /\ device[d].step = "idle" /\ local # 0 /\ Active(local)
    /\ session' = [session EXCEPT ![local].revoked = TRUE]
    /\ device' = [device EXCEPT ![d] = [Idle EXCEPT !.step = "withdrawing",
                                          !.session = local]]
    /\ UNCHANGED <<now, directory, grants, browser, call, local, history>>

WithdrawCode(d) ==
    /\ device[d].step = "withdrawing"
    /\ pair' = [pair EXCEPT ![device[d].session] = None]
    /\ device' = [device EXCEPT ![d] = Step(@, "listing")]
    /\ UNCHANGED <<now, session, missing, rate, alarm, grants, browser, call, local,
                   history>>

ListGrants(d) ==
    /\ device[d].step = "listing"
    /\ device' = [device EXCEPT ![d].step = "revoking", ![d].listed = grants]
    /\ UNCHANGED <<now, session, directory, grants, browser, call, local, history>>
-----------------------------------------------------------------------------
(* Authorization *)

\* A form is posted with some code; the handler reads its clock.
Submit(b) ==
    /\ browser[b].step = "idle" /\ Len(admitted) < MaxPosts
    /\ \E s \in Session :
         browser' = [browser EXCEPT ![b] = [Idle EXCEPT !.step = "submitting",
                                              !.session = s, !.at = now]]
    /\ UNCHANGED <<now, session, directory, grants, device, call, local, history>>

\* The directory counts the attempt; attempts are times, numbered to tell equal ones apart ...
Recent(at) == IF rate = None THEN {} ELSE {a \in rate.attempts : at - a[2] < Window}
Limited(at) == Cardinality(Recent(at)) >= MaxAttempts
Attempts(at) == Recent(at) \cup {<<Len(admitted) + 1, at>>}
\* Mutant: the record's expiry stays that of its first attempt.
CountedOnce(at) ==
    [attempts |-> Attempts(at), expires |-> IF rate = None THEN at + Window ELSE rate.expires]
Counted(at) == [attempts |-> Attempts(at), expires |-> at + Window]

\* ... and then looks for the code.
Failures(s, at) ==
    IF missing[s] = None \/ missing[s].expires <= at
      THEN [count |-> 0, expires |-> at + Window] ELSE missing[s]
Locked(s) == pair[s].failed >= MaxFailures
Usable(s, at) == pair[s].expires > at /\ pair[s].approved

Done(b) == browser' = [browser EXCEPT ![b] = Idle]

CodeUnknown(b, s, at) ==
    /\ pair[s] = None
    /\ LET failures == Failures(s, at)
       IN missing' = IF failures.count >= MaxFailures THEN missing
                     ELSE [missing EXCEPT ![s] = [failures EXCEPT !.count = @ + 1]]
    /\ Done(b) /\ UNCHANGED pair

CodeRefused(b, s, at) ==
    /\ pair[s] # None /\ (Locked(s) \/ ~Usable(s, at))
    /\ pair' = IF Locked(s) THEN pair ELSE [pair EXCEPT ![s].failed = @ + 1]
    /\ Done(b) /\ UNCHANGED missing

\* Mutant: the code stays in the directory.
CodeKept(b, s, at) ==
    /\ pair[s] # None /\ ~Locked(s) /\ Usable(s, at)
    /\ browser' = [browser EXCEPT ![b] = Step(@, "consumed")]
    /\ UNCHANGED <<pair, missing>>

CodeConsumed(b, s, at) ==
    /\ pair[s] # None /\ ~Locked(s) /\ Usable(s, at)
    /\ pair' = [pair EXCEPT ![s] = None]
    /\ browser' = [browser EXCEPT ![b] = Step(@, "consumed")]
    /\ UNCHANGED missing

AuthorizeCode(b) ==
    /\ browser[b].step = "submitting"
    /\ LET s == browser[b].session
           at == browser[b].at
       IN /\ IF Limited(at)
               THEN Done(b) /\ UNCHANGED <<pair, missing, rate, admitted>>
               ELSE /\ rate' = Counted(at)
                    /\ admitted' = Append(admitted, at)
                    /\ \/ CodeUnknown(b, s, at)
                       \/ CodeRefused(b, s, at)
                       \/ CodeConsumed(b, s, at)
          /\ Schedule(at + Window)
    /\ UNCHANGED <<now, session, grants, device, call, local, issued>>

\* handleAuthorize reads the session's status ...
CheckSession(b) ==
    /\ browser[b].step = "consumed"
    /\ LET s == browser[b].session
       IN browser' = [browser EXCEPT ![b] =
            IF Active(s) /\ session[s].approved /\ session[s].authorized = 0
              THEN [@ EXCEPT !.step = "checked", !.at = now] ELSE Idle]
    /\ UNCHANGED <<now, session, directory, grants, device, call, local, history>>

\* ... completes the authorization at the provider ...
CompleteAuthorization(b) ==
    /\ browser[b].step = "checked"
    /\ LET s == browser[b].session
       IN /\ grants' = grants \cup {[session |-> s, at |-> browser[b].at]}
          /\ issued' = [issued EXCEPT ![s] = @ + 1]
    /\ browser' = [browser EXCEPT ![b] = Step(@, "granted")]
    /\ UNCHANGED <<now, session, directory, device, call, local, admitted>>

\* ... and only then tells the session, which may have ended meanwhile.
MarkAuthorized(b) ==
    /\ browser[b].step = "granted"
    /\ LET s == browser[b].session
           at == browser[b].at
           r == session[s]
       IN session' =
            IF r.authorized = 0 /\ ~r.revoked /\ r.expires > at /\ r.approved
              THEN [session EXCEPT ![s].authorized = at, ![s].expires = at + SessionLife]
              ELSE session
    /\ Done(b)
    /\ UNCHANGED <<now, directory, grants, device, call, local, history>>
-----------------------------------------------------------------------------
(* MCP calls *)

Authorized(c) ==
    LET s == call[c].session IN Active(s) /\ session[s].authorized = call[c].at

\* The provider accepts the token of a live grant, the worker reads the status.
BeginCall(c) ==
    /\ call[c].step = "idle"
    /\ \E g \in grants :
         /\ Active(g.session) /\ session[g.session].authorized # 0
         /\ call' = [call EXCEPT ![c] = [Idle EXCEPT !.step = "checked",
                                           !.session = g.session, !.at = g.at]]
    /\ UNCHANGED <<now, session, directory, grants, device, browser, local, history>>

ObserveAccess(c) ==
    /\ call[c].step = "checked"
    /\ call' = [call EXCEPT ![c] = IF Authorized(c) THEN Step(@, "observed") ELSE Idle]
    /\ UNCHANGED <<now, session, directory, grants, device, browser, local, history>>

\* Mutant: the relay trusts what was checked before.
ClaimTrusting(c) ==
    /\ call[c].step = "observed"
    /\ call' = [call EXCEPT ![c] = Step(@, "relayed")]
    /\ UNCHANGED <<now, session, directory, grants, device, browser, local, history>>

\* claimRelay
ClaimRelay(c) ==
    /\ call[c].step = "observed"
    /\ call' = [call EXCEPT ![c] = IF Authorized(c) THEN Step(@, "relayed") ELSE Idle]
    /\ UNCHANGED <<now, session, directory, grants, device, browser, local, history>>
-----------------------------------------------------------------------------
(* The rest *)

\* The directory's alarm, at its time or later.
CleanUp ==
    /\ alarm # 0 /\ alarm <= now
    /\ LET Left(f) == [s \in Session |->
             IF f[s] # None /\ f[s].expires <= now THEN None ELSE f[s]]
           kept == {f \in {Left(pair)[s] : s \in Session}
                          \cup {Left(missing)[s] : s \in Session}
                          \cup {rate} : f # None /\ f.expires > now}
       IN /\ pair' = Left(pair) /\ missing' = Left(missing)
          /\ rate' = IF rate # None /\ rate.expires <= now THEN None ELSE rate
          /\ alarm' = IF kept = {} THEN 0 ELSE Min({f.expires : f \in kept})
    /\ UNCHANGED <<now, session, grants, device, browser, call, local, history>>

\* A handler dies, its answer is lost, or a call is answered.
StopDevice(d) ==
    /\ device[d].step # "idle" /\ device' = [device EXCEPT ![d] = Idle]
    /\ UNCHANGED <<now, session, directory, grants, browser, call, local, history>>
StopBrowser(b) ==
    /\ browser[b].step # "idle" /\ Done(b)
    /\ UNCHANGED <<now, session, directory, grants, device, call, local, history>>
StopCall(c) ==
    /\ call[c].step # "idle" /\ call' = [call EXCEPT ![c] = Idle]
    /\ UNCHANGED <<now, session, directory, grants, device, browser, local, history>>

\* A submission reaches the directory within MaxDelay.
Tick ==
    /\ now < MaxTime
    /\ \A b \in Browsers : browser[b].step = "submitting" => now - browser[b].at < MaxDelay
    /\ now' = now + 1
    /\ UNCHANGED <<session, directory, grants, device, browser, call, local, history>>

Init ==
    /\ now = 1
    /\ session = [s \in Session |-> None]
    /\ pair = [s \in Session |-> None]
    /\ missing = [s \in Session |-> None]
    /\ rate = None /\ alarm = 0 /\ grants = {}
    /\ device = [d \in Devices |-> Idle]
    /\ browser = [b \in Browsers |-> Idle]
    /\ call = [c \in Calls |-> Idle]
    /\ local = 0
    /\ issued = [s \in Session |-> 0] /\ admitted = <<>>

Next ==
    \/ \E d \in Devices :
         \/ StartRegistration(d) \/ RevokeListed(d) \/ EndListed(d)
         \/ RegisterSession(d) \/ PublishCode(d) \/ ApproveSession(d) \/ ApproveCode(d)
         \/ RevokeSession(d) \/ WithdrawCode(d) \/ ListGrants(d) \/ StopDevice(d)
    \/ \E b \in Browsers :
         \/ Submit(b) \/ AuthorizeCode(b) \/ CheckSession(b)
         \/ CompleteAuthorization(b) \/ MarkAuthorized(b) \/ StopBrowser(b)
    \/ \E c \in Calls :
         BeginCall(c) \/ ObserveAccess(c) \/ ClaimRelay(c) \/ StopCall(c)
    \/ CleanUp \/ Tick

Spec == Init /\ [][Next]_vars
-----------------------------------------------------------------------------
(* Properties *)

\* Every variable has its values, a code and a source are never counted past
\* their limits, and a code is approved in the directory only if in its session.
TypeOK ==
    /\ now \in Time
    /\ session \in [Session -> {None} \cup SessionRecord]
    /\ pair \in [Session -> {None} \cup CodeRecord]
    /\ missing \in [Session -> {None} \cup [count : 1 .. MaxFailures, expires : Nat]]
    /\ rate # None => /\ rate \in RateRecord
                      /\ Cardinality(rate.attempts) <= MaxAttempts
    /\ alarm \in Nat /\ grants \subseteq Grant
    /\ device \in [Devices -> Device] /\ browser \in [Browsers -> Browser]
    /\ call \in [Calls -> Call] /\ local \in 0 .. MaxSessions
    /\ \A s \in Session : pair[s] # None /\ pair[s].approved => session[s].approved

\* One code makes at most one grant, and only for a session its device approved,
\* however often and from wherever it is submitted and whatever handler dies;
\* and a session is authorized by that grant or not at all.
GrantPerApproval ==
    \A s \in Session :
        /\ issued[s] <= 1
        /\ issued[s] = 1 => session[s].approved
        /\ Known(s) /\ session[s].authorized # 0 => issued[s] = 1

\* No code is tried once it has failed five times (the types of pair and missing
\* say so), and the limit of attempts of a source holds in every stretch of the window less twice the
\* delay of a submission, although the record is filtered by clocks that come in
\* out of order and dropped by the alarm.
Stretch == Window - 2 * MaxDelay
AttemptsBounded ==
    /\ TypeOK
    /\ \A t \in Time :
           Cardinality({k \in 1 .. Len(admitted) :
                          t - Stretch < admitted[k] /\ admitted[k] <= t}) <= MaxAttempts

\* A call is relayed only while its session is paired by the call's own grant: a
\* revocation or an expiry after the token and the status were checked, and a
\* grant left over from an authorization that failed half way, stop it.
RelayedWhilePaired ==
    [][\A c \in Calls : call[c].step # "relayed" /\ call'[c].step = "relayed" =>
         LET s == call[c].session
         IN /\ Active(s) /\ session[s].approved
            /\ session[s].authorized = call[c].at]_vars
=============================================================================
