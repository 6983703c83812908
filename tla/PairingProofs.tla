---------------------------- MODULE PairingProofs ----------------------------
(***************************************************************************)
(* Pairing for any number of handlers and sessions and any limits: one     *)
(* grant per approved code, and no relay without a live pairing.  A code   *)
(* is a token: it is with the device that publishes it, in the directory,  *)
(* with the browser that consumed it or spent on its grant, and never at   *)
(* two of these places.                                                    *)
(***************************************************************************)
EXTENDS Pairing, FiniteSetTheorems, TLAPS

\* The variables these proofs speak of have their values.
Typed ==
    /\ now \in Time
    /\ session \in [Session -> {None} \cup SessionRecord]
    /\ pair \in [Session -> {None} \cup CodeRecord]
    /\ grants \subseteq Grant
    /\ device \in [Devices -> Device] /\ browser \in [Browsers -> Browser]
    /\ call \in [Calls -> Call] /\ local \in 0 .. MaxSessions
    /\ issued \in [Session -> Nat]

Approved(s) == Known(s) /\ session[s].approved

Publishing(d, s) == device[d].step = "publishing" /\ device[d].session = s
Consumed(b, s) == browser[b].step \in {"consumed", "checked"} /\ browser[b].session = s

DeviceOK(d) ==
    /\ device[d].step \in {"publishing", "approving", "withdrawing"} =>
         device[d].session \in Session
    /\ device[d].step = "approving" => Approved(device[d].session)

BrowserOK(b) ==
    /\ browser[b].step # "idle" => browser[b].session \in Session /\ browser[b].at \in Time
    /\ browser[b].step \in {"consumed", "checked"} => Approved(browser[b].session)
    /\ browser[b].step = "granted" =>
         Approved(browser[b].session) /\ issued[browser[b].session] = 1

CallOK(c) == call[c].step # "idle" => call[c].session \in Session /\ call[c].at \in Time

\* Where the code of a session is.
TokenOK(s) ==
    /\ \A d, e \in Devices : Publishing(d, s) /\ Publishing(e, s) => d = e
    /\ \A b, c \in Browsers : Consumed(b, s) /\ Consumed(c, s) => b = c
    /\ \A d \in Devices, b \in Browsers : ~(Publishing(d, s) /\ Consumed(b, s))
    /\ \A d \in Devices : Publishing(d, s) => Known(s) /\ pair[s] = None /\ issued[s] = 0
    /\ \A b \in Browsers : Consumed(b, s) => pair[s] = None /\ issued[s] = 0
    /\ pair[s] # None => Known(s) /\ issued[s] = 0
    /\ pair[s] # None /\ pair[s].approved => Approved(s)
    /\ issued[s] <= 1
    /\ issued[s] = 1 => Approved(s)
    /\ Known(s) /\ session[s].authorized # 0 => issued[s] = 1

Inv ==
    /\ Typed
    /\ \A d \in Devices : DeviceOK(d)
    /\ \A b \in Browsers : BrowserOK(b)
    /\ \A c \in Calls : CallOK(c)
    /\ \A s \in Session : TokenOK(s)
-----------------------------------------------------------------------------
(* Records *)

LEMMA CodeUpdates ==
    ASSUME NEW x \in CodeRecord, NEW n \in 0 .. MaxFailures
    PROVE  /\ [x EXCEPT !.approved = TRUE] \in CodeRecord
           /\ [x EXCEPT !.failed = n] \in CodeRecord
           /\ [x EXCEPT !.failed = n].approved = x.approved
<1>1. [x EXCEPT !.approved = TRUE] \in CodeRecord
  BY DEF CodeRecord
<1>2. [x EXCEPT !.failed = n] \in CodeRecord /\ [x EXCEPT !.failed = n].approved = x.approved
  BY DEF CodeRecord
<1> QED
  BY <1>1, <1>2

LEMMA Authorization ==
    ASSUME NEW x \in SessionRecord, NEW at \in Time
    PROVE  LET y == [[x EXCEPT !.authorized = at] EXCEPT !.expires = at + SessionLife]
           IN y \in SessionRecord /\ y.approved = x.approved /\ y.authorized = at
<1> DEFINE y == [x EXCEPT !.authorized = at]
<1>1. at \in 0 .. MaxTime /\ at + SessionLife \in Nat
  BY PairingAssumption DEF Time
<1>2. y \in SessionRecord /\ y.approved = x.approved /\ y.authorized = at
  BY <1>1 DEF SessionRecord
<1>3. ASSUME NEW z \in SessionRecord, NEW n \in Nat
      PROVE  LET w == [z EXCEPT !.expires = n]
             IN w \in SessionRecord /\ w.approved = z.approved /\ w.authorized = z.authorized
  BY DEF SessionRecord
<1> HIDE DEF y
<1>4. LET w == [y EXCEPT !.expires = at + SessionLife]
      IN w \in SessionRecord /\ w.approved = x.approved /\ w.authorized = at
  BY <1>1, <1>2, <1>3
<1> QED
  BY <1>4 DEF y

LEMMA IdleHandlers ==
    Idle \in Device /\ Idle \in Browser /\ Idle \in Call /\ Idle.step = "idle"
BY PairingAssumption DEF Idle, Device, Browser, Call

Submission(s, at) == [Idle EXCEPT !.step = "submitting", !.session = s, !.at = at]
Begun(s, at) == [Idle EXCEPT !.step = "checked", !.session = s, !.at = at]

LEMMA NewRequests ==
    ASSUME NEW s \in Session, NEW at \in Time
    PROVE  /\ Submission(s, at) \in Browser /\ Submission(s, at).step = "submitting"
           /\ Submission(s, at).session = s /\ Submission(s, at).at = at
           /\ Begun(s, at) \in Call /\ Begun(s, at).step = "checked"
           /\ Begun(s, at).session = s /\ Begun(s, at).at = at
<1>1. s \in 0 .. MaxSessions /\ at \in 0 .. MaxTime
  BY PairingAssumption DEF Session, Time
<1>2. /\ Submission(s, at) \in Browser /\ Submission(s, at).step = "submitting"
      /\ Submission(s, at).session = s /\ Submission(s, at).at = at
  BY <1>1 DEF Idle, Browser, Submission
<1>3. /\ Begun(s, at) \in Call /\ Begun(s, at).step = "checked"
      /\ Begun(s, at).session = s /\ Begun(s, at).at = at
  BY <1>1 DEF Idle, Call, Begun
<1> QED
  BY <1>2, <1>3
-----------------------------------------------------------------------------
(* Steps of one handler that leave sessions, codes and grants made alone. *)

LEMMA DeviceStep ==
    ASSUME Inv, NEW d \in Devices, NEW x \in Device, device' = [device EXCEPT ![d] = x],
           UNCHANGED <<now, session, pair, browser, call, issued>>,
           local' \in 0 .. MaxSessions, grants' \subseteq Grant,
           x.step # "publishing",
           x.step \in {"approving", "withdrawing"} => x.session \in Session,
           x.step = "approving" => Approved(x.session)
    PROVE  Inv'
<1>1. Typed' /\ device'[d] = x /\ \A e \in Devices \ {d} : device'[e] = device[e]
  BY DEF Inv, Typed
<1>2. \A e \in Devices : DeviceOK(e)'
  BY <1>1 DEF Inv, DeviceOK, Approved, Known
<1>3. \A s \in Session : TokenOK(s)'
  BY <1>1 DEF Inv, TokenOK, Publishing, Consumed, Approved, Known
<1> QED
  BY <1>1, <1>2, <1>3 DEF Inv, BrowserOK, CallOK, Approved, Known

LEMMA BrowserStep ==
    ASSUME Inv, NEW b \in Browsers, NEW x \in Browser, browser' = [browser EXCEPT ![b] = x],
           UNCHANGED <<now, session, pair, grants, device, call, local, issued>>,
           x.step # "idle" => x.session \in Session /\ x.at \in Time,
           x.step \in {"consumed", "checked"} => Consumed(b, x.session),
           x.step # "granted"
    PROVE  Inv'
<1>1. Typed' /\ browser'[b] = x /\ \A e \in Browsers \ {b} : browser'[e] = browser[e]
  BY DEF Inv, Typed
<1>2. \A e \in Browsers : BrowserOK(e)'
  BY <1>1 DEF Inv, BrowserOK, Approved, Known, Consumed
<1>3. \A s \in Session : TokenOK(s)'
  <2>1. \A s \in Session, e \in Browsers : Consumed(e, s)' => Consumed(e, s)
    BY <1>1 DEF Consumed
  <2> QED
    BY <1>1, <2>1 DEF Inv, TokenOK, Publishing, Approved, Known
<1> QED
  BY <1>1, <1>2, <1>3 DEF Inv, DeviceOK, CallOK, Approved, Known

LEMMA CallStep ==
    ASSUME Inv, NEW c \in Calls, NEW x \in Call, call' = [call EXCEPT ![c] = x],
           UNCHANGED <<now, session, pair, grants, device, browser, local, issued>>,
           x.step # "idle" => x.session \in Session /\ x.at \in Time
    PROVE  Inv'
<1>1. Typed' /\ call'[c] = x /\ \A e \in Calls \ {c} : call'[e] = call[e]
  BY DEF Inv, Typed
<1> QED
  BY <1>1 DEF Inv, DeviceOK, BrowserOK, CallOK, TokenOK, Publishing, Consumed, Approved, Known
-----------------------------------------------------------------------------
(* The device's handlers *)

LEMMA DeviceQuiet ==
    ASSUME Inv, NEW d \in Devices,
           \/ StartRegistration(d) \/ RevokeListed(d) \/ EndListed(d)
           \/ ListGrants(d) \/ StopDevice(d)
    PROVE  Inv'
<1>1. /\ Typed /\ device[d] \in Device
      /\ 0 \in 0 .. MaxSessions /\ 0 \in 0 .. MaxTime
  BY PairingAssumption DEF Inv, Typed
<1>2. CASE StartRegistration(d)
  <2> DEFINE x == [Idle EXCEPT !.step = "replacing", !.listed = grants]
  <2>1. x \in Device /\ x.step = "replacing"
    <3>1. grants \in SUBSET Grant
      BY <1>1 DEF Typed
    <3> QED
      BY <1>1, <3>1 DEF Idle, Device
  <2>2. /\ device' = [device EXCEPT ![d] = x]
        /\ UNCHANGED <<now, session, pair, grants, browser, call, local, issued>>
    BY <1>2 DEF StartRegistration, directory, history
  <2> HIDE DEF x
  <2> QED
    BY <1>1, <2>1, <2>2, DeviceStep DEF Typed
<1>3. CASE RevokeListed(d)
  <2>1. PICK g \in device[d].listed :
          /\ grants' = grants \ {g}
          /\ device' = [device EXCEPT ![d].listed = @ \ {g}]
    BY <1>3 DEF RevokeListed
  <2> DEFINE x == [device[d] EXCEPT !.listed = device[d].listed \ {g}]
  <2>2. x \in Device /\ x.step = device[d].step
    BY <1>1 DEF Device
  <2>3. /\ device' = [device EXCEPT ![d] = x] /\ device[d].step \in {"replacing", "revoking"}
        /\ UNCHANGED <<now, session, pair, browser, call, local, issued>>
    BY <1>3, <2>1 DEF RevokeListed, directory, history
  <2> HIDE DEF x
  <2> QED
    BY <1>1, <2>1, <2>2, <2>3, DeviceStep DEF Typed
<1>4. CASE EndListed(d)
  <2> DEFINE x == IF device[d].step = "replacing" THEN [Idle EXCEPT !.step = "naming"]
                                                  ELSE Idle
  <2>1. x \in Device /\ x.step \in {"naming", "idle"}
    BY PairingAssumption DEF Idle, Device
  <2>2. /\ device' = [device EXCEPT ![d] = x] /\ local' \in {local, 0}
        /\ UNCHANGED <<now, session, pair, grants, browser, call, issued>>
    BY <1>4 DEF EndListed, directory, history
  <2>3. local' \in 0 .. MaxSessions
    BY <1>1, <2>2, PairingAssumption DEF Typed
  <2> HIDE DEF x
  <2> QED
    BY <1>1, <2>1, <2>2, <2>3, DeviceStep DEF Typed
<1>5. CASE ListGrants(d)
  <2> DEFINE y == [device[d] EXCEPT !.step = "revoking"]
             x == [y EXCEPT !.listed = grants]
  <2>1. y \in Device /\ y.step = "revoking"
    BY <1>1 DEF Device
  <2>2. device' = [device EXCEPT ![d] = x]
    BY <1>1, <1>5 DEF ListGrants, Typed
  <2> HIDE DEF y
  <2>3. x \in Device /\ x.step = "revoking"
    BY <1>1, <2>1 DEF Device, Typed
  <2>4. UNCHANGED <<now, session, pair, grants, browser, call, local, issued>>
    BY <1>5 DEF ListGrants, directory, history
  <2> HIDE DEF x
  <2> QED
    BY <1>1, <2>2, <2>3, <2>4, DeviceStep DEF Typed
<1>6. CASE StopDevice(d)
  BY <1>1, <1>6, IdleHandlers, DeviceStep DEF StopDevice, directory, history, Typed
<1> QED
  BY <1>2, <1>3, <1>4, <1>5, <1>6

LEMMA RegisterKeeps ==
    ASSUME Inv, NEW d \in Devices, RegisterSession(d)
    PROVE  Inv'
<1> DEFINE r == [approved |-> FALSE, authorized |-> 0, expires |-> now + CodeLife,
                 revoked |-> FALSE]
<1>1. PICK s \in Session :
        /\ ~Known(s) /\ session' = [session EXCEPT ![s] = r]
        /\ device' = [device EXCEPT ![d].step = "publishing", ![d].session = s, ![d].at = now]
  BY DEF RegisterSession
<1>2. /\ Typed /\ device[d] \in Device /\ now \in 0 .. MaxTime /\ s \in 0 .. MaxSessions
      /\ UNCHANGED <<now, pair, grants, browser, call, local, issued>>
  <2>1. Typed /\ UNCHANGED <<now, pair, grants, browser, call, local, issued>>
    BY DEF Inv, RegisterSession, directory, history
  <2>2. device[d] \in Device /\ now \in Time
    BY <2>1 DEF Typed
  <2>3. Time \subseteq 0 .. MaxTime /\ Session \subseteq 0 .. MaxSessions
    BY PairingAssumption DEF Time, Session
  <2> QED
    BY <2>1, <2>2, <2>3
<1>3. r \in SessionRecord /\ r # None /\ r.approved = FALSE /\ r.authorized = 0
  <2>1. r \in SessionRecord
    BY PairingAssumption, <1>2 DEF SessionRecord
  <2> QED
    BY <2>1, PairingAssumption
<1> DEFINE x == [[[device[d] EXCEPT !.step = "publishing"] EXCEPT !.session = s]
                   EXCEPT !.at = now]
<1>4. x \in Device /\ x.step = "publishing" /\ x.session = s
  <2>1. ASSUME NEW y \in Device, NEW n \in 0 .. MaxSessions, NEW t \in 0 .. MaxTime
        PROVE  /\ [y EXCEPT !.step = "publishing"] \in Device
               /\ [y EXCEPT !.step = "publishing"].step = "publishing"
               /\ [y EXCEPT !.session = n] \in Device
               /\ [y EXCEPT !.session = n].step = y.step /\ [y EXCEPT !.session = n].session = n
    BY DEF Device
  <2>2. ASSUME NEW y \in Device, NEW t \in 0 .. MaxTime
        PROVE  /\ [y EXCEPT !.at = t] \in Device
               /\ [y EXCEPT !.at = t].step = y.step /\ [y EXCEPT !.at = t].session = y.session
    BY DEF Device
  <2> DEFINE y == [device[d] EXCEPT !.step = "publishing"]
             z == [y EXCEPT !.session = s]
  <2>3. y \in Device /\ y.step = "publishing"
    BY <1>2, <2>1
  <2> HIDE DEF y
  <2>4. z \in Device /\ z.step = "publishing" /\ z.session = s
    BY <1>2, <2>1, <2>3
  <2> HIDE DEF z
  <2>5. LET w == [z EXCEPT !.at = now]
        IN w \in Device /\ w.step = "publishing" /\ w.session = s
    BY <1>2, <2>2, <2>4
  <2> QED
    BY <2>5 DEF y, z
<1>5. device' = [device EXCEPT ![d] = x]
  BY <1>1, <1>2 DEF Typed
<1> HIDE DEF r, x
<1>6. /\ Typed' /\ device'[d] = x /\ \A e \in Devices \ {d} : device'[e] = device[e]
      /\ session'[s] = r /\ \A t \in Session \ {s} : session'[t] = session[t]
  <2>1. /\ session' \in [Session -> {None} \cup SessionRecord] /\ session'[s] = r
        /\ \A t \in Session \ {s} : session'[t] = session[t]
    BY <1>1, <1>2, <1>3 DEF Typed
  <2>2. /\ device' \in [Devices -> Device] /\ device'[d] = x
        /\ \A e \in Devices \ {d} : device'[e] = device[e]
    BY <1>2, <1>4, <1>5 DEF Typed
  <2> QED
    BY <1>2, <2>1, <2>2 DEF Typed
<1>7. \A t \in Session : Approved(t) => t # s /\ Approved(t)'
  BY <1>1, <1>3, <1>6 DEF Approved, Known
<1>8. \A e \in Devices : DeviceOK(e)'
  BY <1>4, <1>6, <1>7 DEF Inv, DeviceOK
<1>9. \A b \in Browsers : BrowserOK(b)'
  BY <1>2, <1>7 DEF Inv, BrowserOK
<1>10. ASSUME NEW t \in Session
       PROVE  TokenOK(t)'
  <2>1. CASE t = s
    <3>1. /\ ~Known(s) /\ TokenOK(s) /\ \A b \in Browsers : ~Consumed(b, s)
          /\ \A e \in Devices : ~Publishing(e, s)
      BY <1>1 DEF Inv, TokenOK, BrowserOK, Consumed, Approved
    <3>2. pair[s] = None /\ issued[s] = 0
      BY <1>1, <1>2, <3>1 DEF TokenOK, Approved, Typed
    <3>3. \A e \in Devices : Publishing(e, s)' <=> e = d
      BY <1>4, <1>6, <3>1 DEF Publishing
    <3>4. \A b \in Browsers : ~Consumed(b, s)'
      BY <1>2, <3>1 DEF Consumed
    <3>5. Known(s)' /\ session'[s].authorized = 0
      BY <1>3, <1>6 DEF Known
    <3> QED
      BY <1>2, <2>1, <3>2, <3>3, <3>4, <3>5 DEF TokenOK
  <2>2. CASE t # s
    <3>1. \A e \in Devices : Publishing(e, t)' => Publishing(e, t)
      BY <1>4, <1>6, <2>2 DEF Publishing
    <3>2. \A b \in Browsers : Consumed(b, t)' <=> Consumed(b, t)
      BY <1>2 DEF Consumed
    <3>3. (Approved(t)' <=> Approved(t)) /\ (Known(t)' <=> Known(t)) /\ session'[t] = session[t]
      BY <1>6, <2>2 DEF Approved, Known
    <3> QED
      BY <1>2, <3>1, <3>2, <3>3 DEF Inv, TokenOK
  <2> QED
    BY <2>1, <2>2
<1> QED
  BY <1>2, <1>6, <1>8, <1>9, <1>10 DEF Inv, CallOK

\* A step that moves no code keeps every code where it was, if only there.
LEMMA TokensKept ==
    ASSUME Inv, issued' = issued,
           \A d \in Devices, s \in Session : Publishing(d, s)' => Publishing(d, s),
           \A b \in Browsers, s \in Session : Consumed(b, s)' => Consumed(b, s),
           \A s \in Session :
             /\ Known(s) => Known(s)'
             /\ Approved(s) => Approved(s)'
             /\ Known(s)' /\ session'[s].authorized # 0 =>
                  \/ Known(s) /\ session[s].authorized # 0
                  \/ issued[s] = 1
             /\ pair'[s] # None =>
                  /\ pair[s] # None
                  /\ pair'[s].approved => pair[s].approved \/ Approved(s)'
    PROVE  \A s \in Session : TokenOK(s)'
<1> SUFFICES ASSUME NEW s \in Session
             PROVE  TokenOK(s)'
  OBVIOUS
<1>1. TokenOK(s)
  BY DEF Inv
<1>2. /\ \A d, e \in Devices : Publishing(d, s)' /\ Publishing(e, s)' => d = e
      /\ \A b, c \in Browsers : Consumed(b, s)' /\ Consumed(c, s)' => b = c
      /\ \A d \in Devices, b \in Browsers : ~(Publishing(d, s)' /\ Consumed(b, s)')
      /\ \A d \in Devices : Publishing(d, s)' => Known(s)' /\ pair'[s] = None /\ issued[s] = 0
      /\ \A b \in Browsers : Consumed(b, s)' => pair'[s] = None /\ issued[s] = 0
  BY <1>1 DEF TokenOK
<1>3. /\ pair'[s] # None => Known(s)' /\ issued[s] = 0
      /\ pair'[s] # None /\ pair'[s].approved => Approved(s)'
      /\ issued[s] <= 1
      /\ issued[s] = 1 => Approved(s)'
      /\ Known(s)' /\ session'[s].authorized # 0 => issued[s] = 1
  BY <1>1 DEF TokenOK
<1> QED
  BY <1>2, <1>3 DEF TokenOK

\* A known session's record is written.
LEMMA SessionWritten ==
    ASSUME Typed, NEW s \in Session, Known(s), NEW r \in SessionRecord,
           session' = [session EXCEPT ![s] = r],
           session[s].approved => r.approved
    PROVE  /\ session' \in [Session -> {None} \cup SessionRecord] /\ session'[s] = r
           /\ \A t \in Session \ {s} : session'[t] = session[t]
           /\ \A t \in Session : Known(t)' <=> Known(t)
           /\ \A t \in Session : Approved(t) => Approved(t)'
<1>1. session' \in [Session -> {None} \cup SessionRecord] /\ session'[s] = r /\ r # None
  BY PairingAssumption DEF Typed
<1>2. \A t \in Session \ {s} : session'[t] = session[t]
  BY DEF Typed
<1>3. \A t \in Session : Known(t)' <=> Known(t)
  BY <1>1, <1>2 DEF Known
<1>4. \A t \in Session : Approved(t) => Approved(t)'
  BY <1>1, <1>2, <1>3 DEF Approved
<1> QED
  BY <1>1, <1>2, <1>3, <1>4

LEMMA ApproveKeeps ==
    ASSUME Inv, NEW d \in Devices, ApproveSession(d) \/ RevokeSession(d)
    PROVE  Inv'
<1>1. /\ Typed /\ local \in Session /\ Known(local) /\ session[local] \in SessionRecord
      /\ 0 \in 0 .. MaxTime
      /\ UNCHANGED <<now, pair, grants, browser, call, local, issued>>
  BY PairingAssumption
     DEF Inv, Typed, ApproveSession, RevokeSession, Active, Known, Session, directory, history
<1>2. PICK s \in Session : s = local
  BY <1>1
<1>3. PICK x \in Device, r \in SessionRecord :
        /\ device' = [device EXCEPT ![d] = x] /\ x.session = s
        /\ session' = [session EXCEPT ![s] = r]
        /\ session[s].approved => r.approved
        /\ r.authorized = session[s].authorized
        /\ \/ x.step = "approving" /\ r.approved
           \/ x.step = "withdrawing"
  <2>1. CASE ApproveSession(d)
    <3> DEFINE x == [Idle EXCEPT !.step = "approving", !.session = s, !.at = now]
               r == [session[s] EXCEPT !.approved = TRUE]
    <3>1. x \in Device /\ x.session = s /\ x.step = "approving"
      <4>1. s \in 0 .. MaxSessions /\ now \in 0 .. MaxTime
        BY <1>1, <1>2, PairingAssumption DEF Typed, Time
      <4> QED
        BY <4>1 DEF Idle, Device
    <3>2. r \in SessionRecord /\ r.approved = TRUE /\ r.authorized = session[s].authorized
      BY <1>1, <1>2 DEF SessionRecord
    <3>3. device' = [device EXCEPT ![d] = x] /\ session' = [session EXCEPT ![s] = r]
      BY <1>2, <2>1 DEF ApproveSession
    <3> HIDE DEF x, r
    <3> QED
      BY <3>1, <3>2, <3>3
  <2>2. CASE RevokeSession(d)
    <3> DEFINE x == [Idle EXCEPT !.step = "withdrawing", !.session = s]
               r == [session[s] EXCEPT !.revoked = TRUE]
    <3>1. x \in Device /\ x.session = s /\ x.step = "withdrawing"
      <4>1. s \in 0 .. MaxSessions
        BY <1>1, <1>2 DEF Typed
      <4> QED
        BY <1>1, <4>1 DEF Idle, Device
    <3>2. r \in SessionRecord /\ r.approved = session[s].approved
          /\ r.authorized = session[s].authorized
      BY <1>1, <1>2 DEF SessionRecord
    <3>3. device' = [device EXCEPT ![d] = x] /\ session' = [session EXCEPT ![s] = r]
      BY <1>2, <2>2 DEF RevokeSession
    <3> HIDE DEF x, r
    <3> QED
      BY <3>1, <3>2, <3>3
  <2> QED
    BY <2>1, <2>2
<1>4. /\ session' \in [Session -> {None} \cup SessionRecord] /\ session'[s] = r
      /\ \A t \in Session \ {s} : session'[t] = session[t]
      /\ \A t \in Session : Known(t)' <=> Known(t)
      /\ \A t \in Session : Approved(t) => Approved(t)'
  BY <1>1, <1>2, <1>3, SessionWritten
<1>5. /\ Typed' /\ device'[d] = x
      /\ \A e \in Devices \ {d} : device'[e] = device[e]
  BY <1>1, <1>3, <1>4 DEF Typed
<1>6. \A e \in Devices : DeviceOK(e)'
  <2>1. x.step = "approving" => Approved(s)'
    BY <1>1, <1>2, <1>3, <1>4 DEF Approved
  <2> QED
    BY <1>3, <1>4, <1>5, <2>1 DEF Inv, DeviceOK
<1>7. \A b \in Browsers : BrowserOK(b)'
  BY <1>1, <1>4 DEF Inv, BrowserOK
<1>8. \A t \in Session : TokenOK(t)'
  <2>1. /\ \A e \in Devices, t \in Session : Publishing(e, t)' => Publishing(e, t)
        /\ \A b \in Browsers, t \in Session : Consumed(b, t)' => Consumed(b, t)
    BY <1>1, <1>3, <1>5 DEF Publishing, Consumed
  <2>2. \A t \in Session : session'[t].authorized = session[t].authorized
    BY <1>3, <1>4
  <2> QED
    BY <1>1, <1>4, <2>1, <2>2, TokensKept
<1> QED
  BY <1>1, <1>5, <1>6, <1>7, <1>8 DEF Inv, CallOK

LEMMA CodeKeeps ==
    ASSUME Inv, NEW d \in Devices, ApproveCode(d) \/ WithdrawCode(d)
    PROVE  Inv'
<1>1. /\ Typed /\ device[d] \in Device /\ DeviceOK(d)
      /\ device[d].step \in {"approving", "withdrawing"}
      /\ UNCHANGED <<now, session, grants, browser, call, local, issued>>
  BY DEF Inv, Typed, ApproveCode, WithdrawCode, history
<1>2. PICK s \in Session : s = device[d].session
  BY <1>1 DEF DeviceOK
<1>3. /\ pair' \in [Session -> {None} \cup CodeRecord]
      /\ \A t \in Session : pair'[t] # None =>
           pair[t] # None /\ (pair'[t].approved => pair[t].approved \/ Approved(t))
  <2>1. CASE ApproveCode(d) /\ pair[s] # None /\ pair'# pair
    <3>1. pair[s] \in CodeRecord /\ Approved(s)
      BY <1>1, <1>2, <2>1 DEF ApproveCode, DeviceOK, Typed
    <3> DEFINE p == [pair[s] EXCEPT !.approved = TRUE]
    <3>2. p \in CodeRecord
      BY <3>1 DEF CodeRecord
    <3>3. pair' = [pair EXCEPT ![s] = p]
      BY <1>2, <2>1 DEF ApproveCode
    <3> HIDE DEF p
    <3> QED
      BY <1>1, <2>1, <3>1, <3>2, <3>3 DEF Typed
  <2>2. CASE WithdrawCode(d)
    BY <1>1, <1>2, <2>2 DEF WithdrawCode, Typed
  <2>3. CASE pair' = pair
    BY <1>1, <2>3 DEF Typed
  <2>4. ApproveCode(d) => pair[s] # None \/ pair' = pair
    BY <1>2 DEF ApproveCode
  <2> QED
    BY <2>1, <2>2, <2>3, <2>4
<1>4. PICK x \in Device :
        device' = [device EXCEPT ![d] = x] /\ x.step \in {"idle", "listing"}
  <2>1. CASE ApproveCode(d)
    BY <2>1, IdleHandlers DEF ApproveCode
  <2>2. CASE WithdrawCode(d)
    <3> DEFINE x == [device[d] EXCEPT !.step = "listing"]
    <3>1. x \in Device /\ x.step = "listing" /\ device' = [device EXCEPT ![d] = x]
      BY <1>1, <2>2 DEF Device, WithdrawCode, Step
    <3> HIDE DEF x
    <3> QED
      BY <3>1
  <2> QED
    BY <2>1, <2>2
<1>5. /\ Typed' /\ device'[d] = x
      /\ \A e \in Devices \ {d} : device'[e] = device[e]
  BY <1>1, <1>3, <1>4 DEF Typed
<1>6. \A t \in Session : (Known(t)' <=> Known(t)) /\ (Approved(t)' <=> Approved(t))
  BY <1>1 DEF Known, Approved
<1>7. \A t \in Session : TokenOK(t)'
  <2>1. /\ \A e \in Devices, t \in Session : Publishing(e, t)' => Publishing(e, t)
        /\ \A b \in Browsers, t \in Session : Consumed(b, t)' => Consumed(b, t)
    BY <1>1, <1>4, <1>5 DEF Publishing, Consumed
  <2> QED
    BY <1>1, <1>3, <1>6, <2>1, TokensKept
<1>8. \A e \in Devices : DeviceOK(e)'
  BY <1>4, <1>5, <1>6 DEF Inv, DeviceOK
<1>9. \A b \in Browsers : BrowserOK(b)'
  BY <1>1, <1>6 DEF Inv, BrowserOK
<1> QED
  BY <1>1, <1>5, <1>7, <1>8, <1>9 DEF Inv, CallOK

LEMMA PublishKeeps ==
    ASSUME Inv, NEW d \in Devices, PublishCode(d)
    PROVE  Inv'
<1>1. /\ Typed /\ DeviceOK(d) /\ device[d].step = "publishing" /\ device[d] \in Device
      /\ 0 \in 0 .. MaxSessions /\ 0 \in 0 .. MaxTime
      /\ UNCHANGED <<now, session, grants, browser, call, issued>>
  BY PairingAssumption DEF Inv, Typed, PublishCode, history
<1>2. PICK s \in Session : s = device[d].session
  BY <1>1 DEF DeviceOK
<1> DEFINE expires == device[d].at + CodeLife
<1>3. CASE expires <= now
  <2> DEFINE x == [Idle EXCEPT !.step = "naming"]
  <2>1. x \in Device /\ x.step = "naming"
    BY <1>1 DEF Idle, Device
  <2>2. device' = [device EXCEPT ![d] = x] /\ UNCHANGED <<pair, local>>
    BY <1>3 DEF PublishCode
  <2> HIDE DEF x
  <2> QED
    BY <1>1, <2>1, <2>2, DeviceStep DEF Typed
<1>4. CASE ~(expires <= now)
  <2> DEFINE p == [approved |-> FALSE, failed |-> 0, expires |-> expires]
  <2>1. p \in CodeRecord /\ p.approved = FALSE
    BY <1>1, PairingAssumption DEF CodeRecord, Device
  <2>2. /\ pair' = [pair EXCEPT ![s] = p] /\ local' \in {local, s}
        /\ device' = [device EXCEPT ![d] = Idle]
    BY <1>2, <1>4 DEF PublishCode
  <2> HIDE DEF p
  <2>3. /\ Typed' /\ pair'[s] = p /\ \A t \in Session \ {s} : pair'[t] = pair[t]
        /\ device'[d].step = "idle"
        /\ \A e \in Devices \ {d} : device'[e] = device[e]
    <3>1. s \in 0 .. MaxSessions
      BY <1>2, PairingAssumption DEF Session
    <3> QED
      BY <1>1, <2>1, <2>2, <3>1, IdleHandlers DEF Typed
  <2>4. \A t \in Session : (Known(t)' <=> Known(t)) /\ (Approved(t)' <=> Approved(t))
    BY <1>1 DEF Known, Approved
  <2>5. \A e \in Devices, t \in Session : Publishing(e, t)' <=> Publishing(e, t) /\ e # d
    BY <2>3 DEF Publishing
  <2>6. \A b \in Browsers, t \in Session : Consumed(b, t)' <=> Consumed(b, t)
    BY <1>1 DEF Consumed
  <2>7. Publishing(d, s) /\ TokenOK(s)
    BY <1>1, <1>2 DEF Publishing, Inv
  <2>8. ASSUME NEW t \in Session
        PROVE  TokenOK(t)'
    <3>1. CASE t = s
      <4>1. /\ \A e \in Devices : ~Publishing(e, s)'
            /\ \A b \in Browsers : ~Consumed(b, s)'
            /\ Known(s) /\ issued[s] = 0
        BY <2>5, <2>6, <2>7 DEF TokenOK
      <4>2. session[s].authorized = 0
        BY <2>7, <4>1 DEF TokenOK
      <4> QED
        BY <1>1, <2>1, <2>3, <2>4, <3>1, <4>1, <4>2 DEF TokenOK
    <3>2. CASE t # s
      BY <1>1, <2>3, <2>4, <2>5, <2>6, <3>2 DEF Inv, TokenOK
    <3> QED
      BY <3>1, <3>2
  <2>9. \A e \in Devices : DeviceOK(e)'
    BY <2>3, <2>4 DEF Inv, DeviceOK
  <2>10. \A b \in Browsers : BrowserOK(b)'
    BY <1>1, <2>4 DEF Inv, BrowserOK
  <2> QED
    BY <1>1, <2>3, <2>8, <2>9, <2>10 DEF Inv, CallOK
<1> QED
  BY <1>3, <1>4
-----------------------------------------------------------------------------
(* The browsers' handlers *)

LEMMA BrowserQuiet ==
    ASSUME Inv, NEW b \in Browsers, Submit(b) \/ CheckSession(b) \/ StopBrowser(b)
    PROVE  Inv'
<1>1. /\ Typed /\ browser[b] \in Browser /\ BrowserOK(b)
      /\ now \in Time /\ now \in 0 .. MaxTime
      /\ UNCHANGED <<now, session, pair, grants, device, call, local, issued>>
  <2>1. Typed /\ browser[b] \in Browser /\ BrowserOK(b) /\ now \in Time
    BY DEF Inv, Typed
  <2>2. now \in 0 .. MaxTime
    BY <2>1, PairingAssumption DEF Time
  <2>3. UNCHANGED <<now, session, pair, grants, device, call, local, issued>>
    BY DEF Submit, CheckSession, StopBrowser, directory, history
  <2> QED
    BY <2>1, <2>2, <2>3
<1>2. CASE Submit(b)
  <2>1. PICK s \in Session :
          browser' = [browser EXCEPT ![b] = [Idle EXCEPT !.step = "submitting",
                                               !.session = s, !.at = now]]
    BY <1>2 DEF Submit
  <2> DEFINE x == Submission(s, now)
  <2>2. x \in Browser /\ x.step = "submitting" /\ x.session = s /\ x.at = now
    BY <1>1, NewRequests
  <2>3. browser' = [browser EXCEPT ![b] = x]
    BY <2>1 DEF Submission
  <2> HIDE DEF x
  <2> QED
    BY <1>1, <2>2, <2>3, BrowserStep
<1>3. CASE CheckSession(b)
  <2> DEFINE y == [browser[b] EXCEPT !.step = "checked", !.at = now]
  <2>1. y \in Browser /\ y.step = "checked" /\ y.session = browser[b].session /\ y.at = now
    BY <1>1 DEF Browser
  <2>2. browser' = [browser EXCEPT ![b] = y] \/ browser' = [browser EXCEPT ![b] = Idle]
    BY <1>3 DEF CheckSession
  <2>3. Consumed(b, browser[b].session) /\ browser[b].session \in Session
    BY <1>1, <1>3 DEF CheckSession, Consumed, BrowserOK
  <2> HIDE DEF y
  <2>4. CASE browser' = [browser EXCEPT ![b] = y]
    BY <1>1, <2>1, <2>3, <2>4, BrowserStep
  <2>5. CASE browser' = [browser EXCEPT ![b] = Idle]
    BY <1>1, <2>5, IdleHandlers, BrowserStep
  <2> QED
    BY <2>2, <2>4, <2>5
<1>4. CASE StopBrowser(b)
  BY <1>1, <1>4, IdleHandlers, BrowserStep DEF StopBrowser, Done
<1> QED
  BY <1>2, <1>3, <1>4

LEMMA AuthorizeKeeps ==
    ASSUME Inv, NEW b \in Browsers, AuthorizeCode(b)
    PROVE  Inv'
<1>1. /\ Typed /\ browser[b] \in Browser /\ BrowserOK(b) /\ browser[b].step = "submitting"
      /\ UNCHANGED <<now, session, grants, device, call, local, issued>>
  BY DEF Inv, Typed, AuthorizeCode
<1>2. PICK s \in Session : s = browser[b].session
  BY <1>1 DEF BrowserOK
<1>3. PICK at \in Time : at = browser[b].at
  BY <1>1 DEF BrowserOK
<1>4. \A t \in Session : (Known(t)' <=> Known(t)) /\ (Approved(t)' <=> Approved(t))
  BY <1>1 DEF Known, Approved
<1>5. ASSUME Done(b), pair' \in [Session -> {None} \cup CodeRecord],
             \A t \in Session : pair'[t] # None =>
               pair[t] # None /\ pair'[t].approved = pair[t].approved
      PROVE  Inv'
  <2>1. /\ Typed' /\ browser'[b].step = "idle"
        /\ \A e \in Browsers \ {b} : browser'[e] = browser[e]
    BY <1>1, <1>5, IdleHandlers DEF Typed, Done
  <2>2. /\ \A e \in Devices, t \in Session : Publishing(e, t)' => Publishing(e, t)
        /\ \A e \in Browsers, t \in Session : Consumed(e, t)' => Consumed(e, t)
    BY <1>1, <2>1 DEF Publishing, Consumed
  <2>3. \A t \in Session : TokenOK(t)'
    BY <1>1, <1>4, <1>5, <2>2, TokensKept
  <2>4. \A e \in Browsers : BrowserOK(e)'
    BY <1>1, <1>4, <2>1 DEF Inv, BrowserOK
  <2> QED
    BY <1>1, <1>4, <2>1, <2>3, <2>4 DEF Inv, DeviceOK, CallOK
<1>6. CASE Done(b) /\ pair' = pair
  BY <1>1, <1>5, <1>6 DEF Typed
<1>7. CASE CodeRefused(b, s, at) /\ ~Locked(s)
  <2>1. pair[s] # None /\ ~(pair[s].failed >= MaxFailures)
    BY <1>7 DEF CodeRefused, Locked
  <2> DEFINE n == pair[s].failed + 1
             p == [pair[s] EXCEPT !.failed = n]
  <2>2. pair[s] \in CodeRecord
    BY <1>1, <2>1 DEF Typed
  <2>3. n \in 0 .. MaxFailures
    <3>1. pair[s].failed \in 0 .. MaxFailures /\ MaxFailures \in Nat
      BY <2>2, PairingAssumption DEF CodeRecord
    <3> QED
      BY <2>1, <3>1
  <2>4. pair' = [pair EXCEPT ![s] = p] /\ Done(b)
    BY <1>7 DEF CodeRefused
  <2> HIDE DEF n
  <2>5. p \in CodeRecord /\ p.approved = pair[s].approved
    BY <2>2, <2>3, CodeUpdates
  <2> HIDE DEF p
  <2>6. /\ pair' \in [Session -> {None} \cup CodeRecord]
        /\ \A t \in Session : pair'[t] # None =>
             pair[t] # None /\ pair'[t].approved = pair[t].approved
    BY <1>1, <2>1, <2>4, <2>5 DEF Typed
  <2> QED
    BY <1>5, <2>4, <2>6
<1>8. CASE CodeConsumed(b, s, at)
  <2> DEFINE x == [browser[b] EXCEPT !.step = "consumed"]
  <2>1. x \in Browser /\ x.step = "consumed" /\ x.session = s /\ x.at = at
    BY <1>1, <1>2, <1>3 DEF Browser
  <2>2. /\ browser' = [browser EXCEPT ![b] = x] /\ pair' = [pair EXCEPT ![s] = None]
        /\ pair[s] # None /\ pair[s].approved
    BY <1>8 DEF CodeConsumed, Step, Usable
  <2> HIDE DEF x
  <2>3. /\ Typed' /\ browser'[b] = x
        /\ \A e \in Browsers \ {b} : browser'[e] = browser[e]
        /\ pair'[s] = None /\ \A t \in Session \ {s} : pair'[t] = pair[t]
    BY <1>1, <2>1, <2>2 DEF Typed
  <2>4. TokenOK(s) /\ Approved(s) /\ issued[s] = 0
    BY <2>2 DEF Inv, TokenOK
  <2>5. /\ \A e \in Browsers : ~Consumed(e, s)
        /\ \A e \in Devices : ~Publishing(e, s)
    BY <2>2, <2>4 DEF TokenOK
  <2>6. \A e \in Browsers, t \in Session :
          Consumed(e, t)' <=> Consumed(e, t) \/ (e = b /\ t = s)
    BY <1>1, <2>1, <2>3 DEF Consumed
  <2>7. \A e \in Devices, t \in Session : Publishing(e, t)' <=> Publishing(e, t)
    BY <1>1 DEF Publishing
  <2>8. ASSUME NEW t \in Session
        PROVE  TokenOK(t)'
    <3>1. CASE t = s
      <4>1. session[s].authorized = 0
        BY <2>4 DEF TokenOK, Approved
      <4> QED
        BY <1>1, <1>4, <2>3, <2>4, <2>5, <2>6, <2>7, <3>1, <4>1 DEF TokenOK
    <3>2. CASE t # s
      BY <1>1, <1>4, <2>3, <2>6, <2>7, <3>2 DEF Inv, TokenOK
    <3> QED
      BY <3>1, <3>2
  <2>9. \A e \in Browsers : BrowserOK(e)'
    BY <1>1, <1>4, <2>1, <2>3, <2>4 DEF Inv, BrowserOK
  <2> QED
    BY <1>1, <1>4, <2>3, <2>8, <2>9 DEF Inv, DeviceOK, CallOK
<1>9. \/ Done(b) /\ pair' = pair
      \/ CodeRefused(b, s, at) /\ ~Locked(s)
      \/ CodeConsumed(b, s, at)
  BY <1>2, <1>3 DEF AuthorizeCode, CodeUnknown, CodeRefused
<1> QED
  BY <1>6, <1>7, <1>8, <1>9

LEMMA CompleteKeeps ==
    ASSUME Inv, NEW b \in Browsers, CompleteAuthorization(b)
    PROVE  Inv'
<1>1. /\ Typed /\ browser[b] \in Browser /\ BrowserOK(b) /\ browser[b].step = "checked"
      /\ UNCHANGED <<now, session, pair, device, call, local>>
  BY DEF Inv, Typed, CompleteAuthorization, directory
<1>2. PICK s \in Session : s = browser[b].session
  BY <1>1 DEF BrowserOK
<1>3. Consumed(b, s) /\ TokenOK(s) /\ Approved(s) /\ browser[b].at \in Time
  BY <1>1, <1>2 DEF Consumed, Inv, BrowserOK
<1>4. /\ issued[s] = 0 /\ pair[s] = None
      /\ \A e \in Browsers \ {b} : ~Consumed(e, s)
      /\ \A e \in Devices : ~Publishing(e, s)
  BY <1>3 DEF TokenOK
<1> DEFINE x == [browser[b] EXCEPT !.step = "granted"]
<1>5. x \in Browser /\ x.step = "granted" /\ x.session = s /\ x.at \in Time
  BY <1>1, <1>2, <1>3 DEF Browser
<1>6. /\ browser' = [browser EXCEPT ![b] = x]
      /\ issued' = [issued EXCEPT ![s] = issued[s] + 1]
      /\ grants' = grants \cup {[session |-> s, at |-> browser[b].at]}
  BY <1>1, <1>2 DEF CompleteAuthorization, Step
<1> HIDE DEF x
<1>7. /\ browser' \in [Browsers -> Browser] /\ browser'[b] = x
      /\ \A e \in Browsers \ {b} : browser'[e] = browser[e]
      /\ issued' \in [Session -> Nat] /\ issued'[s] = 1
      /\ \A t \in Session \ {s} : issued'[t] = issued[t]
  BY <1>1, <1>4, <1>5, <1>6 DEF Typed
<1>8. grants' \subseteq Grant
  BY <1>1, <1>3, <1>6 DEF Typed, Grant
<1>9. Typed'
  BY <1>1, <1>7, <1>8 DEF Typed
<1>10. \A t \in Session : (Known(t)' <=> Known(t)) /\ (Approved(t)' <=> Approved(t))
  BY <1>1 DEF Known, Approved
<1>11. /\ \A e \in Browsers, t \in Session : Consumed(e, t)' <=> Consumed(e, t) /\ e # b
       /\ \A e \in Devices, t \in Session : Publishing(e, t)' <=> Publishing(e, t)
  BY <1>1, <1>5, <1>7 DEF Consumed, Publishing
<1>12. ASSUME NEW t \in Session
       PROVE  TokenOK(t)'
  <2>1. CASE t = s
    BY <1>1, <1>3, <1>4, <1>7, <1>10, <1>11, <2>1 DEF TokenOK
  <2>2. CASE t # s
    BY <1>1, <1>7, <1>10, <1>11, <2>2 DEF Inv, TokenOK
  <2> QED
    BY <2>1, <2>2
<1>13. ASSUME NEW e \in Browsers
       PROVE  BrowserOK(e)'
  <2>1. CASE e = b
    BY <1>3, <1>5, <1>7, <1>10, <2>1 DEF BrowserOK
  <2>2. CASE e # b
    <3>1. BrowserOK(e) /\ browser'[e] = browser[e]
      BY <1>7, <2>2 DEF Inv
    <3>2. browser[e].step = "granted" => browser[e].session # s
      BY <1>4, <3>1 DEF BrowserOK
    <3> QED
      BY <1>7, <1>10, <3>1, <3>2 DEF BrowserOK
  <2> QED
    BY <2>1, <2>2
<1> QED
  BY <1>1, <1>9, <1>10, <1>12, <1>13 DEF Inv, DeviceOK, CallOK

LEMMA MarkKeeps ==
    ASSUME Inv, NEW b \in Browsers, MarkAuthorized(b)
    PROVE  Inv'
<1>1. /\ Typed /\ BrowserOK(b) /\ browser[b].step = "granted" /\ Done(b)
      /\ UNCHANGED <<now, pair, grants, device, call, local, issued>>
  BY DEF Inv, Typed, MarkAuthorized, directory, history
<1>2. PICK s \in Session : s = browser[b].session
  BY <1>1 DEF BrowserOK
<1>3. PICK at \in Time : at = browser[b].at
  BY <1>1 DEF BrowserOK
<1>4. Approved(s) /\ issued[s] = 1 /\ Known(s) /\ session[s] \in SessionRecord
  BY <1>1, <1>2 DEF BrowserOK, Approved, Known, Typed
<1>5. /\ session' \in [Session -> {None} \cup SessionRecord]
      /\ \A t \in Session \ {s} : session'[t] = session[t]
      /\ \A t \in Session : Known(t)' <=> Known(t)
      /\ \A t \in Session : Approved(t) => Approved(t)'
  <2>1. CASE session' = session
    BY <1>1, <2>1 DEF Typed, Known, Approved
  <2>2. CASE session' # session
    <3> DEFINE r == [[session[s] EXCEPT !.authorized = at] EXCEPT !.expires = at + SessionLife]
    <3>1. r \in SessionRecord /\ r.approved = session[s].approved
      BY <1>4, Authorization
    <3>2. session' = [session EXCEPT ![s].authorized = at, ![s].expires = at + SessionLife]
      BY <1>2, <1>3, <2>2 DEF MarkAuthorized
    <3>3. session' = [session EXCEPT ![s] = r]
      BY <1>1, <3>2 DEF Typed
    <3> HIDE DEF r
    <3> QED
      BY <1>1, <1>4, <3>1, <3>3, SessionWritten
  <2> QED
    BY <2>1, <2>2
<1>6. /\ Typed' /\ browser'[b].step = "idle"
      /\ \A e \in Browsers \ {b} : browser'[e] = browser[e]
  BY <1>1, <1>5, IdleHandlers DEF Typed, Done
<1>7. /\ \A e \in Devices, t \in Session : Publishing(e, t)' => Publishing(e, t)
      /\ \A e \in Browsers, t \in Session : Consumed(e, t)' => Consumed(e, t)
  BY <1>1, <1>6 DEF Publishing, Consumed
<1>8. \A t \in Session : TokenOK(t)'
  BY <1>1, <1>4, <1>5, <1>7, TokensKept
<1>9. \A e \in Browsers : BrowserOK(e)'
  BY <1>1, <1>5, <1>6 DEF Inv, BrowserOK
<1> QED
  BY <1>1, <1>5, <1>6, <1>8, <1>9 DEF Inv, DeviceOK, CallOK
-----------------------------------------------------------------------------
(* MCP calls, the alarm and the clock *)

LEMMA CallKeeps ==
    ASSUME Inv, NEW c \in Calls,
           BeginCall(c) \/ ObserveAccess(c) \/ ClaimRelay(c) \/ StopCall(c)
    PROVE  Inv'
<1>1. Typed /\ call[c] \in Call /\ CallOK(c)
  BY DEF Inv, Typed
<1>2. UNCHANGED <<now, session, pair, grants, device, browser, local, issued>>
  BY DEF BeginCall, ObserveAccess, ClaimRelay, StopCall, directory, history
<1>3. CASE call' = [call EXCEPT ![c] = Idle]
  BY <1>1, <1>2, <1>3, IdleHandlers, CallStep
<1>4. CASE BeginCall(c)
  <2>1. PICK s \in Session, at \in Time :
          call' = [call EXCEPT ![c] = [Idle EXCEPT !.step = "checked",
                                         !.session = s, !.at = at]]
    <3>1. PICK g \in grants :
            call' = [call EXCEPT ![c] = [Idle EXCEPT !.step = "checked",
                                           !.session = g.session, !.at = g.at]]
      BY <1>4 DEF BeginCall
    <3>2. g.session \in Session /\ g.at \in Time
      BY <1>1 DEF Typed, Grant
    <3> QED
      BY <3>1, <3>2
  <2> DEFINE x == Begun(s, at)
  <2>2. x \in Call /\ x.step = "checked" /\ x.session = s /\ x.at = at
    BY NewRequests
  <2>3. call' = [call EXCEPT ![c] = x]
    BY <2>1 DEF Begun
  <2> HIDE DEF x
  <2> QED
    BY <1>2, <2>2, <2>3, CallStep
<1>5. ASSUME NEW step \in {"observed", "relayed"}, call[c].step # "idle",
             call' = [call EXCEPT ![c] = [call[c] EXCEPT !.step = step]]
      PROVE  Inv'
  <2> DEFINE x == [call[c] EXCEPT !.step = step]
  <2>1. x \in Call /\ x.session = call[c].session /\ x.at = call[c].at
    BY <1>1 DEF Call
  <2>2. call' = [call EXCEPT ![c] = x]
    BY <1>5
  <2>3. call[c].session \in Session /\ call[c].at \in Time
    BY <1>1, <1>5 DEF CallOK
  <2> HIDE DEF x
  <2> QED
    BY <1>2, <2>1, <2>2, <2>3, CallStep
<1>6. CASE ObserveAccess(c)
  BY <1>3, <1>5, <1>6 DEF ObserveAccess, Step
<1>7. CASE ClaimRelay(c)
  BY <1>3, <1>5, <1>7 DEF ClaimRelay, Step
<1> QED
  BY <1>3, <1>4, <1>6, <1>7 DEF StopCall

LEMMA CleanUpKeeps ==
    ASSUME Inv, CleanUp
    PROVE  Inv'
<1>1. /\ Typed
      /\ pair' = [s \in Session |->
           IF pair[s] # None /\ pair[s].expires <= now THEN None ELSE pair[s]]
      /\ UNCHANGED <<now, session, grants, device, browser, call, local, issued>>
  BY DEF Inv, CleanUp, history
<1>2. Typed' /\ \A s \in Session : pair'[s] # None => pair'[s] = pair[s]
  BY <1>1 DEF Typed
<1>3. \A t \in Session : (Known(t)' <=> Known(t)) /\ (Approved(t)' <=> Approved(t))
  BY <1>1 DEF Known, Approved
<1>4. /\ \A e \in Devices, t \in Session : Publishing(e, t)' => Publishing(e, t)
      /\ \A e \in Browsers, t \in Session : Consumed(e, t)' => Consumed(e, t)
  BY <1>1 DEF Publishing, Consumed
<1>5. \A t \in Session : TokenOK(t)'
  BY <1>1, <1>2, <1>3, <1>4, TokensKept
<1> QED
  BY <1>1, <1>2, <1>3, <1>5 DEF Inv, DeviceOK, BrowserOK, CallOK

LEMMA TickKeeps ==
    ASSUME Inv, Tick
    PROVE  Inv'
<1>1. Typed' /\ UNCHANGED <<session, pair, grants, device, browser, call, local, issued>>
  BY PairingAssumption DEF Inv, Typed, Tick, Time, directory, history
<1> QED
  BY <1>1 DEF Inv, DeviceOK, BrowserOK, CallOK, TokenOK, Publishing, Consumed, Approved, Known
-----------------------------------------------------------------------------
LEMMA InvInit ==
    ASSUME Init
    PROVE  Inv
<1>1. Typed
  <2>1. 1 \in Time /\ 0 \in 0 .. MaxSessions
    BY PairingAssumption DEF Time
  <2> QED
    BY <2>1, IdleHandlers DEF Init, Typed
<1> QED
  BY <1>1, IdleHandlers
     DEF Init, Inv, DeviceOK, BrowserOK, CallOK, TokenOK, Publishing, Consumed, Known

LEMMA InvNext ==
    ASSUME Inv, [Next]_vars
    PROVE  Inv'
<1>1. CASE UNCHANGED vars
  BY <1>1 DEF vars, directory, history, Inv, Typed, DeviceOK, BrowserOK, CallOK, TokenOK,
              Publishing, Consumed, Approved, Known
<1> QED
  BY <1>1, DeviceQuiet, RegisterKeeps, PublishKeeps, ApproveKeeps, CodeKeeps, BrowserQuiet,
     AuthorizeKeeps, CompleteKeeps, MarkKeeps, CallKeeps, CleanUpKeeps, TickKeeps DEF Next

LEMMA InvAlways == Spec => []Inv
BY InvInit, InvNext, PTL DEF Spec

\* One approved code makes one grant at most, whatever handler dies and in
\* whatever order forms, approvals and revocations arrive (handleAuthorize,
\* PairingDirectory.authorize, DeviceSession.markAuthorized).
THEOREM OneGrantPerApproval == Spec => []GrantPerApproval
<1>1. ASSUME Inv
      PROVE  GrantPerApproval
  BY <1>1 DEF Inv, TokenOK, GrantPerApproval, Approved
<1> QED
  BY <1>1, InvAlways, PTL

\* A call is relayed only under the live pairing its own grant authorized
\* (claimRelay checks again what was checked before).
THEOREM RelaysAreAuthorized == Spec => RelayedWhilePaired
<1>1. ASSUME Inv, [Next]_vars, NEW c \in Calls, call[c].step # "relayed",
             call'[c].step = "relayed"
      PROVE  LET s == call[c].session
             IN /\ Active(s) /\ session[s].approved
                /\ session[s].authorized = call[c].at
  <2>1. ClaimRelay(c) /\ Authorized(c)
    <3>1. call' # call
      BY <1>1
    <3>2. PICK e \in Calls :
            BeginCall(e) \/ ObserveAccess(e) \/ ClaimRelay(e) \/ StopCall(e)
      BY <1>1, <3>1
         DEF Next, vars, StartRegistration, RevokeListed, EndListed, RegisterSession,
             PublishCode, ApproveSession, ApproveCode, RevokeSession, WithdrawCode,
             ListGrants, StopDevice, Submit, AuthorizeCode, CheckSession,
             CompleteAuthorization, MarkAuthorized, StopBrowser, CleanUp, Tick
    <3>3. /\ call \in [Calls -> Call] /\ Idle.step = "idle"
          /\ \A g \in grants : [Idle EXCEPT !.step = "checked", !.session = g.session,
                                            !.at = g.at].step = "checked"
      BY <1>1 DEF Inv, Typed, Idle
    <3>4. e = c
      BY <1>1, <3>2, <3>3 DEF BeginCall, ObserveAccess, ClaimRelay, StopCall
    <3>5. ~BeginCall(c) /\ ~StopCall(c)
      BY <1>1, <3>3 DEF BeginCall, StopCall
    <3>6. ~ObserveAccess(c)
      BY <1>1, <3>3 DEF ObserveAccess, Step, Call
    <3>7. ClaimRelay(c)
      BY <3>2, <3>4, <3>5, <3>6
    <3>8. Authorized(c)
      BY <1>1, <3>3, <3>7 DEF ClaimRelay
    <3> QED
      BY <3>7, <3>8
  <2>2. /\ call[c].session \in Session /\ call[c].at \in Time /\ call[c].at # 0
        /\ Active(call[c].session)
        /\ session[call[c].session].authorized = call[c].at
    BY <1>1, <2>1 DEF Inv, CallOK, ClaimRelay, Authorized, Time
  <2>3. session[call[c].session].approved
    BY <1>1, <2>2 DEF Inv, TokenOK, Active, Approved
  <2> QED
    BY <2>2, <2>3
<1>2. ASSUME Inv, [Next]_vars
      PROVE  \A c \in Calls : call[c].step # "relayed" /\ call'[c].step = "relayed" =>
               LET s == call[c].session
               IN /\ Active(s) /\ session[s].approved
                  /\ session[s].authorized = call[c].at
  BY <1>1, <1>2
<1> QED
  BY <1>2, InvAlways, PTL DEF RelayedWhilePaired, Spec
-----------------------------------------------------------------------------
(* The limit of a source's attempts.  An attempt is in the record, or so    *)
(* old that no submission still under way can count it in its stretch: the  *)
(* record drops it when a clock a window later comes in, or with its expiry,*)
(* and both are at most the delay of a submission early.                    *)

Numbers == 1 .. Len(admitted)

Remembered(k) == rate # None /\ <<k, admitted[k]>> \in rate.attempts

Stretched(t) == {k \in Numbers : t - Stretch < admitted[k] /\ admitted[k] <= t}

RateTyped ==
    /\ missing \in [Session -> {None} \cup [count : 1 .. MaxFailures, expires : Nat]]
    /\ rate # None => rate \in RateRecord
    /\ alarm \in Nat
    /\ admitted \in Seq(Time)

Punctual ==
    /\ \A k \in Numbers : admitted[k] <= now
    /\ \A b \in Browsers : browser[b].step = "submitting" =>
         browser[b].at <= now /\ now <= browser[b].at + MaxDelay

RecordOK ==
    rate # None =>
        /\ IsFiniteSet(rate.attempts) /\ Cardinality(rate.attempts) <= MaxAttempts
        /\ \A k \in Numbers : admitted[k] + Window <= rate.expires + MaxDelay

Forgotten == \A k \in Numbers : ~Remembered(k) => admitted[k] + Window <= now + MaxDelay

Bounded == \A t \in Time : Cardinality(Stretched(t)) <= MaxAttempts

RateInv == RateTyped /\ Punctual /\ RecordOK /\ Forgotten /\ Bounded

LEMMA LeastNumber ==
    ASSUME NEW S \in SUBSET Nat, S # {}
    PROVE  \E m \in S : \A k \in S : m <= k
<1> DEFINE T == {0 .. k : k \in S}
<1>1. T \subseteq FiniteSubsetsOf(Nat)
  <2> SUFFICES ASSUME NEW k \in S PROVE 0 .. k \in FiniteSubsetsOf(Nat)
    OBVIOUS
  <2>1. IsFiniteSet(0 .. k) /\ 0 .. k \in SUBSET Nat
    BY FS_Interval
  <2> QED
    BY <2>1 DEF FiniteSubsetsOf
<1>2. T # {}
  OBVIOUS
<1>3. \E x \in T : \A y \in T : ~(<<y, x>> \in StrictSubsetOrdering(Nat))
  <2> HIDE DEF T
  <2> QED
    BY <1>1, <1>2, FS_StrictSubsetOrderingWellFounded, WFMin
<1>4. PICK m \in S : \A k \in S : ~(<<0 .. k, 0 .. m>> \in StrictSubsetOrdering(Nat))
  BY <1>3
<1>5. ASSUME NEW k \in S, k < m PROVE FALSE
  <2>1. 0 .. k \subseteq 0 .. m /\ m \in 0 .. m /\ m \notin 0 .. k
    BY <1>5
  <2>2. 0 .. k \in SUBSET Nat /\ 0 .. m \in SUBSET Nat /\ 0 .. k # 0 .. m
    BY <2>1
  <2>3. <<0 .. k, 0 .. m>> \in StrictSubsetOrdering(Nat)
    BY <2>1, <2>2 DEF StrictSubsetOrdering
  <2> QED
    BY <1>4, <2>3
<1> QED
  BY <1>5

LEMMA LeastOfSet ==
    ASSUME NEW S \in SUBSET Nat, S # {}
    PROVE  Min(S) \in S
<1>1. PICK m \in S : \A k \in S : m <= k
  BY LeastNumber
<1> QED
  BY <1>1 DEF Min

LEMMA AdmittedTimes ==
    ASSUME RateTyped
    PROVE  \A k \in Numbers : admitted[k] \in Time /\ admitted[k] \in Nat
<1>1. Time \subseteq Nat
  BY PairingAssumption DEF Time
<1>2. \A k \in Numbers : admitted[k] \in Time
  BY DEF RateTyped, Numbers
<1> QED
  BY <1>1, <1>2

LEMMA ScheduledTime ==
    ASSUME alarm \in Nat, NEW at \in Nat, Schedule(at)
    PROVE  alarm' \in Nat
BY DEF Schedule

\* Steps that leave the record, the attempts and the clock alone, and submit nothing.
LEMMA RateStays ==
    ASSUME RateInv, UNCHANGED <<now, missing, rate, admitted>>, alarm' \in Nat,
           \A b \in Browsers : browser'[b].step = "submitting" => browser'[b] = browser[b]
    PROVE  RateInv'
<1>1. RateTyped' /\ RecordOK' /\ Forgotten' /\ Bounded'
  BY DEF RateInv, RateTyped, RecordOK, Forgotten, Bounded, Remembered, Stretched, Numbers
<1>2. Punctual'
  BY DEF RateInv, Punctual, Numbers
<1> QED
  BY <1>1, <1>2 DEF RateInv

LEMMA RateDevices ==
    ASSUME Inv, RateInv, NEW d \in Devices,
           \/ StartRegistration(d) \/ RevokeListed(d) \/ EndListed(d)
           \/ RegisterSession(d) \/ PublishCode(d) \/ ApproveSession(d) \/ ApproveCode(d)
           \/ RevokeSession(d) \/ WithdrawCode(d) \/ ListGrants(d) \/ StopDevice(d)
    PROVE  RateInv'
<1>1. /\ UNCHANGED <<now, missing, rate, admitted, browser>>
      /\ alarm' = alarm \/ (PublishCode(d) /\ Schedule(device[d].at + CodeLife))
  BY DEF StartRegistration, RevokeListed, EndListed, RegisterSession, PublishCode, ApproveSession,
         ApproveCode, RevokeSession, WithdrawCode, ListGrants, StopDevice, directory, history
<1>2. alarm \in Nat /\ device[d].at + CodeLife \in Nat
  <2>1. device[d].at \in 0 .. MaxTime /\ CodeLife \in Nat /\ MaxTime \in Nat
    BY PairingAssumption DEF Inv, Typed, Device
  <2> QED
    BY <2>1 DEF RateInv, RateTyped
<1> QED
  BY <1>1, <1>2, ScheduledTime, RateStays

LEMMA RateCalls ==
    ASSUME RateInv, NEW c \in Calls,
           BeginCall(c) \/ ObserveAccess(c) \/ ClaimRelay(c) \/ StopCall(c)
    PROVE  RateInv'
<1>1. UNCHANGED <<now, missing, rate, alarm, admitted, browser>>
  BY DEF BeginCall, ObserveAccess, ClaimRelay, StopCall, directory, history
<1> QED
  BY <1>1, RateStays DEF RateInv, RateTyped

LEMMA RateSubmit ==
    ASSUME Inv, RateInv, NEW b \in Browsers, Submit(b)
    PROVE  RateInv'
<1>1. PICK s \in Session :
        browser' = [browser EXCEPT ![b] = [Idle EXCEPT !.step = "submitting",
                                             !.session = s, !.at = now]]
  BY DEF Submit
<1>2. UNCHANGED <<now, missing, rate, alarm, admitted>>
  BY DEF Submit, directory, history
<1>3. RateTyped' /\ RecordOK' /\ Forgotten' /\ Bounded'
  BY <1>2 DEF RateInv, RateTyped, RecordOK, Forgotten, Bounded, Remembered, Stretched, Numbers
<1>4. Punctual'
  <2>1. browser' = [browser EXCEPT ![b] = Submission(s, now)] /\ browser \in [Browsers -> Browser]
    BY <1>1 DEF Inv, Typed, Submission
  <2>2. browser'[b].at = now /\ \A e \in Browsers \ {b} : browser'[e] = browser[e]
    BY <2>1, NewRequests DEF Inv, Typed
  <2>3. now \in Nat /\ MaxDelay \in Nat
    BY PairingAssumption DEF Inv, Typed, Time
  <2> QED
    BY <1>2, <2>2, <2>3 DEF RateInv, Punctual, Numbers
<1> QED
  BY <1>3, <1>4 DEF RateInv

LEMMA RateBrowsers ==
    ASSUME Inv, RateInv, NEW b \in Browsers,
           CheckSession(b) \/ CompleteAuthorization(b) \/ MarkAuthorized(b) \/ StopBrowser(b)
    PROVE  RateInv'
<1>1. UNCHANGED <<now, missing, rate, alarm, admitted>>
  BY DEF CheckSession, CompleteAuthorization, MarkAuthorized, StopBrowser, directory, history
<1>2. \A e \in Browsers : browser'[e].step = "submitting" => browser'[e] = browser[e]
  <2>1. browser \in [Browsers -> Browser] /\ Idle.step # "submitting"
    BY DEF Inv, Typed, Idle
  <2>2. /\ [[browser[b] EXCEPT !.step = "checked"] EXCEPT !.at = now].step = "checked"
        /\ [browser[b] EXCEPT !.step = "granted"].step = "granted"
    BY <2>1 DEF Browser
  <2>3. \A e \in Browsers \ {b} : browser'[e] = browser[e]
    BY <2>1 DEF CheckSession, CompleteAuthorization, MarkAuthorized, StopBrowser, Done
  <2>4. browser'[b].step # "submitting"
    BY <2>1, <2>2 DEF CheckSession, CompleteAuthorization, MarkAuthorized, StopBrowser, Done, Step
  <2> QED
    BY <2>3, <2>4
<1> QED
  BY <1>1, <1>2, RateStays DEF RateInv, RateTyped

LEMMA RateTick ==
    ASSUME Inv, RateInv, Tick
    PROVE  RateInv'
<1>1. /\ UNCHANGED <<missing, rate, alarm, admitted, browser>> /\ now' = now + 1
      /\ \A b \in Browsers : browser[b].step = "submitting" => now - browser[b].at < MaxDelay
  BY DEF Tick, directory, history
<1>2. /\ now \in Nat /\ MaxDelay \in Nat /\ Window \in Nat
      /\ \A k \in Numbers : admitted[k] \in Nat
      /\ \A b \in Browsers : browser[b].at \in Int
  <2>1. now \in Nat /\ MaxDelay \in Nat /\ Window \in Nat /\ MaxTime \in Nat
    BY PairingAssumption DEF Inv, Typed, Time
  <2>2. \A b \in Browsers : browser[b].at \in 0 .. MaxTime
    BY DEF Inv, Typed, Browser
  <2>3. \A b \in Browsers : browser[b].at \in Int
    BY <2>1, <2>2
  <2> QED
    BY <2>1, <2>3, AdmittedTimes DEF RateInv
<1>3. RateTyped' /\ RecordOK' /\ Bounded'
  BY <1>1 DEF RateInv, RateTyped, RecordOK, Bounded, Stretched, Numbers
<1>4. Forgotten'
  BY <1>1, <1>2 DEF RateInv, Forgotten, Remembered, Numbers
<1>5. Punctual'
  BY <1>1, <1>2 DEF RateInv, Punctual, Numbers
<1> QED
  BY <1>3, <1>4, <1>5 DEF RateInv

LEMMA RateCleanUp ==
    ASSUME Inv, RateInv, CleanUp
    PROVE  RateInv'
<1> DEFINE Left(f) == [s \in Session |->
             IF f[s] # None /\ f[s].expires <= now THEN None ELSE f[s]]
           kept == {f \in {Left(pair)[s] : s \in Session}
                          \cup {Left(missing)[s] : s \in Session}
                          \cup {rate} : f # None /\ f.expires > now}
           ends == {f.expires : f \in kept}
<1>1. /\ missing' = Left(missing)
      /\ rate' = IF rate # None /\ rate.expires <= now THEN None ELSE rate
      /\ alarm' = IF kept = {} THEN 0 ELSE Min(ends)
      /\ UNCHANGED <<now, browser, admitted>>
  BY DEF CleanUp, history
<1>2. alarm' \in Nat
  <2>1. ASSUME NEW f \in kept PROVE f.expires \in Nat
    <3>1. CASE f = rate
      BY <3>1 DEF RateInv, RateTyped, RateRecord
    <3>2. CASE f \in {Left(pair)[s] : s \in Session}
      <4>1. f \in CodeRecord
        BY <3>2 DEF Inv, Typed
      <4> QED
        BY <4>1 DEF CodeRecord
    <3>3. CASE f \in {Left(missing)[s] : s \in Session}
      <4>1. f \in [count : 1 .. MaxFailures, expires : Nat]
        BY <3>3 DEF RateInv, RateTyped
      <4> QED
        BY <4>1
    <3> QED
      BY <3>1, <3>2, <3>3
  <2>2. ends \in SUBSET Nat /\ (kept # {} => ends # {})
    BY <2>1
  <2> HIDE DEF kept, ends
  <2>3. kept # {} => Min(ends) \in Nat
    BY <2>2, LeastOfSet
  <2> QED
    BY <1>1, <2>3
<1>3. RateTyped'
  BY <1>1, <1>2 DEF RateInv, RateTyped
<1>4. Punctual' /\ RecordOK' /\ Bounded'
  BY <1>1 DEF RateInv, Punctual, RecordOK, Bounded, Stretched, Numbers
<1>5. Forgotten'
  <2>1. CASE rate' = rate
    BY <1>1, <2>1 DEF RateInv, Forgotten, Remembered, Numbers
  <2>2. CASE rate # None /\ rate.expires <= now
    <3>1. /\ now \in Nat /\ MaxDelay \in Nat /\ Window \in Nat /\ rate.expires \in Nat
          /\ \A k \in Numbers : admitted[k] \in Nat
      <4>1. now \in Nat /\ MaxDelay \in Nat /\ Window \in Nat
        BY PairingAssumption DEF Inv, Typed, Time
      <4>2. rate.expires \in Nat
        BY <2>2 DEF RateInv, RateTyped, RateRecord
      <4>3. \A k \in Numbers : admitted[k] \in Nat
        BY AdmittedTimes DEF RateInv
      <4> QED
        BY <4>1, <4>2, <4>3
    <3>2. \A k \in Numbers : admitted[k] + Window <= now + MaxDelay
      BY <2>2, <3>1 DEF RateInv, RecordOK
    <3> QED
      BY <1>1, <3>2 DEF Forgotten, Numbers
  <2> QED
    BY <1>1, <2>1, <2>2
<1> QED
  BY <1>3, <1>4, <1>5 DEF RateInv

\* An attempt that lies in the stretch of a submission is still in the record, and recent.
LEMMA StillRecent ==
    ASSUME RateInv, now \in Nat, NEW at \in Time, now <= at + MaxDelay, NEW t \in Time, at <= t,
           NEW k \in Stretched(t)
    PROVE  <<k, admitted[k]>> \in Recent(at)
<1>1. k \in Numbers /\ t - Stretch < admitted[k]
  BY DEF Stretched
<1>2. /\ at \in Nat /\ t \in Nat /\ MaxDelay \in Nat /\ Window \in Nat
  BY PairingAssumption DEF Time
<1>3. admitted[k] \in Nat
  BY <1>1, AdmittedTimes DEF RateInv
<1>4. admitted[k] + Window > t + MaxDelay + MaxDelay
  BY <1>1, <1>2, <1>3 DEF Stretch
<1>5. Remembered(k)
  BY <1>1, <1>2, <1>3, <1>4 DEF RateInv, Forgotten
<1>6. at - admitted[k] < Window
  BY <1>2, <1>3, <1>4
<1> QED
  BY <1>5, <1>6 DEF Remembered, Recent

LEMMA FewRecent ==
    ASSUME RateInv, NEW at \in Time
    PROVE  IsFiniteSet(Recent(at)) /\ Recent(at) \in SUBSET ((Nat \ {0}) \X Time)
<1>1. CASE rate = None
  BY <1>1, FS_EmptySet DEF Recent
<1>2. CASE rate # None
  <2>1. IsFiniteSet(rate.attempts) /\ rate.attempts \in SUBSET ((Nat \ {0}) \X Time)
    BY <1>2 DEF RateInv, RecordOK, RateTyped, RateRecord
  <2>2. Recent(at) \in SUBSET rate.attempts
    BY <1>2 DEF Recent
  <2> QED
    BY <2>1, <2>2, FS_Subset
<1> QED
  BY <1>1, <1>2

\* One more attempt that is within the limit leaves every stretch within it.
LEMMA AttemptWithin ==
    ASSUME RateInv, now \in Nat, NEW at \in Time, now <= at + MaxDelay,
           ~Limited(at), admitted' = Append(admitted, at)
    PROVE  Bounded'
<1> DEFINE n == Len(admitted) + 1
<1>1. /\ admitted \in Seq(Time) /\ MaxAttempts \in Nat
      /\ Numbers' = Numbers \cup {n} /\ n \notin Numbers /\ admitted'[n] = at
      /\ \A k \in Numbers : admitted'[k] = admitted[k]
  BY PairingAssumption DEF RateInv, RateTyped, Numbers
<1> SUFFICES ASSUME NEW t \in Time PROVE Cardinality(Stretched(t)') <= MaxAttempts
  BY DEF Bounded
<1>2. IsFiniteSet(Stretched(t)) /\ Cardinality(Stretched(t)) \in Nat
  <2>1. IsFiniteSet(Numbers) /\ Stretched(t) \in SUBSET Numbers
    BY <1>1, FS_Interval DEF Numbers, Stretched
  <2> QED
    BY <2>1, FS_Subset, FS_CardinalityType
<1>3. CASE at <= t
  <2> DEFINE f == [k \in Stretched(t) |-> <<k, admitted[k]>>]
  <2>1. f \in Injection(Stretched(t), Recent(at))
    <3>1. f \in [Stretched(t) -> Recent(at)]
      BY <1>3, StillRecent
    <3> QED
      BY <3>1 DEF Injection, IsInjective
  <2>2. IsFiniteSet(Recent(at)) /\ Cardinality(Recent(at)) \in Nat
    BY FewRecent, FS_CardinalityType
  <2>3. Cardinality(Stretched(t)) <= Cardinality(Recent(at))
    <3> HIDE DEF f
    <3> QED
      BY <2>1, <2>2, FS_Injection
  <2>4. Cardinality(Stretched(t)) + 1 <= MaxAttempts
    BY <1>1, <1>2, <2>2, <2>3 DEF Limited
  <2>5. Stretched(t)' = Stretched(t) \/ Stretched(t)' = Stretched(t) \cup {n}
    BY <1>1 DEF Stretched
  <2>6. n \notin Stretched(t)
    BY <1>1 DEF Stretched
  <2> HIDE DEF n
  <2>7. Cardinality(Stretched(t) \cup {n}) = Cardinality(Stretched(t)) + 1
    BY <1>2, <2>6, FS_AddElement
  <2>8. CASE Stretched(t)' = Stretched(t)
    BY <1>1, <1>2, <2>4, <2>8
  <2>9. CASE Stretched(t)' = Stretched(t) \cup {n}
    BY <2>4, <2>7, <2>9
  <2> QED
    BY <2>5, <2>8, <2>9
<1>4. CASE ~(at <= t)
  <2>1. Stretched(t)' = Stretched(t)
    BY <1>1, <1>4 DEF Stretched
  <2> QED
    BY <2>1 DEF RateInv, Bounded
<1> QED
  BY <1>3, <1>4

\* The record after the attempt.
LEMMA AttemptRecorded ==
    ASSUME RateInv, now \in Time, NEW at \in Time, at <= now, now <= at + MaxDelay, ~Limited(at),
           rate' = Counted(at), admitted' = Append(admitted, at), now' = now
    PROVE  /\ rate' \in RateRecord /\ admitted' \in Seq(Time)
           /\ (\A k \in Numbers : admitted[k] <= now)'
           /\ RecordOK' /\ Forgotten'
<1> DEFINE n == Len(admitted) + 1
<1>1. /\ admitted \in Seq(Time) /\ n \in Nat \ {0}
      /\ Numbers' = Numbers \cup {n} /\ n \notin Numbers /\ admitted'[n] = at
      /\ \A k \in Numbers : admitted'[k] = admitted[k]
  BY DEF RateInv, RateTyped, Numbers
<1>2. /\ now \in Nat /\ at \in Nat /\ MaxDelay \in Nat /\ Window \in Nat /\ MaxAttempts \in Nat
      /\ \A k \in Numbers : admitted[k] \in Nat
  <2>1. Time \subseteq Nat /\ MaxDelay \in Nat /\ Window \in Nat /\ MaxAttempts \in Nat
    BY PairingAssumption DEF Time
  <2> QED
    BY <2>1, AdmittedTimes DEF RateInv
<1>3. IsFiniteSet(Recent(at)) /\ Recent(at) \in SUBSET ((Nat \ {0}) \X Time)
  BY FewRecent
<1>4. /\ rate'.attempts = Recent(at) \cup {<<n, at>>} /\ rate'.expires = at + Window
      /\ rate' = [attempts |-> Recent(at) \cup {<<n, at>>}, expires |-> at + Window]
  BY DEF Counted, Attempts
<1>5. rate' \in RateRecord
  <2>1. rate'.attempts \in SUBSET ((Nat \ {0}) \X Time) /\ at + Window \in Nat
    BY <1>1, <1>2, <1>3, <1>4
  <2> QED
    BY <1>4, <2>1 DEF RateRecord
<1>6. rate' # None
  BY <1>5, PairingAssumption
<1>7. (\A k \in Numbers : admitted[k] <= now)' /\ admitted' \in Seq(Time)
  <2>1. \A k \in Numbers : admitted[k] <= now
    BY DEF RateInv, Punctual
  <2>2. \A k \in Numbers' : admitted'[k] <= now
    BY <1>1, <2>1
  <2>3. admitted' \in Seq(Time)
    BY <1>1
  <2> QED
    BY <2>2, <2>3
<1>8. IsFiniteSet(rate'.attempts) /\ Cardinality(rate'.attempts) <= MaxAttempts
  <2>1. Cardinality(Recent(at)) \in Nat /\ Cardinality(Recent(at)) < MaxAttempts
    BY <1>2, <1>3, FS_CardinalityType DEF Limited
  <2> DEFINE a == <<n, at>>
             S == Recent(at)
  <2> HIDE DEF a, S
  <2>2. /\ IsFiniteSet(S \cup {a})
        /\ Cardinality(S \cup {a}) = IF a \in S THEN Cardinality(S) ELSE Cardinality(S) + 1
    BY <1>3, FS_AddElement DEF S
  <2>3. Cardinality(S) \in Nat /\ Cardinality(S) < MaxAttempts
    BY <2>1 DEF S
  <2>4. Cardinality(S \cup {a}) <= MaxAttempts
    BY <1>2, <2>2, <2>3
  <2> QED
    BY <1>4, <2>2, <2>4 DEF S, a
<1>9. RecordOK'
  <2>1. ASSUME NEW k \in Numbers' PROVE admitted'[k] + Window <= at + Window + MaxDelay
    <3> DEFINE m == admitted'[k]
    <3>1. m <= now /\ m \in Nat
      BY <1>1, <1>2, <1>7
    <3> HIDE DEF m
    <3>2. m + Window <= at + Window + MaxDelay
      BY <1>2, <3>1
    <3> QED
      BY <3>2 DEF m
  <2>2. \A k \in Numbers' : admitted'[k] + Window <= rate'.expires + MaxDelay
    BY <1>4, <2>1
  <2> QED
    BY <1>8, <2>2 DEF RecordOK
<1>10. Forgotten'
  <2> SUFFICES ASSUME NEW k \in Numbers', ~Remembered(k)'
               PROVE  admitted'[k] + Window <= now + MaxDelay
    BY DEF Forgotten
  <2>1. k \in Numbers /\ admitted'[k] = admitted[k] /\ admitted[k] \in Nat
    <3>1. k # n
      BY <1>1, <1>4, <1>6 DEF Remembered
    <3> QED
      BY <1>1, <1>2, <3>1
  <2>2. <<k, admitted[k]>> \notin Recent(at)
    BY <1>4, <1>6, <2>1 DEF Remembered
  <2>3. CASE Remembered(k)
    <3>1. ~(at - admitted[k] < Window)
      BY <2>2, <2>3 DEF Remembered, Recent
    <3> QED
      BY <1>2, <2>1, <3>1
  <2>4. CASE ~Remembered(k)
    BY <2>1, <2>4 DEF RateInv, Forgotten
  <2> QED
    BY <2>3, <2>4
<1> QED
  BY <1>5, <1>7, <1>9, <1>10

LEMMA MissingCounted ==
    ASSUME RateTyped, NEW b \in Browsers, NEW s \in Session, NEW at \in Time,
           CodeUnknown(b, s, at)
    PROVE  missing' \in [Session -> {None} \cup [count : 1 .. MaxFailures, expires : Nat]]
<1> DEFINE x == Failures(s, at)
           y == [x EXCEPT !.count = x.count + 1]
<1>1. MaxFailures \in Nat \ {0} /\ at + Window \in Nat
  BY PairingAssumption DEF Time
<1>2. x \in [count : 0 .. MaxFailures, expires : Nat]
  <2>1. CASE missing[s] = None \/ missing[s].expires <= at
    BY <1>1, <2>1 DEF Failures
  <2>2. CASE ~(missing[s] = None \/ missing[s].expires <= at)
    <3>1. missing[s] \in [count : 1 .. MaxFailures, expires : Nat]
      BY <2>2 DEF RateTyped
    <3> QED
      BY <1>1, <2>2, <3>1 DEF Failures
  <2> QED
    BY <2>1, <2>2
<1>3. missing' = missing \/ (~(x.count >= MaxFailures) /\ missing' = [missing EXCEPT ![s] = y])
  BY DEF CodeUnknown
<1> HIDE DEF x
<1>4. ~(x.count >= MaxFailures) => y \in [count : 1 .. MaxFailures, expires : Nat]
  BY <1>1, <1>2
<1> HIDE DEF y
<1> QED
  BY <1>3, <1>4 DEF RateTyped

LEMMA RateAuthorize ==
    ASSUME Inv, RateInv, NEW b \in Browsers, AuthorizeCode(b)
    PROVE  RateInv'
<1>1. /\ now' = now /\ now \in Time /\ browser \in [Browsers -> Browser]
      /\ browser[b].step = "submitting"
  BY DEF Inv, Typed, AuthorizeCode
<1>2. PICK s \in Session, at \in Time : s = browser[b].session /\ at = browser[b].at
  BY <1>1 DEF Inv, BrowserOK
<1>3. now \in Nat /\ at \in Nat /\ at <= now /\ now <= at + MaxDelay
  BY <1>1, <1>2, PairingAssumption DEF RateInv, Punctual, Time
<1>4. alarm' \in Nat
  <2>1. at + Window \in Nat /\ alarm \in Nat
    BY <1>3, PairingAssumption DEF RateInv, RateTyped
  <2>2. Schedule(at + Window)
    BY <1>2 DEF AuthorizeCode
  <2> QED
    BY <2>1, <2>2, ScheduledTime
<1>5. \A e \in Browsers : browser'[e].step = "submitting" => browser'[e] = browser[e]
  <2>1. \/ Done(b)
        \/ browser' = [browser EXCEPT ![b] = Step(browser[b], "consumed")]
    BY DEF AuthorizeCode, CodeUnknown, CodeRefused, CodeConsumed
  <2>2. /\ Idle.step # "submitting" /\ Step(browser[b], "consumed").step = "consumed"
    BY <1>1 DEF Idle, Step, Browser
  <2>3. CASE Done(b)
    BY <1>1, <2>2, <2>3 DEF Done
  <2>4. CASE browser' = [browser EXCEPT ![b] = Step(browser[b], "consumed")]
    BY <1>1, <2>2, <2>4
  <2> QED
    BY <2>1, <2>3, <2>4
<1>6. CASE Limited(at)
  <2>1. UNCHANGED <<now, missing, rate, admitted>>
    BY <1>1, <1>2, <1>6 DEF AuthorizeCode
  <2> QED
    BY <1>4, <1>5, <2>1, RateStays
<1>7. CASE ~Limited(at)
  <2>1. /\ rate' = Counted(at) /\ admitted' = Append(admitted, at)
        /\ CodeUnknown(b, s, at) \/ missing' = missing
    BY <1>2, <1>7 DEF AuthorizeCode, CodeRefused, CodeConsumed
  <2>2. missing' \in [Session -> {None} \cup [count : 1 .. MaxFailures, expires : Nat]]
    BY <2>1, MissingCounted DEF RateInv, RateTyped
  <2>3. /\ rate' \in RateRecord /\ admitted' \in Seq(Time)
        /\ (\A k \in Numbers : admitted[k] <= now)'
        /\ RecordOK' /\ Forgotten'
    BY <1>1, <1>3, <1>7, <2>1, AttemptRecorded
  <2>4. Bounded'
    BY <1>3, <1>7, <2>1, AttemptWithin
  <2>5. Punctual'
    BY <1>1, <1>5, <2>3 DEF RateInv, Punctual
  <2> QED
    BY <1>4, <2>2, <2>3, <2>4, <2>5 DEF RateInv, RateTyped
<1> QED
  BY <1>6, <1>7
-----------------------------------------------------------------------------
LEMMA RateInit ==
    ASSUME Init
    PROVE  RateInv
<1>1. Numbers = {} /\ rate = None /\ alarm = 0 /\ admitted \in Seq(Time)
  BY DEF Init, Numbers
<1>2. RateTyped
  BY <1>1 DEF Init, RateTyped
<1>3. Bounded
  BY <1>1, FS_EmptySet, PairingAssumption DEF Bounded, Stretched
<1> QED
  BY <1>1, <1>2, <1>3, IdleHandlers DEF Init, RateInv, Punctual, RecordOK, Forgotten

LEMMA RateNext ==
    ASSUME Inv, RateInv, [Next]_vars
    PROVE  RateInv'
<1>1. CASE UNCHANGED vars
  <2>1. UNCHANGED <<now, missing, rate, alarm, admitted, browser>>
    BY <1>1 DEF vars, directory, history
  <2> QED
    BY <2>1, RateStays DEF RateInv, RateTyped
<1> QED
  BY <1>1, RateDevices, RateSubmit, RateAuthorize, RateBrowsers, RateCalls, RateCleanUp, RateTick
     DEF Next

\* Nobody tries more codes from one source than the limit allows, in any stretch of the window
\* less twice a submission's delay, whatever order the submissions' clocks come in and whenever
\* the alarm cleans up (PairingDirectory.authorize, alarm).
THEOREM AttemptsAreBounded == Spec => []AttemptsBounded
<1>1. Init => Inv /\ RateInv
  BY InvInit, RateInit
<1>2. Inv /\ RateInv /\ [Next]_vars => Inv' /\ RateInv'
  BY InvNext, RateNext
<1>3. ASSUME Inv, RateInv
      PROVE  AttemptsBounded
  <2>1. TypeOK
    BY <1>3 DEF Inv, Typed, RateInv, RateTyped, RecordOK, TypeOK, TokenOK, Approved
  <2>2. \A t \in Time : Stretched(t) = {k \in 1 .. Len(admitted) :
                                          t - Stretch < admitted[k] /\ admitted[k] <= t}
    BY DEF Stretched, Numbers
  <2> QED
    BY <1>3, <2>1, <2>2 DEF AttemptsBounded, RateInv, Bounded
<1> QED
  BY <1>1, <1>2, <1>3, PTL DEF Spec
=============================================================================
