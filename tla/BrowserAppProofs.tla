-------------------------- MODULE BrowserAppProofs --------------------------
(***************************************************************************)
(* The safety properties of the parts of a frontend-mode application that  *)
(* run in the browser, for every value of their constants.  Each part has  *)
(* its inductive invariant, a lemma that every step keeps it and a theorem *)
(* that states the property the runs check.                                *)
(***************************************************************************)
EXTENDS ConfigSources, FrontendDiscovery, FrontendHost, PageResume, SessionContext,
        Signals, FrameworkAdapters, TLAPS

-----------------------------------------------------------------------------
(* The session context *)

UserInfoStates == {"none", "sent", "principal", "unauthorized", "malformed", "failed"}
LogoutStates == {"idle", "sent", "ok", "failed", "cleared"}

(* A call is in flight: the refresh, or one of the logouts.                *)
CallInFlight == refreshPromise # "none" \/ \E l \in Logouts : logouts[l] # "idle"

(* The controller of a page that was not disposed shows "loading" only     *)
(* while a call is in flight, on the page and away from it, and keeps a    *)
(* session only while it is signed in or asks again.                       *)
SessionIInv ==
    /\ controller \in [status : Statuses, session : BOOLEAN]
    /\ refreshPromise \in UserInfoStates
    /\ logouts \in [Logouts -> LogoutStates]
    /\ controllerDisposed \in BOOLEAN
    /\ ~controllerDisposed =>
         /\ controller.status = "loading" => CallInFlight
         /\ controller.session => controller.status \in {"authenticated", "loading"}

(* Every step of the page, of the server and of a login keeps it.          *)
LEMMA SessionStep == SessionIInv /\ [SessionNext]_sessionVars => SessionIInv'
<1> SUFFICES ASSUME SessionIInv, [SessionNext]_sessionVars PROVE SessionIInv'
  BY Zenon
<1> USE DEF SessionIInv, CallInFlight, Statuses, State
<1>1. CASE refresh
  BY Zenon, <1>1 DEF refresh, UserInfoStates
<1>2. CASE ServeUserInfo
  BY Zenon, <1>2 DEF ServeUserInfo, UserInfoAnswers, UserInfoStates
<1>3. CASE UserInfoArrives
  BY Zenon, <1>3 DEF UserInfoArrives, RefreshOutcome, UserInfoStates, fetchUserInfo, normalizeSessionInfo
<1>4. CASE disposeController
  BY Zenon, <1>4 DEF disposeController
<1>5. ASSUME NEW l \in Logouts, logout(l) PROVE SessionIInv'
  BY Zenon, <1>5 DEF logout, LogoutStates
<1>6. ASSUME NEW l \in Logouts, ServeLogout(l) PROVE SessionIInv'
  BY Zenon, <1>6 DEF ServeLogout, LogoutStates
<1>7. ASSUME NEW l \in Logouts, LogoutReturns(l) PROVE SessionIInv'
  BY Zenon, <1>7 DEF LogoutReturns, LogoutOutcome, LogoutStates
<1>8. ASSUME NEW l \in Logouts, logoutAndClearPendingLoginRedirect(l) PROVE SessionIInv'
  BY Zenon, <1>8 DEF logoutAndClearPendingLoginRedirect, LogoutStates
<1>9. CASE UNCHANGED <<controller, refreshPromise, logouts, controllerDisposed>>
  BY Zenon, <1>9
<1>10. CASE ReturnFromLogin
  BY <1>10, Zenon DEF ReturnFromLogin, Loaded, UserInfoStates, LogoutStates
<1> QED
  BY <1>1, <1>2, <1>3, <1>4, <1>5, <1>6, <1>7, <1>8, <1>9, <1>10, Zenon
  DEF SessionNext, sessionVars, savePendingLoginRedirect, loginWithRedirect,
      clearPendingLoginRedirect, resolveLoginUrl, SessionExpires

(* For any number of overlapping logouts, with a refresh, a dispose and    *)
(* the end of the session at the server: SessionContextController is never *)
(* left showing "loading" once its calls have returned, and shows no       *)
(* session to a signed-out host.                                           *)
THEOREM SessionNeverLeftLoading == SessionSpec => []NeverLeftLoading
<1>1. SessionInit => SessionIInv
  <2> SUFFICES ASSUME SessionInit PROVE SessionIInv
    BY Zenon
  <2>1. controller = [status |-> "idle", session |-> FALSE] /\ controllerDisposed = FALSE
    BY Zenon DEF SessionInit, Loaded, State
  <2>2. refreshPromise \in UserInfoStates /\ logouts \in [Logouts -> LogoutStates]
    BY Zenon DEF SessionInit, UserInfoStates, LogoutStates
  <2> QED BY <2>1, <2>2, Zenon DEF SessionIInv, Statuses
<1>2. SessionIInv => NeverLeftLoading
  BY Zenon DEF SessionIInv, CallInFlight, NeverLeftLoading, useSessionContext, SessionContextService, Statuses
<1> QED BY <1>1, <1>2, SessionStep, PTL DEF SessionSpec

-----------------------------------------------------------------------------
(* Discovery *)

(* Any number of calls may discover at once, and the interval among them:  *)
(* a live client that knows its provider from a discovery document goes on *)
(* looking for it, and what it uses is its own issuer with the endpoints   *)
(* its configuration names.                                                *)
THEOREM DiscoveryKeptUp == DiscoverySpec => []DiscoveryIsKeptUp
<1>1. DiscoveryInit => DiscoveryIsKeptUp
  BY Zenon DEF DiscoveryInit, DiscoveryIsKeptUp
<1>2. DiscoveryIsKeptUp /\ [DiscoveryNext]_discoveryVars => DiscoveryIsKeptUp'
  <2> SUFFICES ASSUME DiscoveryIsKeptUp, [DiscoveryNext]_discoveryVars PROVE DiscoveryIsKeptUp'
    BY Zenon
  <2> USE DEF DiscoveryIsKeptUp, _constructManualAuthServer, Unknown
  <2>1. ASSUME NEW call \in DiscoveryCalls, _ensureAuthServer(call) PROVE DiscoveryIsKeptUp'
    <3>1. CASE UNCHANGED authServer
      BY Zenon, <2>1, <3>1 DEF _ensureAuthServer
    <3>2. CASE authServer' = [issuer |-> ConfiguredIssuer, endpoints |-> configured]
      <4>1. ConfiguredIssuer \in buildIssuerDiscoveryCandidates(ConfiguredIssuer)
        BY Zenon DEF buildIssuerDiscoveryCandidates
      <4> QED BY Zenon, <2>1, <3>2, <4>1 DEF _ensureAuthServer
    <3> QED BY <2>1, <3>1, <3>2, Zenon DEF _ensureAuthServer
  <2>2. ASSUME NEW call, NEW published \in PublishedEndpoints, NEW issuer \in PublishedIssuers,
               DiscoveryAnswers(call, published, issuer)
        PROVE DiscoveryIsKeptUp'
    <3>1. issuer \in buildIssuerDiscoveryCandidates(ConfiguredIssuer)
      BY <2>2, Zenon DEF DiscoveryAnswers, resolveDiscoveryIssuerCompatibility, buildIssuerDiscoveryCandidates
    <3> QED BY Zenon, <2>2, <3>1 DEF DiscoveryAnswers, _applyEndpointOverrides
  <2>3. CASE UNCHANGED <<configured, authServer, metadataRefresh, clientDisposed>>
    BY Zenon, <2>3
  <2>4. CASE _cancelMetadataRefresh
    BY Zenon, <2>4 DEF _cancelMetadataRefresh
  <2> QED
    BY <2>1, <2>2, <2>3, <2>4, Zenon
    DEF DiscoveryNext, discoveryVars, discover, DiscoveryFails, _scheduleMetadataRefresh
<1> QED BY <1>1, <1>2, PTL DEF DiscoverySpec

-----------------------------------------------------------------------------
(* Resumed pages *)

(* The reconciler's memory of its last trigger is the time of the last     *)
(* check, or it is still 0 and a whole throttle window lies behind.        *)
ResumeIInv ==
    /\ resumeClock \in Int /\ resumeClock >= ThrottleMs
    /\ lastReconcileAt \in Int /\ lastCheck \in Int
    /\ lastCheck = lastReconcileAt \/ lastReconcileAt = 0
    /\ unchecked = FALSE

(* A trigger is checked now, or a check was made within the window.        *)
LEMMA TriggerIsChecked ==
    ASSUME ResumeIInv, NEW event, Trigger(event), UNCHANGED resumeClock
    PROVE ResumeIInv'
<1>1. CASE resumeClock - lastReconcileAt < ThrottleMs
  <2>1. UNCHANGED <<lastReconcileAt, lastCheck>>
    BY Zenon, <1>1 DEF Trigger, reconcile
  <2>2. lastCheck' > resumeClock - ThrottleMs
    BY <1>1, <2>1, ResumeAssumption DEF ResumeIInv
  <2> QED BY <2>1, <2>2, Zenon DEF Trigger, ResumeIInv
<1>2. CASE ~(resumeClock - lastReconcileAt < ThrottleMs)
  BY <1>2, Zenon DEF Trigger, reconcile, onReconcile, ResumeIInv
<1> QED BY Zenon, <1>1, <1>2

(* Whatever the throttle window is and however visibilitychange, pageshow, *)
(* focus and online events follow each other, a trigger is dropped only if *)
(* the tokens were checked less than the window before it.                 *)
THEOREM ResumedPageChecked == ResumeSpec => []ResumedPageIsChecked
<1>1. ResumeInit => ResumeIInv
  BY ResumeAssumption DEF ResumeInit, ResumeIInv
<1>2. ResumeIInv /\ [ResumeNext]_resumeVars => ResumeIInv'
  <2> SUFFICES ASSUME ResumeIInv, [ResumeNext]_resumeVars PROVE ResumeIInv'
    BY Zenon
  <2>1. ASSUME NEW event \in listensTo, WindowEvent(event) PROVE ResumeIInv'
    BY Zenon, <2>1, TriggerIsChecked DEF WindowEvent
  <2>2. CASE VisibilityChange
    <3>1. CASE Trigger("visibility")
      BY Zenon, <2>2, <3>1, TriggerIsChecked DEF VisibilityChange
    <3>2. CASE UNCHANGED <<lastReconcileAt, lastCheck, unchecked>>
      BY Zenon, <2>2, <3>2 DEF VisibilityChange, ResumeIInv
    <3> QED BY Zenon, <2>2, <3>1, <3>2 DEF VisibilityChange
  <2>3. CASE UNCHANGED <<resumeClock, lastReconcileAt, lastCheck, unchecked>>
    BY Zenon, <2>3 DEF ResumeIInv
  <2>4. CASE ResumeTick
    BY <2>4, ResumeAssumption DEF ResumeTick, ResumeIInv
  <2> QED
    BY <2>1, <2>2, <2>3, <2>4, Zenon
    DEF ResumeNext, resumeVars, attachTokenSetResumeReconciliation, RefreshAnswers, ClientDispose
<1>3. ResumeIInv => ResumedPageIsChecked
  BY Zenon DEF ResumeIInv, ResumedPageIsChecked
<1> QED BY <1>1, <1>2, <1>3, PTL DEF ResumeSpec

-----------------------------------------------------------------------------
(* The framework adapters *)

(* An object that was made is on screen with one mount, is disposed, or is *)
(* abandoned with its disposal check still in the queue.  The checks are   *)
(* about objects that were made.                                           *)
AdapterIInv ==
    /\ made \in Nat /\ rendered \in 0 .. made
    /\ 1 .. made \subseteq Managed
    /\ mounts \in [Managed -> Int]
    /\ \A o \in Managed : mounts[o] = IF o = rendered THEN 1 ELSE 0
    /\ microtasks \in Seq(1 .. made)
    /\ gone \subseteq (1 .. made) \ {rendered}
    /\ \A o \in 1 .. made : o # rendered /\ o \notin gone =>
          \E i \in DOMAIN microtasks : microtasks[i] = o
    /\ callbackPage \in [url : {"none", "callback", "other"}, shown : BOOLEAN, told : {0, 1},
                         attempt : {"none", "idle", "pending", "resolved", "error"}]

(* Short queues of checks.                                                 *)
LEMMA ShortQueues ==
    ASSUME NEW S, NEW a \in S, NEW b \in S
    PROVE /\ <<>> \in Seq(S) /\ <<a>> \in Seq(S) /\ <<a, b>> \in Seq(S)
          /\ 1 \in DOMAIN <<a>> /\ <<a>>[1] = a
          /\ 1 \in DOMAIN <<a, b>> /\ <<a, b>>[1] = a
  BY SMTT(30)

(* Who waits in a queue behind its head waits in what is left of it.       *)
LEMMA WaitsInTail ==
    ASSUME NEW S, NEW q \in Seq(S), NEW i \in DOMAIN q, q[i] # Head(q)
    PROVE  \E j \in DOMAIN Tail(q) : Tail(q)[j] = q[i]
<1>1. i # 1 /\ i - 1 \in DOMAIN Tail(q) /\ Tail(q)[i - 1] = q[i]
  OBVIOUS
<1> QED BY <1>1, Zenon

(* A task of React or of the microtask queue keeps it, and so do the       *)
(* Angular service and the callback page.                                  *)
LEMMA AdapterStep == AdapterIInv /\ [AdapterNext]_adapterVars => AdapterIInv'
<1> SUFFICES ASSUME AdapterIInv, [AdapterNext]_adapterVars PROVE AdapterIInv'
  BY Zenon
<1> USE AdapterAssumption DEF AdapterIInv, serviceVars, managedVars, EffectRuns, Cleanup, CleanupTasks
<1>1. CASE MountProvider
  <2>1. /\ made' = made + 1 /\ rendered' = made + 1 /\ UNCHANGED <<gone, callbackPage>>
        /\ 1 .. made' = (1 .. made) \cup {made + 1} /\ made + 1 \in Managed
    BY <1>1 DEF MountProvider
  <2>2. mounts' \in [Managed -> Int] /\ \A o \in Managed : mounts'[o] = IF o = made + 1 THEN 1 ELSE 0
    BY <1>1 DEF MountProvider
  <2>3. microtasks' \in Seq(1 .. made')
    <3> made + 1 \in 1 .. made'
      BY Zenon, <2>1
    <3> QED BY <1>1, ShortQueues, Zenon DEF MountProvider
  <2>4. \A o \in 1 .. made' : o # rendered' => o \in gone
    BY <1>1, <2>1 DEF MountProvider
  <2> QED BY <2>1, <2>2, <2>3, <2>4, SMTT(30)
<1>2. CASE ChangeDependency
  BY <1>2 DEF ChangeDependency
<1>3. CASE ChangeConfig
  <2>1. /\ made' = made + 1 /\ rendered' = made + 1 /\ UNCHANGED <<gone, callbackPage>>
        /\ 1 .. made' = (1 .. made) \cup {made + 1} /\ made + 1 \in Managed
        /\ rendered \in 1 .. made
    BY <1>3 DEF ChangeConfig
  <2>2. mounts' \in [Managed -> Int] /\ \A o \in Managed : mounts'[o] = IF o = made + 1 THEN 1 ELSE 0
    BY <1>3, <2>1 DEF ChangeConfig
  <2>3. microtasks' \in Seq(1 .. made') /\ \E i \in DOMAIN microtasks' : microtasks'[i] = rendered
    <3> made + 1 \in 1 .. made' /\ rendered \in 1 .. made'
      BY Zenon, <2>1
    <3>1. microtasks' = <<rendered>> \/ microtasks' = <<rendered, made + 1>>
      BY <1>3, Zenon DEF ChangeConfig
    <3>2. CASE microtasks' = <<rendered>>
      BY <3>2, ShortQueues
    <3>3. CASE microtasks' = <<rendered, made + 1>>
      BY Zenon, <3>3, ShortQueues
    <3> QED BY Zenon, <3>1, <3>2, <3>3
  <2>4. \A o \in 1 .. made' : o # rendered' => o \in gone \/ o = rendered
    BY <1>3, <2>1 DEF ChangeConfig
  <2>5. \A o \in 1 .. made' : o # rendered' /\ o \notin gone' =>
           \E i \in DOMAIN microtasks' : microtasks'[i] = o
    BY Zenon, <2>1, <2>3, <2>4
  <2>6. /\ made' \in Nat /\ rendered' \in 0 .. made' /\ 1 .. made' \subseteq Managed
        /\ gone' \subseteq (1 .. made') \ {rendered'}
    BY <2>1
  <2>7. \A o \in Managed : mounts'[o] = IF o = rendered' THEN 1 ELSE 0
    BY Zenon, <2>1, <2>2
  <2> QED BY <2>1, <2>2, <2>3, <2>5, <2>6, <2>7, Zenon
<1>4. CASE UnmountProvider
  BY <1>4 DEF UnmountProvider
<1>5. CASE RunMicrotask
  <2>1. /\ Head(microtasks) \in 1 .. made /\ microtasks' = Tail(microtasks)
        /\ UNCHANGED <<made, mounts, rendered, callbackPage>>
        /\ gone' = IF Head(microtasks) # rendered THEN gone \cup {Head(microtasks)} ELSE gone
    BY <1>5, SMTT(30) DEF RunMicrotask, Abandoned
  <2>2. microtasks' \in Seq(1 .. made')
    BY <1>5, <2>1 DEF RunMicrotask
  <2>3. ASSUME NEW i \in DOMAIN microtasks, microtasks[i] # Head(microtasks)
        PROVE \E j \in DOMAIN microtasks' : microtasks'[j] = microtasks[i]
    <3>1. \E j \in DOMAIN Tail(microtasks) : Tail(microtasks)[j] = microtasks[i]
      <4> HIDE DEF AdapterIInv
      <4>1. microtasks \in Seq(1 .. made)
        BY Zenon DEF AdapterIInv
      <4> QED BY <2>3, <4>1, WaitsInTail, Zenon
    <3> QED BY <2>1, <3>1, Zenon
  <2>4. \A o \in 1 .. made' : o # rendered' /\ o \notin gone' =>
           \E i \in DOMAIN microtasks' : microtasks'[i] = o
    <3> SUFFICES ASSUME NEW o \in 1 .. made, o # rendered, o \notin gone'
                 PROVE \E i \in DOMAIN microtasks' : microtasks'[i] = o
      BY <2>1, Zenon
    <3>1. o \notin gone /\ o # Head(microtasks)
      BY <2>1, Zenon
    <3>2. PICK i \in DOMAIN microtasks : microtasks[i] = o
      BY Zenon, <3>1
    <3> QED BY <3>1, <3>2, <2>3, Zenon
  <2>5. gone' \subseteq (1 .. made') \ {rendered'}
    BY <2>1, Zenon
  <2> QED BY <2>1, <2>2, <2>4, <2>5, Zenon
<1>6. CASE UNCHANGED managedVars
  <2>1. ASSUME NEW url \in {"callback", "other"}, OpenCallbackPage(url) PROVE AdapterIInv'
    BY <1>6, <2>1 DEF OpenCallbackPage
  <2>2. ASSUME NEW outcome \in {"resolved", "error"}, AttemptEnds(outcome) PROVE AdapterIInv'
    BY <1>6, <2>2, ZenonT(60) DEF AttemptEnds
  <2>3. CASE RenderCallbackPage
    <3>1. callbackPage' = [callbackPage EXCEPT !.told = 1]
      BY <2>3 DEF RenderCallbackPage, TellHost
    <3> QED BY <1>6, <3>1, Zenon
  <2>4. CASE LeaveCallbackPage
    BY <1>6, <2>4 DEF LeaveCallbackPage, NoPage
  <2>5. CASE UNCHANGED callbackPage
    BY Zenon, <1>6, <2>5
  <2> QED
    BY <2>1, <2>2, <2>3, <2>4, <2>5, <1>1, <1>2, <1>3, <1>4, <1>5, Zenon
    DEF AdapterNext, adapterVars, CreateService, MaterialChanges, DisposeService
<1> QED
  BY <1>1, <1>2, <1>3, <1>4, <1>5, <1>6, Zenon
  DEF AdapterNext, adapterVars, CreateService, MaterialChanges, DisposeService,
      OpenCallbackPage, AttemptEnds, RenderCallbackPage, LeaveCallbackPage

(* For any sequence of mounts, StrictMode's included, changed dependencies *)
(* and configurations: once the queue of microtasks is empty exactly the   *)
(* objects that no provider shows are disposed, and a callback page tells  *)
(* its host at most once.                                                  *)
THEOREM ProvidersDispose == AdapterSpec => []ProvidersDisposeWhatTheyLeave
<1>1. AdapterInit => AdapterIInv
  BY AdapterAssumption DEF AdapterInit, AdapterIInv, NoPage
<1>2. AdapterIInv => ProvidersDisposeWhatTheyLeave
  BY DEF AdapterIInv, ProvidersDisposeWhatTheyLeave, CleanupTasks
<1> QED BY <1>1, <1>2, AdapterStep, PTL DEF AdapterSpec

-----------------------------------------------------------------------------
(* Configuration sources *)

Envelopes == [data : Projections \cup {Absent},
              generatedAt : Nat \cup {raw.generatedAt : raw \in Projections}]

ConfigPageRecords ==
    [pc : {"off", "resolving", "fetching", "ready", "failed"}, source : Nat \ {0},
     resolved : Envelopes, kind : SourceKinds \cup {"none"},
     idle : {"none", "scheduled", "fetching", "done"}]

(* A page that resolves has passed no inline source, which would have      *)
(* ended its boot; one that waits for the network is at a network source;  *)
(* one that is ready runs on what its present source gave, validated.      *)
PageBootsInOrder(p) ==
    /\ \A i \in 1 .. Page(p).source - 1 : Sources[p][i] # "inline"
    /\ Page(p).pc = "fetching" => Source(p) = "network"
    /\ Page(p).pc = "ready" /\ Page(p).kind # "inline" =>
          validateConfigProjection(Page(p).resolved.data) /\ Page(p).kind = Source(p)
    /\ Page(p).pc = "failed" => Page(p).source = Len(Sources[p]) /\ Source(p) # "inline"

ConfigIInv ==
    /\ stored \in Envelopes
    /\ configTime \in Nat
    /\ configPages \in [ConfigPages -> ConfigPageRecords]
    /\ \A p \in ConfigPages : PageBootsInOrder(p)

(* What a page makes of an envelope, or of a source that fails, is a page  *)
(* again that has booted in order.                                         *)
BootedInOrder(p, booted) ==
    /\ booted \in ConfigPageRecords
    /\ \A i \in 1 .. booted.source - 1 : Sources[p][i] # "inline"
    /\ booted.pc = "fetching" => Sources[p][booted.source] = "network"
    /\ booted.pc = "ready" /\ booted.kind # "inline" =>
          validateConfigProjection(booted.resolved.data) /\ booted.kind = Sources[p][booted.source]
    /\ booted.pc = "failed" => booted.source = Len(Sources[p]) /\ Sources[p][booted.source] # "inline"

(* Setting a page to such a one keeps the invariant.                       *)
LEMMA SetPageKeeps ==
    ASSUME ConfigIInv, NEW p \in ConfigPages, NEW booted, BootedInOrder(p, booted), SetPage(p, booted),
           stored' \in Envelopes, configTime' \in Nat
    PROVE ConfigIInv'
<1>1. configPages' \in [ConfigPages -> ConfigPageRecords] /\ configPages'[p] = booted
  BY Zenon DEF ConfigIInv, SetPage, BootedInOrder
<1>2. ASSUME NEW q \in ConfigPages PROVE PageBootsInOrder(q)'
  <2>1. CASE q = p
    BY Zenon, <1>1, <2>1 DEF BootedInOrder, PageBootsInOrder, Page, Source
  <2>2. CASE q # p
    <3>1. configPages'[q] = configPages[q]
      BY Zenon, <2>2 DEF ConfigIInv, SetPage
    <3>2. PageBootsInOrder(q)
      BY Zenon DEF ConfigIInv
    <3> QED BY <3>1, <3>2, Zenon DEF PageBootsInOrder, Page, Source
  <2> QED BY Zenon, <2>1, <2>2
<1> QED BY Zenon, <1>1, <1>2 DEF ConfigIInv

(* A source that is not inline gives way to the next one.                  *)
LEMMA SkipBootsInOrder ==
    ASSUME ConfigIInv, NEW p \in ConfigPages, Page(p).pc \in {"resolving", "fetching"},
           Source(p) # "inline"
    PROVE BootedInOrder(p, Skip(p))
<1> DEFINE booted == configPages[p]
<1>1. booted \in ConfigPageRecords /\ PageBootsInOrder(p)
  BY Zenon DEF ConfigIInv
<1>2. CASE booted.source = Len(Sources[p])
  <2>1. Skip(p) = [booted EXCEPT !.pc = "failed"]
    BY Zenon, <1>2 DEF Skip, Page
  <2> QED BY <1>1, <1>2, <2>1, Zenon DEF ConfigPageRecords, BootedInOrder, PageBootsInOrder, Page, Source
<1>3. CASE booted.source # Len(Sources[p])
  <2>1. Skip(p) = [booted EXCEPT !.pc = "resolving", !.source = booted.source + 1]
    BY Zenon, <1>3 DEF Skip, Page
  <2>2. \A i \in 1 .. booted.source : Sources[p][i] # "inline"
    BY <1>1 DEF ConfigPageRecords, PageBootsInOrder, Page, Source
  <2>3. /\ Skip(p) \in ConfigPageRecords
        /\ Skip(p).pc = "resolving"
        /\ Skip(p).source = booted.source + 1
    <3>1. booted.source + 1 \in Nat \ {0}
      BY <1>1 DEF ConfigPageRecords
    <3> QED BY <1>1, <2>1, <3>1, Zenon DEF ConfigPageRecords
  <2>4. (booted.source + 1) - 1 = booted.source
    BY <1>1 DEF ConfigPageRecords
  <2> QED BY Zenon, <2>2, <2>3, <2>4 DEF BootedInOrder
<1> QED BY Zenon, <1>2, <1>3

(* A source's answer is validated, or gives way as well.                   *)
LEMMA ParseBootsInOrder ==
    ASSUME ConfigIInv, NEW p \in ConfigPages, Page(p).pc \in {"resolving", "fetching"},
           NEW kind \in SourceKinds \ {"inline"}, Source(p) = kind, NEW envelope \in Envelopes
    PROVE BootedInOrder(p, parseAndWrap(p, kind, envelope))
<1>1. configPages[p] \in ConfigPageRecords /\ PageBootsInOrder(p)
  BY Zenon DEF ConfigIInv
<1>2. CASE validateConfigProjection(envelope.data)
  BY <1>1, <1>2, Zenon DEF parseAndWrap, ConfigPageRecords, BootedInOrder, PageBootsInOrder, Page, Source
<1>3. CASE ~validateConfigProjection(envelope.data)
  BY Zenon, <1>3, SkipBootsInOrder DEF parseAndWrap
<1> QED BY Zenon, <1>2, <1>3

(* Every step of the boots, of the store and of the revalidations keeps    *)
(* the invariant.                                                          *)
LEMMA ConfigStep == ConfigIInv /\ [ConfigNext]_configVars => ConfigIInv'
<1> SUFFICES ASSUME ConfigIInv, [ConfigNext]_configVars PROVE ConfigIInv'
  BY Zenon
<1>1. ASSUME NEW p \in ConfigPages, PageStep(p) \/ ConfigReload(p) PROVE ConfigIInv'
  <2> configPages[p] \in ConfigPageRecords /\ PageBootsInOrder(p)
    BY Zenon DEF ConfigIInv
  <2> stored \in Envelopes /\ configTime \in Nat
    BY Zenon DEF ConfigIInv
  <2>1. NoEnvelope \in Envelopes
    BY Zenon DEF NoEnvelope, Envelopes
  <2>2. CASE resolveConfigProjection(p)
    <3>1. BootedInOrder(p, [NewPage EXCEPT !.pc = "resolving"])
      BY <2>1 DEF NewPage, BootedInOrder, ConfigPageRecords
    <3> QED BY Zenon, <2>2, <3>1, SetPageKeeps DEF resolveConfigProjection
  <2>3. CASE ResolveInline(p)
    <3>1. BootedInOrder(p, [Page(p) EXCEPT !.pc = "ready", !.kind = "inline"])
      BY ZenonT(60) DEF Page, BootedInOrder, PageBootsInOrder, ConfigPageRecords, SourceKinds
    <3> QED BY Zenon, <2>3, <3>1, SetPageKeeps DEF ResolveInline
  <2>4. CASE bootstrapScriptSource(p)
    <3> DEFINE envelope == [data |-> Bootstraps[p], generatedAt |-> Bootstraps[p].generatedAt]
    <3>1. envelope \in Envelopes
      BY ConfigAssumption DEF Envelopes, Absent
    <3>2. BootedInOrder(p, parseAndWrap(p, "bootstrap_script", envelope))
      BY <2>4, <3>1, ParseBootsInOrder, Zenon DEF bootstrapScriptSource, SourceKinds
    <3> QED BY Zenon, <2>4, <3>2, SetPageKeeps DEF bootstrapScriptSource
  <2>5. CASE persistedConfigSource(p)
    <3>1. unwrapEnvelope(stored) \in Envelopes
      BY DEF Envelopes, unwrapEnvelope, Absent
    <3>2. BootedInOrder(p, parseAndWrap(p, "persisted", unwrapEnvelope(stored)))
      BY Zenon, <2>5, <3>1, ParseBootsInOrder DEF persistedConfigSource, SourceKinds
    <3> QED BY Zenon, <2>5, <3>2, SetPageKeeps DEF persistedConfigSource
  <2>6. CASE networkConfigSource(p)
    <3>1. BootedInOrder(p, [Page(p) EXCEPT !.pc = "fetching"])
      BY Zenon, <2>6 DEF networkConfigSource, Page, Source, BootedInOrder, PageBootsInOrder, ConfigPageRecords
    <3> QED BY Zenon, <2>6, <3>1, SetPageKeeps DEF networkConfigSource
  <2>7. CASE NetworkFails(p)
    <3>1. BootedInOrder(p, Skip(p))
      BY Zenon, <2>7, SkipBootsInOrder DEF NetworkFails, PageBootsInOrder
    <3> QED BY Zenon, <2>7, <3>1, SetPageKeeps DEF NetworkFails
  <2>8. ASSUME NEW raw \in Answers, NetworkAnswers(p, raw) PROVE ConfigIInv'
    <3> DEFINE envelope == [data |-> raw, generatedAt |-> raw.generatedAt]
    <3>1. envelope \in Envelopes
      BY Zenon DEF Envelopes, Answers
    <3>2. BootedInOrder(p, parseAndWrap(p, "network", envelope))
      BY <2>8, <3>1, ParseBootsInOrder, Zenon DEF NetworkAnswers, SourceKinds, PageBootsInOrder
    <3> QED BY Zenon, <2>8, <3>2, SetPageKeeps DEF NetworkAnswers
  <2>9. CASE persistConfigProjection(p)
    <3>1. stored' \in Envelopes
      BY Zenon, <2>9 DEF persistConfigProjection, Page, ConfigPageRecords
    <3> QED BY <2>9, <3>1, Zenon DEF persistConfigProjection, ConfigIInv, PageBootsInOrder, Page, Source
  <2>10. ASSUME NEW idle \in {"none", "scheduled", "fetching", "done"}
         PROVE BootedInOrder(p, [Page(p) EXCEPT !.idle = idle])
    BY Zenon DEF Page, Source, BootedInOrder, PageBootsInOrder, ConfigPageRecords
  <2>11. CASE scheduleIdleRevalidation(p) \/ CancelIdleRevalidation(p) \/ IdleCallback(p) \/ RevalidationFails(p)
    <3>1. BootedInOrder(p, [Page(p) EXCEPT !.idle = "none"])
          /\ BootedInOrder(p, [Page(p) EXCEPT !.idle = "scheduled"])
          /\ BootedInOrder(p, [Page(p) EXCEPT !.idle = "fetching"])
          /\ BootedInOrder(p, [Page(p) EXCEPT !.idle = "done"])
      BY Zenon, <2>10
    <3> QED
      BY <2>11, <3>1, SetPageKeeps, Zenon
      DEF scheduleIdleRevalidation, CancelIdleRevalidation, IdleCallback, RevalidationFails
  <2>12. ASSUME NEW raw \in Answers, doRevalidate(p, raw) PROVE ConfigIInv'
    <3>1. stored' \in Envelopes
      BY Zenon, <2>12 DEF doRevalidate, Envelopes, Answers
    <3>2. BootedInOrder(p, [Page(p) EXCEPT !.idle = "done"])
      BY Zenon, <2>10
    <3> QED BY Zenon, <2>12, <3>1, <3>2, SetPageKeeps DEF doRevalidate
  <2>13. CASE ConfigReload(p)
    <3>1. BootedInOrder(p, NewPage)
      BY <2>1, SMTT(30) DEF NewPage, BootedInOrder, ConfigPageRecords
    <3> QED BY Zenon, <2>13, <3>1, SetPageKeeps DEF ConfigReload
  <2> QED
    BY <1>1, <2>2, <2>3, <2>4, <2>5, <2>6, <2>7, <2>8, <2>9, <2>11, <2>12, <2>13, Zenon DEF PageStep
<1>2. CASE UNCHANGED <<stored, configPages>> /\ configTime' \in Nat
  BY <1>2, Zenon DEF ConfigIInv, PageBootsInOrder, Page, Source
<1>3. CASE ConfigTick
  BY <1>2, <1>3 DEF ConfigTick, ConfigIInv
<1>4. CASE UNCHANGED configVars
  BY Zenon, <1>2, <1>4 DEF configVars, ConfigIInv
<1> QED BY Zenon, <1>1, <1>3, <1>4 DEF ConfigNext

(* Whatever sources the pages have and whatever the configuration endpoint *)
(* answers: a page never runs on a projection its schema rejects, although *)
(* revalidations store what the network sent unseen, and a boot fails only *)
(* when every source was tried.                                            *)
THEOREM BootedConfigValid == ConfigSpec => []BootedConfigIsValid
<1>1. ConfigInit => ConfigIInv
  BY SMTT(30) DEF ConfigInit, ConfigIInv, NoEnvelope, Envelopes, NewPage, ConfigPageRecords, PageBootsInOrder, Page
<1>2. ConfigIInv => BootedConfigIsValid
  <2> SUFFICES ASSUME ConfigIInv, NEW p \in ConfigPages, Page(p).pc = "failed",
                      NEW i \in DOMAIN Sources[p]
               PROVE Sources[p][i] # "inline"
    BY Zenon DEF ConfigIInv, PageBootsInOrder, BootedConfigIsValid
  <2>1. PageBootsInOrder(p) /\ Sources[p] \in Seq(SourceKinds)
    BY Zenon, ConfigAssumption DEF ConfigIInv
  <2>2. i \in 1 .. Len(Sources[p])
    BY <2>1, SMTT(30)
  <2> QED BY <2>1, <2>2, SMTT(30) DEF PageBootsInOrder, Source
<1> QED BY <1>1, <1>2, ConfigStep, PTL DEF ConfigSpec

-----------------------------------------------------------------------------
(* Signals                                                                 *)

LoopRecords == [of : Deps \cup {Computed}, called : SUBSET (Listeners \cup {MarkDirty})]

(* Some loop of the stack lp over the listeners of s has x still to call.  *)
Waits(lp, s, x) == \E i \in DOMAIN lp : lp[i].of = s /\ x \notin lp[i].called

(* A listener that has run has the present value, or a loop will call it;  *)
(* a dirty computed signal still owes its listeners a call.                *)
ListenerGood(l, cur, from, stale, on, got, lp) ==
    /\ on = Unheard => got = {}
    /\ on \in Deps /\ got # {} => got = {cur[on]} \/ Waits(lp, on, l)
    /\ on = Computed /\ got # {} => (~stale /\ got = {from}) \/ Waits(lp, Computed, l)

(* A clean computed signal is up to date, or markDirty is still to come.   *)
CacheGood(cur, from, stale, lp) ==
    ~stale => from = cur \/ \E d \in Deps : Waits(lp, d, MarkDirty)

SignalsIInv ==
    /\ dirty \in BOOLEAN /\ DOMAIN current = Deps
    /\ heard \in [Listeners -> Deps \cup {Computed, Unheard}]
    /\ DOMAIN seen = Listeners
    /\ loops \in Seq(LoopRecords)
    /\ CacheGood(current, computedFrom, dirty, loops)
    /\ \A l \in Listeners : ListenerGood(l, current, computedFrom, dirty, heard[l], seen[l], loops)

(* A loop that starts has everyone still to call, and hides no other.      *)
LEMMA LoopStarts ==
    ASSUME NEW lp \in Seq(LoopRecords), NEW s \in Deps \cup {Computed}
    PROVE /\ Loop(s, lp) \in Seq(LoopRecords)
          /\ \A x : Waits(Loop(s, lp), s, x)
          /\ \A t, x : Waits(lp, t, x) => Waits(Loop(s, lp), t, x)
<1> DEFINE new == [of |-> s, called |-> {}]
           L == Append(lp, new)
<1>1. new \in LoopRecords /\ new.of = s /\ new.called = {}
  BY Zenon DEF LoopRecords
<1> HIDE DEF new
<1>2. /\ L \in Seq(LoopRecords) /\ Len(lp) + 1 \in DOMAIN L /\ L[Len(lp) + 1] = new
      /\ \A i \in DOMAIN lp : i \in DOMAIN L /\ L[i] = lp[i]
  BY <1>1
<1> HIDE DEF L
<1>3. L = Loop(s, lp)
  BY Zenon DEF L, new, Loop
<1> QED BY Zenon, <1>1, <1>2, <1>3 DEF Waits

(* The innermost loop calls x: only that loop, and only x, is affected.    *)
LEMMA LoopCalls ==
    ASSUME loops \in Seq(LoopRecords), loops # <<>>, NEW x \in Listeners \cup {MarkDirty}
    PROVE /\ Called(x) \in Seq(LoopRecords)
          /\ Innermost.of \in Deps \cup {Computed}
          /\ \A t, y : Waits(loops, t, y) /\ (y # x \/ t # Innermost.of) => Waits(Called(x), t, y)
<1> DEFINE inner == [Innermost EXCEPT !.called = @ \cup {x}]
<1>1. Len(loops) \in DOMAIN loops /\ Innermost \in LoopRecords
  BY DEF Innermost
<1>2. inner \in LoopRecords /\ inner.of = Innermost.of /\ inner.called = Innermost.called \cup {x}
  BY Zenon, <1>1 DEF LoopRecords
<1>3. Called(x) = [loops EXCEPT ![Len(loops)] = inner]
  BY Zenon DEF Called, Innermost
<1> HIDE DEF inner
<1>4. /\ Called(x) \in Seq(LoopRecords) /\ DOMAIN Called(x) = DOMAIN loops
      /\ Called(x)[Len(loops)] = inner
      /\ \A i \in DOMAIN loops : i # Len(loops) => Called(x)[i] = loops[i]
  BY <1>1, <1>2, <1>3
<1>5. Innermost.of \in Deps \cup {Computed}
  BY Zenon, <1>1 DEF LoopRecords
<1>6. ASSUME NEW t, NEW y, NEW i \in DOMAIN loops, loops[i].of = t, y \notin loops[i].called,
             y # x \/ t # Innermost.of
      PROVE Waits(Called(x), t, y)
  <2>1. Called(x)[i].of = t /\ y \notin Called(x)[i].called
    BY Zenon, <1>2, <1>4, <1>6 DEF Innermost
  <2> QED BY Zenon, <1>4, <2>1 DEF Waits
<1> QED BY Zenon, <1>4, <1>5, <1>6 DEF Waits

(* A loop that is over leaves the others.                                  *)
LEMMA LoopPops ==
    ASSUME loops \in Seq(LoopRecords), loops # <<>>,
           NEW lp, lp = SubSeq(loops, 1, Len(loops) - 1)
    PROVE /\ lp \in Seq(LoopRecords)
          /\ \A t, y : Waits(loops, t, y) /\ (y \in Innermost.called \/ t # Innermost.of) => Waits(lp, t, y)
<1>1. Len(loops) \in Nat \ {0}
  OBVIOUS
<1>2. /\ lp \in Seq(LoopRecords) /\ DOMAIN lp = 1 .. Len(loops) - 1
      /\ \A i \in 1 .. Len(loops) - 1 : lp[i] = loops[i]
  BY <1>1
<1>3. \A i \in DOMAIN loops : i # Len(loops) => i \in DOMAIN lp /\ lp[i] = loops[i]
  BY <1>1, <1>2
<1> QED BY <1>2, <1>3, Zenon DEF Waits, Innermost

(* A step that only forgets loops of others, or adds some, keeps what is   *)
(* known of a listener and of the cached value.                            *)
LEMMA LoopsKept ==
    ASSUME NEW lp, NEW lq, NEW cur, NEW from, NEW stale
    PROVE /\ \A l, on, got : /\ ListenerGood(l, cur, from, stale, on, got, lp)
                             /\ \A t : Waits(lp, t, l) => Waits(lq, t, l)
                             => ListenerGood(l, cur, from, stale, on, got, lq)
          /\ /\ CacheGood(cur, from, stale, lp)
             /\ \A t : Waits(lp, t, MarkDirty) => Waits(lq, t, MarkDirty)
             => CacheGood(cur, from, stale, lq)
  BY Zenon DEF ListenerGood, CacheGood

(* set: the new loop covers the listeners of d and, through markDirty, the *)
(* computed signal.                                                        *)
LEMMA SetGood ==
    ASSUME NEW lp \in Seq(LoopRecords), NEW d \in Deps, NEW cur, DOMAIN cur = Deps, NEW value,
           NEW from, NEW stale
    PROVE /\ CacheGood([cur EXCEPT ![d] = value], from, stale, Loop(d, lp))
          /\ \A l, on, got : ListenerGood(l, cur, from, stale, on, got, lp) =>
                ListenerGood(l, [cur EXCEPT ![d] = value], from, stale, on, got, Loop(d, lp))
<1> DEFINE C == [cur EXCEPT ![d] = value]
           L == Loop(d, lp)
<1>1. (\A x : Waits(L, d, x)) /\ (\A t, x : Waits(lp, t, x) => Waits(L, t, x))
  BY Zenon, LoopStarts
<1>2. \A e \in Deps : e # d => C[e] = cur[e]
  BY Zenon
<1> HIDE DEF C, L
<1>3. CacheGood(C, from, stale, L)
  BY Zenon, <1>1 DEF CacheGood
<1>4. ASSUME NEW l, NEW on, NEW got, ListenerGood(l, cur, from, stale, on, got, lp)
      PROVE ListenerGood(l, C, from, stale, on, got, L)
  BY Zenon, <1>1, <1>2, <1>4 DEF ListenerGood
<1> QED BY <1>3, <1>4, ZenonT(60) DEF C, L

(* What a callback on signal s gets, and leaves of the computed signal.    *)
ReadGood(s, from, stale, got) ==
    IF s = Computed
    THEN from = (IF dirty THEN current ELSE computedFrom) /\ stale = FALSE /\ got = {from}
    ELSE from = computedFrom /\ stale = dirty /\ got = {current[s]}

(* A callback of l, on signal s: what it gets is the present value, and    *)
(* reading the computed signal leaves it clean and up to date.             *)
LEMMA CallbackGood ==
    ASSUME SignalsIInv, NEW l \in Listeners, NEW s \in Deps \cup {Computed},
           NEW from, NEW stale, NEW got, ReadGood(s, from, stale, got), NEW lp,
           \A t, y : Waits(loops, t, y) /\ (y # l \/ t # s) => Waits(lp, t, y)
    PROVE /\ stale \in BOOLEAN
          /\ CacheGood(current, from, stale, lp)
          /\ ListenerGood(l, current, from, stale, s, got, lp)
          /\ \A k \in Listeners : k # l => ListenerGood(k, current, from, stale, heard[k], seen[k], lp)
<1>1. Computed \notin Deps /\ Unheard \notin Deps /\ MarkDirty \notin Listeners /\ Computed # Unheard
  BY Zenon, SignalAssumption DEF Computed, Unheard
<1>2. stale \in BOOLEAN /\ dirty \in BOOLEAN /\ CacheGood(current, computedFrom, dirty, loops)
  BY Zenon DEF SignalsIInv, ReadGood
<1>3. \A t : Waits(loops, t, MarkDirty) => Waits(lp, t, MarkDirty)
  BY Zenon, <1>1
<1>4. CacheGood(current, from, stale, lp)
  BY Zenon, <1>2, <1>3 DEF CacheGood, ReadGood
<1>5. ListenerGood(l, current, from, stale, s, got, lp)
  BY Zenon, <1>1 DEF ListenerGood, ReadGood
<1>6. ASSUME NEW k \in Listeners, k # l
      PROVE ListenerGood(k, current, from, stale, heard[k], seen[k], lp)
  <2>1. ListenerGood(k, current, computedFrom, dirty, heard[k], seen[k], loops)
    BY Zenon DEF SignalsIInv
  <2>2. \A t : Waits(loops, t, k) => Waits(lp, t, k)
    BY Zenon, <1>6
  <2> QED BY Zenon, <1>1, <2>1, <2>2 DEF ListenerGood, ReadGood
<1> QED BY <1>2, <1>4, <1>5, <1>6, Zenon

(* One step of the notification loops.                                     *)
LEMMA SignalsStep ==
    ASSUME SignalsIInv, [SignalsNext]_signalVars
    PROVE SignalsIInv'
<1>1. Computed \notin Deps /\ Unheard \notin Deps /\ MarkDirty \notin Listeners /\ Computed # Unheard
  BY Zenon, SignalAssumption DEF Computed, Unheard
<1>2. /\ dirty \in BOOLEAN /\ DOMAIN current = Deps
      /\ heard \in [Listeners -> Deps \cup {Computed, Unheard}]
      /\ DOMAIN seen = Listeners /\ loops \in Seq(LoopRecords)
      /\ CacheGood(current, computedFrom, dirty, loops)
      /\ \A l \in Listeners : ListenerGood(l, current, computedFrom, dirty, heard[l], seen[l], loops)
  BY Zenon DEF SignalsIInv
<1>3. ASSUME NEW d \in Deps, NEW value \in 0 .. 1, Set(d, value) PROVE SignalsIInv'
  <2>1. /\ current' = [current EXCEPT ![d] = value] /\ loops' = Loop(d, loops)
        /\ UNCHANGED <<computedFrom, dirty, heard, seen>>
    BY Zenon, <1>3 DEF Set, set
  <2>2. loops' \in Seq(LoopRecords) /\ DOMAIN current' = Deps
    BY Zenon, <1>2, <2>1, LoopStarts
  <2>3. CacheGood(current', computedFrom, dirty, loops')
    BY <1>2, <2>1, SetGood, Zenon
  <2>4. \A l \in Listeners : ListenerGood(l, current', computedFrom, dirty, heard[l], seen[l], loops')
    BY <1>2, <2>1, SetGood, ZenonT(60)
  <2> QED BY <1>2, <2>1, <2>2, <2>3, <2>4, Zenon DEF SignalsIInv
<1>4. ASSUME NEW l \in Listeners, NEW s \in Deps \cup {Computed}, fromSignal(l, s) PROVE SignalsIInv'
  <2>1. /\ heard' = [heard EXCEPT ![l] = s] /\ DOMAIN seen' = Listeners /\ UNCHANGED <<current, loops>>
        /\ \A k \in Listeners : k # l => heard'[k] = heard[k] /\ seen'[k] = seen[k]
        /\ heard'[l] = s
    BY <1>2, <1>4, Zenon DEF fromSignal
  <2>2. ReadGood(s, computedFrom', dirty', seen'[l])
    BY Zenon, <1>2, <1>4 DEF fromSignal, ComputedGet, Compute, ReadGood
  <2>3. /\ dirty' \in BOOLEAN /\ CacheGood(current, computedFrom', dirty', loops)
        /\ ListenerGood(l, current, computedFrom', dirty', s, seen'[l], loops)
        /\ \A k \in Listeners : k # l =>
              ListenerGood(k, current, computedFrom', dirty', heard[k], seen[k], loops)
    BY <2>2, CallbackGood, ZenonT(60)
  <2>4. \A k \in Listeners : ListenerGood(k, current', computedFrom', dirty', heard'[k], seen'[k], loops')
    BY Zenon, <2>1, <2>3
  <2> QED BY <1>2, <2>1, <2>3, <2>4, Zenon DEF SignalsIInv
<1>5. ASSUME NEW l \in Listeners, NEW s \in Deps \cup {Computed}, subscribe(l, s) PROVE SignalsIInv'
  <2>1. /\ heard' = [heard EXCEPT ![l] = s] /\ heard[l] = Unheard
        /\ UNCHANGED <<current, computedFrom, dirty, seen, loops>>
    BY Zenon, <1>5 DEF subscribe
  <2>2. seen[l] = {}
    BY <1>2, <2>1, ZenonT(60) DEF ListenerGood
  <2>3. ListenerGood(l, current, computedFrom, dirty, s, seen[l], loops)
    BY <2>2, Zenon DEF ListenerGood
  <2>4. \A k \in Listeners : ListenerGood(k, current', computedFrom', dirty', heard'[k], seen'[k], loops')
    BY Zenon, <1>2, <2>1, <2>3
  <2> QED BY Zenon, <1>2, <2>1, <2>4 DEF SignalsIInv
<1>6. ASSUME NEW l \in Listeners, unsubscribe(l) PROVE SignalsIInv'
  <2>1. /\ heard' = [heard EXCEPT ![l] = Unheard] /\ seen' = [seen EXCEPT ![l] = {}]
        /\ UNCHANGED <<current, computedFrom, dirty, loops>>
    BY Zenon, <1>6 DEF unsubscribe
  <2>2. ListenerGood(l, current, computedFrom, dirty, Unheard, {}, loops)
    BY Zenon DEF ListenerGood
  <2>3. \A k \in Listeners : ListenerGood(k, current', computedFrom', dirty', heard'[k], seen'[k], loops')
    BY <1>2, <2>1, <2>2, ZenonT(60)
  <2> QED BY <1>2, <2>1, <2>3, Zenon DEF SignalsIInv
<1>7. ASSUME NEW l \in Listeners, loops # <<>>, l \in ListenersOf(Innermost.of), Callback(l)
      PROVE LET lp == Called(l) IN
            /\ lp \in Seq(LoopRecords) /\ dirty' \in BOOLEAN /\ DOMAIN seen' = Listeners
            /\ CacheGood(current, computedFrom', dirty', lp)
            /\ \A k \in Listeners : ListenerGood(k, current, computedFrom', dirty', heard[k], seen'[k], lp)
  <2> DEFINE lp == Called(l)
  <2>1. heard[l] = Innermost.of
    BY Zenon, <1>1, <1>7 DEF ListenersOf
  <2>2. /\ lp \in Seq(LoopRecords) /\ Innermost.of \in Deps \cup {Computed}
        /\ \A t, y : Waits(loops, t, y) /\ (y # l \/ t # heard[l]) => Waits(lp, t, y)
    BY <1>2, <1>7, <2>1, LoopCalls, Zenon
  <2> HIDE DEF lp
  <2>3. /\ ReadGood(heard[l], computedFrom', dirty', seen'[l]) /\ DOMAIN seen' = Listeners
        /\ \A k \in Listeners : k # l => seen'[k] = seen[k]
    BY Zenon, <1>2, <1>7 DEF Callback, ComputedGet, Compute, ReadGood
  <2>4. /\ dirty' \in BOOLEAN /\ CacheGood(current, computedFrom', dirty', lp)
        /\ ListenerGood(l, current, computedFrom', dirty', heard[l], seen'[l], lp)
        /\ \A k \in Listeners : k # l =>
              ListenerGood(k, current, computedFrom', dirty', heard[k], seen[k], lp)
    BY <2>1, <2>2, <2>3, CallbackGood, ZenonT(60)
  <2>5. \A k \in Listeners : ListenerGood(k, current, computedFrom', dirty', heard[k], seen'[k], lp)
    BY <2>3, <2>4, ZenonT(60)
  <2> QED BY <2>2, <2>3, <2>4, <2>5, ZenonT(60) DEF lp
<1>8. ASSUME NEW l \in Listeners, NotifyListener(l) PROVE SignalsIInv'
  <2>1. /\ loops # <<>> /\ l \in ListenersOf(Innermost.of) /\ Callback(l)
        /\ loops' = Called(l) /\ UNCHANGED <<current, heard>>
    BY <1>8, ZenonT(60) DEF NotifyListener
  <2> QED BY <1>2, <1>7, <2>1, ZenonT(60) DEF SignalsIInv
<1>9. ASSUME NEW l \in Writers, NEW d \in Deps, NEW value \in 0 .. 1, NotifyWriter(l, d, value)
      PROVE SignalsIInv'
  <2> DEFINE lp == Called(l)
  <2>1. /\ loops # <<>> /\ l \in ListenersOf(Innermost.of) /\ Callback(l) /\ l \in Listeners
        /\ loops' = Loop(d, lp) /\ current' = [current EXCEPT ![d] = value] /\ UNCHANGED heard
    BY <1>9, SignalAssumption, ZenonT(60) DEF NotifyWriter
  <2>2. /\ lp \in Seq(LoopRecords) /\ dirty' \in BOOLEAN /\ DOMAIN seen' = Listeners
        /\ \A k \in Listeners : ListenerGood(k, current, computedFrom', dirty', heard[k], seen'[k], lp)
    BY <1>7, <2>1, ZenonT(60)
  <2> HIDE DEF lp
  <2>3. loops' \in Seq(LoopRecords) /\ DOMAIN current' = Deps
    BY <1>2, <2>1, <2>2, LoopStarts, ZenonT(60)
  <2>4. CacheGood(current', computedFrom', dirty', loops')
    BY <1>2, <2>1, <2>2, SetGood, ZenonT(60)
  <2>5. \A k \in Listeners : ListenerGood(k, current', computedFrom', dirty', heard[k], seen'[k], loops')
    BY <1>2, <2>1, <2>2, SetGood, ZenonT(60)
  <2> QED BY <1>2, <2>1, <2>2, <2>3, <2>4, <2>5, ZenonT(60) DEF SignalsIInv
<1>10. ASSUME NotifyMarkDirty PROVE SignalsIInv'
  <2> DEFINE lp == Called(MarkDirty)
  <2>1. loops # <<>> /\ markDirty /\ UNCHANGED <<current, computedFrom, heard, seen>>
    BY <1>10, Zenon DEF NotifyMarkDirty
  <2>2. /\ lp \in Seq(LoopRecords)
        /\ \A t, y : Waits(loops, t, y) /\ y # MarkDirty => Waits(lp, t, y)
    BY <1>2, <2>1, LoopCalls, Zenon
  <2>3. dirty' = TRUE /\ loops' = IF dirty THEN lp ELSE Loop(Computed, lp)
    BY Zenon, <1>2, <2>1 DEF markDirty
  <2> HIDE DEF lp
  <2>4. /\ Loop(Computed, lp) \in Seq(LoopRecords) /\ \A x : Waits(Loop(Computed, lp), Computed, x)
        /\ \A t, x : Waits(lp, t, x) => Waits(Loop(Computed, lp), t, x)
    BY Zenon, <2>2, LoopStarts
  <2>5. CacheGood(current, computedFrom, TRUE, loops')
    BY Zenon DEF CacheGood
  <2>6. ASSUME NEW k \in Listeners
        PROVE ListenerGood(k, current, computedFrom, TRUE, heard[k], seen[k], loops')
    <3>1. ListenerGood(k, current, computedFrom, dirty, heard[k], seen[k], loops)
      BY Zenon, <1>2
    <3>2. \A t : Waits(loops, t, k) => Waits(loops', t, k)
      BY Zenon, <1>1, <2>2, <2>3, <2>4
    <3>3. ~dirty => Waits(loops', Computed, k)
      BY Zenon, <2>3, <2>4
    <3> QED BY Zenon, <3>1, <3>2, <3>3 DEF ListenerGood
  <2> QED BY <1>2, <2>1, <2>2, <2>3, <2>4, <2>5, <2>6, ZenonT(60) DEF SignalsIInv
<1>11. ASSUME LoopEnds PROVE SignalsIInv'
  <2>1. /\ loops # <<>> /\ ListenersOf(Innermost.of) \subseteq Innermost.called
        /\ loops' = SubSeq(loops, 1, Len(loops) - 1) /\ UNCHANGED <<current, computedFrom, dirty, heard, seen>>
    BY <1>11, ZenonT(60) DEF LoopEnds
  <2>2. /\ loops' \in Seq(LoopRecords)
        /\ \A t, y : Waits(loops, t, y) /\ (y \in Innermost.called \/ t # Innermost.of) => Waits(loops', t, y)
    BY <1>2, <2>1, LoopPops, ZenonT(60)
  <2>3. \A d \in Deps : Waits(loops, d, MarkDirty) => Waits(loops', d, MarkDirty)
    BY <2>1, <2>2, Zenon DEF ListenersOf
  <2>4. CacheGood(current, computedFrom, dirty, loops')
    BY Zenon, <1>2, <2>3 DEF CacheGood
  <2>5. ASSUME NEW k \in Listeners
        PROVE ListenerGood(k, current, computedFrom, dirty, heard[k], seen[k], loops')
    <3>1. Waits(loops, heard[k], k) => Waits(loops', heard[k], k)
      BY Zenon, <2>1, <2>2 DEF ListenersOf
    <3>2. ListenerGood(k, current, computedFrom, dirty, heard[k], seen[k], loops)
      BY Zenon, <1>2
    <3> QED BY Zenon, <3>1, <3>2 DEF ListenerGood
  <2> QED BY <1>2, <2>1, <2>2, <2>4, <2>5, ZenonT(60) DEF SignalsIInv
<1>12. CASE UNCHANGED signalVars
  BY Zenon, <1>2, <1>12 DEF signalVars, SignalsIInv
<1> QED BY <1>3, <1>4, <1>5, <1>6, <1>8, <1>9, <1>10, <1>11, <1>12, Zenon DEF SignalsNext

(* When set has returned, whatever the listeners set in the meantime,      *)
(* every callback that has run has got the present value of its signal and *)
(* a clean computed value is the present one.                              *)
THEOREM SignalsSettle == SignalsSpec => []SettledSignalsAreCurrent
<1>1. SignalsInit => SignalsIInv
  <2> SUFFICES ASSUME SignalsInit PROVE SignalsIInv
    BY Zenon
  <2>1. /\ dirty \in BOOLEAN /\ DOMAIN current = Deps /\ DOMAIN seen = Listeners
        /\ heard \in [Listeners -> Deps \cup {Computed, Unheard}]
    BY Zenon DEF SignalsInit
  <2>2. loops \in Seq(LoopRecords)
    BY DEF SignalsInit
  <2>3. CacheGood(current, computedFrom, dirty, loops)
    BY Zenon DEF SignalsInit, CacheGood
  <2>4. \A l \in Listeners : ListenerGood(l, current, computedFrom, dirty, heard[l], seen[l], loops)
    BY Zenon DEF SignalsInit, ListenerGood
  <2> QED BY Zenon, <2>1, <2>2, <2>3, <2>4 DEF SignalsIInv
<1>2. SignalsIInv /\ [SignalsNext]_signalVars => SignalsIInv'
  BY Zenon, SignalsStep
<1>3. SignalsIInv => SettledSignalsAreCurrent
  <2> SUFFICES ASSUME SignalsIInv, loops = <<>>
               PROVE /\ ~dirty => computedFrom = Compute
                     /\ \A l \in Listeners : seen[l] # {} =>
                          seen[l] = {IF heard[l] = Computed THEN Compute ELSE current[heard[l]]}
    BY Zenon DEF SettledSignalsAreCurrent
  <2>1. \A s, x : ~Waits(loops, s, x)
    BY DEF Waits
  <2>2. ~dirty => computedFrom = current
    BY Zenon, <2>1 DEF SignalsIInv, CacheGood
  <2>3. ASSUME NEW l \in Listeners, seen[l] # {}
        PROVE seen[l] = {IF heard[l] = Computed THEN current ELSE current[heard[l]]}
    <3>1. ListenerGood(l, current, computedFrom, dirty, heard[l], seen[l], loops)
          /\ heard[l] \in Deps \cup {Computed, Unheard} /\ Computed \notin Deps
      BY Zenon, SignalAssumption DEF SignalsIInv
    <3> QED BY Zenon, <2>1, <2>2, <2>3, <3>1 DEF ListenerGood
  <2> QED BY Zenon, <2>2, <2>3 DEF Compute
<1> QED BY <1>1, <1>2, <1>3, PTL DEF SignalsSpec

-----------------------------------------------------------------------------
(* The web UI's host of the frontend-mode client                           *)

Generations == 1 .. MaxClients
HostRecords == [promise : 0 .. MaxClients, key : BOOLEAN, sync : 0 .. MaxClients,
                sub : 0 .. MaxClients, mirror : Nat, status : {"idle", "hydrated", "cleared"}]
ClientRecords == [phase : {"unmade", "fetching", "live", "failed", "doomed", "disposed"}, state : Nat]
CallRecords == [kind : Kinds \cup {"none"}, gen : 0 .. MaxClients, at : {"none", "client", "ready"}]

HostTypes ==
    /\ snapshot \in Nat /\ issued \in Nat /\ events \in Seq(Nat)
    /\ host \in HostRecords
    /\ clients \in [Generations -> ClientRecords]
    /\ calls \in [FacadeCalls -> CallRecords]

(* Client g: at work only while it is the one the host keeps the promise   *)
(* of, and with a token only while the host listens to it.                 *)
ClientGood(g, h, client) ==
    /\ client.phase \in {"fetching", "live"} => h.promise = g
    /\ h.promise = g => client.phase \in {"fetching", "live", "failed"}
    /\ client.phase = "live" => h.key
    /\ h.sub = g => client.phase = "live" /\ h.mirror = client.state
    /\ client.state # NoToken => h.sub = g

(* A call in flight is one of the promised client, and is past its await   *)
(* only when the host listens to that client.                              *)
CallGood(h, call) ==
    /\ call = NoCall \/ (call.gen = h.promise /\ h.promise # NoClient /\ call.kind \in Kinds)
    /\ call.at = "ready" => h.sub = call.gen /\ h.sub # NoClient

(* The host listens to the client and to the other tabs, or to neither.    *)
HostListens(h) == h.sync = h.sub /\ (h.sub # NoClient => h.sub = h.promise)

(* A token shown after the stored one is gone: the event is on its way.    *)
RemovalOnItsWay(h, token, queue) ==
    h.sub # NoClient /\ token = NoToken /\ h.mirror # NoToken =>
        queue # <<>> /\ queue[Len(queue)] = NoToken

HostIInv ==
    /\ HostTypes
    /\ \A g \in Generations : ClientGood(g, host, clients[g])
    /\ \A c \in FacadeCalls : CallGood(host, calls[c])
    /\ HostListens(host)
    /\ RemovalOnItsWay(host, snapshot, events)

(* A call leaves a client with a token, or none.                           *)
LEMMA OutcomesTyped ==
    ASSUME snapshot \in Nat, issued \in Nat, NEW kind \in Kinds, NEW state \in Nat,
           NEW after \in Outcomes(kind, state)
    PROVE  after \in Nat
BY DEF Outcomes, Kinds, NoToken

(* The host record with the fields that the client's signal writes.        *)
LEMMA ClientSetFields ==
    ASSUME NEW h \in HostRecords, NEW g \in Generations, NEW token \in Nat
    PROVE /\ ClientSet(h, g, token) \in HostRecords
          /\ ClientSet(h, g, token).promise = h.promise /\ ClientSet(h, g, token).sub = h.sub
          /\ ClientSet(h, g, token).sync = h.sync /\ ClientSet(h, g, token).key = h.key
          /\ ClientSet(h, g, token).mirror = IF h.sub = g THEN token ELSE h.mirror
<1>1. reconcileFrontendModeCrossTabStatus(h.status, token) \in {"idle", "hydrated", "cleared"}
  BY Zenon DEF reconcileFrontendModeCrossTabStatus, HostRecords
<1> QED BY <1>1, Zenon DEF ClientSet, HostRecords

(* The client of the promise takes a token and the host, which listens to  *)
(* it, shows the same; the other parts of the host stay.                   *)
LEMMA TokenTaken ==
    ASSUME HostIInv, NEW g \in Generations, host.sub = g, NEW token \in Nat, NEW h \in HostRecords,
           h.promise = host.promise, h.sub = host.sub, h.sync = host.sync, h.key = host.key,
           h.mirror = token, NEW cs, cs = [clients EXCEPT ![g].state = token]
    PROVE /\ cs \in [Generations -> ClientRecords]
          /\ \A i \in Generations : ClientGood(i, h, cs[i])
          /\ \A c \in FacadeCalls : CallGood(h, calls[c])
          /\ HostListens(h)
<1>1. clients \in [Generations -> ClientRecords]
  BY Zenon DEF HostIInv, HostTypes
<1>2. /\ cs \in [Generations -> ClientRecords]
      /\ \A i \in Generations : /\ cs[i].phase = clients[i].phase
                                /\ cs[i].state = IF i = g THEN token ELSE clients[i].state
  BY <1>1 DEF ClientRecords
<1>3. ASSUME NEW i \in Generations PROVE ClientGood(i, h, cs[i])
  <2>1. ClientGood(i, host, clients[i])
    BY Zenon DEF HostIInv
  <2> QED BY Zenon, <1>2, <2>1 DEF ClientGood
<1>4. \A c \in FacadeCalls : CallGood(h, calls[c])
  BY Zenon DEF HostIInv, CallGood
<1>5. HostListens(h)
  BY Zenon DEF HostIInv, HostListens
<1> QED BY Zenon, <1>2, <1>3, <1>4, <1>5

(* ensureTokenSetFrontendModeClientSubscribed, once the client is made.    *)
SubscribedTo(g, h, next) ==
    /\ next \in HostRecords /\ next.promise = h.promise /\ next.key = h.key
    /\ h.sub = NoClient => next.sub = g /\ next.sync = g /\ next.mirror = clients[g].state
    /\ h.sub # NoClient => next = h

(* The call does that, and the promise stays what it was.                  *)
LEMMA Subscribed ==
    ASSUME NEW h \in HostRecords, NEW g \in Generations, h.key = TRUE, HostListens(h),
           clients \in [Generations -> ClientRecords]
    PROVE SubscribedTo(g, h, ensureTokenSetFrontendModeClientSubscribed(h, g))
<1> DEFINE next == ensureTokenSetFrontendModeClientSubscribed(h, g)
<1> USE DEF SubscribedTo
<1>1. clients[g].state \in Nat /\ g \in 0 .. MaxClients /\ g # NoClient
  BY HostAssumption DEF ClientRecords, Generations, NoClient
<1>2. CASE h.sub = NoClient
  <2>1. h.sync = NoClient
    BY Zenon, <1>2 DEF HostListens
  <2>2. next = [[h EXCEPT !.sync = g] EXCEPT !.sub = g, !.mirror = clients[g].state]
    BY Zenon, <1>2, <2>1 DEF ensureTokenSetFrontendModeClientSubscribed, HostRecords
  <2> QED BY <1>1, <1>2, <2>2, Zenon DEF HostRecords
<1>3. CASE h.sub # NoClient
  <2>1. h.sync # NoClient
    BY Zenon, <1>3 DEF HostListens
  <2>2. next = h
    BY Zenon, <1>3, <2>1 DEF ensureTokenSetFrontendModeClientSubscribed
  <2> QED BY Zenon, <1>3, <2>2
<1> QED BY <1>2, <1>3, Zenon

(* One step of the host, when it is not disposed of in the middle of a     *)
(* call.                                                                   *)
LEMMA HostStep ==
    ASSUME ~DisposeMidCall, HostIInv, [HostNext]_hostVars
    PROVE HostIInv'
<1>1. /\ snapshot \in Nat /\ issued \in Nat /\ events \in Seq(Nat) /\ host \in HostRecords
      /\ clients \in [Generations -> ClientRecords] /\ calls \in [FacadeCalls -> CallRecords]
      /\ \A g \in Generations : ClientGood(g, host, clients[g])
      /\ \A c \in FacadeCalls : CallGood(host, calls[c])
      /\ HostListens(host) /\ RemovalOnItsWay(host, snapshot, events)
  BY Zenon DEF HostIInv, HostTypes
<1>2. /\ host.promise \in 0 .. MaxClients /\ host.sub \in 0 .. MaxClients /\ host.mirror \in Nat
      /\ \A g \in Generations : g # NoClient /\ g \in 0 .. MaxClients
      /\ \A g \in 0 .. MaxClients : g # NoClient => g \in Generations
  BY <1>1, HostAssumption DEF HostRecords, Generations, NoClient
<1>3. ASSUME NEW c \in FacadeCalls, NEW kind \in Kinds, getTokenSetFrontendModeClient(c, kind)
      PROVE HostIInv'
  <2>1. PICK g \in Generations :
           /\ calls[c] = NoCall
           /\ host.promise # NoClient => g = host.promise
           /\ host.promise = NoClient => clients[g].phase = "unmade"
           /\ calls' = [calls EXCEPT ![c] = [kind |-> kind, gen |-> g, at |-> "client"]]
           /\ host' = [host EXCEPT !.promise = g]
           /\ clients' = [clients EXCEPT ![g].phase = IF @ = "unmade" THEN "fetching" ELSE @]
           /\ UNCHANGED <<snapshot, issued, events>>
    BY <1>3, Zenon DEF getTokenSetFrontendModeClient, Generations
  <2>2. /\ host' \in HostRecords /\ host'.promise = g /\ host'.sub = host.sub /\ host'.sync = host.sync
        /\ host'.key = host.key /\ host'.mirror = host.mirror
    BY <1>1, <1>2, <2>1, Zenon DEF HostRecords
  <2>3. /\ clients' \in [Generations -> ClientRecords]
        /\ \A i \in Generations : i # g => clients'[i] = clients[i]
        /\ clients'[g].state = clients[g].state
        /\ clients'[g].phase = IF clients[g].phase = "unmade" THEN "fetching" ELSE clients[g].phase
    BY <1>1, <2>1, Zenon DEF ClientRecords
  <2>4. calls' \in [FacadeCalls -> CallRecords]
    BY <1>1, <1>2, <2>1, Zenon DEF CallRecords
  <2>5. HostListens(host')
    BY <1>1, <2>1, <2>2, Zenon DEF HostListens
  <2>6. RemovalOnItsWay(host', snapshot', events')
    BY <1>1, <2>1, <2>2, Zenon DEF RemovalOnItsWay
  <2>7. ASSUME NEW i \in Generations PROVE ClientGood(i, host', clients'[i])
    <3>1. ClientGood(i, host, clients[i])
      BY Zenon, <1>1
    <3>2. host.promise = NoClient => host.sub = NoClient /\ i # NoClient
      BY Zenon, <1>1, <1>2 DEF HostListens
    <3> QED BY <2>1, <2>2, <2>3, <3>1, <3>2 DEF ClientGood
  <2>8. ASSUME NEW d \in FacadeCalls PROVE CallGood(host', calls'[d])
    <3>1. CallGood(host, calls[d])
      BY Zenon, <1>1
    <3>2. CASE d = c
      <4>1. calls'[d].gen = g /\ calls'[d].at = "client" /\ calls'[d].kind \in Kinds
        BY <1>1, <2>1, <3>2, Zenon
      <4> QED BY <1>2, <2>2, <4>1, Zenon DEF CallGood
    <3>3. CASE d # c
      BY <1>1, <1>2, <2>1, <2>2, <3>1, <3>3, Zenon DEF CallGood
    <3> QED BY Zenon, <3>2, <3>3
  <2> QED BY <1>1, <2>1, <2>2, <2>3, <2>4, <2>5, <2>6, <2>7, <2>8, Zenon DEF HostIInv, HostTypes
<1>4. ASSUME NEW c \in FacadeCalls, FacadeResumes(c) PROVE HostIInv'
  <2> DEFINE g == calls[c].gen
  <2>1. /\ g # NoClient /\ clients[g].phase = "live"
        /\ calls' = [calls EXCEPT ![c].at = "ready"]
        /\ host' = ensureTokenSetFrontendModeClientSubscribed(host, g)
        /\ UNCHANGED <<snapshot, issued, clients, events>>
    BY Zenon, <1>4 DEF FacadeResumes, Live
  <2>2. g \in Generations /\ g = host.promise
    BY <1>1, <1>2, <2>1 DEF CallGood, CallRecords, NoCall
  <2>3. host.key = TRUE /\ clients[g].state = (IF host.sub = g THEN host.mirror ELSE NoToken)
    BY <1>1, <2>1, <2>2, Zenon DEF ClientGood, HostRecords
  <2>4. /\ host' \in HostRecords /\ host'.promise = host.promise /\ host'.key = host.key
        /\ host.sub = NoClient => host'.sub = g /\ host'.sync = g /\ host'.mirror = clients[g].state
        /\ host.sub # NoClient => host' = host
    <3>1. SubscribedTo(g, host, ensureTokenSetFrontendModeClientSubscribed(host, g))
      BY <1>1, <2>2, <2>3, Subscribed, Zenon
    <3> QED BY <2>1, <3>1, Zenon DEF SubscribedTo
  <2>5. host'.sub = g /\ host'.sync = g
    BY <1>1, <2>2, <2>4, Zenon DEF HostListens
  <2>6. /\ calls' \in [FacadeCalls -> CallRecords]
        /\ \A d \in FacadeCalls : calls'[d] = calls[d] \/ (d = c /\ calls'[d].gen = g /\ calls'[d].kind = calls[d].kind)
    BY <1>1, <2>1, ZenonT(60) DEF CallRecords
  <2>7. ASSUME NEW i \in Generations PROVE ClientGood(i, host', clients'[i])
    <3>1. ClientGood(i, host, clients[i]) /\ i # NoClient
      BY Zenon, <1>1, <1>2
    <3> QED BY <1>2, <2>1, <2>2, <2>3, <2>4, <2>5, <3>1, Zenon DEF ClientGood, NoToken
  <2>8. ASSUME NEW d \in FacadeCalls PROVE CallGood(host', calls'[d])
    <3>1. CallGood(host, calls[d])
      BY Zenon, <1>1
    <3>2. CASE calls'[d] = calls[d]
      BY <1>2, <2>2, <2>4, <2>5, <3>1, <3>2, Zenon DEF CallGood, NoCall
    <3>3. CASE d = c /\ calls'[d].gen = g /\ calls'[d].kind = calls[d].kind
      <4>1. calls[c] # NoCall
        BY <2>1, SMTT(30) DEF NoCall
      <4> QED BY <1>2, <2>2, <2>4, <2>5, <3>1, <3>3, <4>1, Zenon DEF CallGood
    <3> QED BY Zenon, <2>6, <3>2, <3>3
  <2>9. HostListens(host')
    BY <2>2, <2>4, <2>5, Zenon DEF HostListens
  <2>10. RemovalOnItsWay(host', snapshot', events')
    BY <1>1, <1>2, <2>1, <2>2, <2>3, <2>4, Zenon DEF RemovalOnItsWay
  <2> QED BY <1>1, <2>1, <2>4, <2>6, <2>7, <2>8, <2>9, <2>10, ZenonT(60) DEF HostIInv, HostTypes
<1>5. ASSUME NEW c \in FacadeCalls, FacadeCall(c) PROVE HostIInv'
  <2> DEFINE g == calls[c].gen
  <2>1. PICK after \in Outcomes(calls[c].kind, clients[g].state) :
          /\ issued' = IF after > issued THEN after ELSE issued
          /\ snapshot' = IF calls[c].kind = "clear" \/ after # clients[g].state THEN after ELSE snapshot
          /\ clients' = [clients EXCEPT ![g].state = after]
          /\ host' = [ClientSet(host, g, after) EXCEPT
                        !.mirror = after,
                        !.status = reconcileFrontendModeCrossTabStatus(@, after)]
    BY <1>5, Zenon DEF FacadeCall
  <2>2. /\ calls[c].at = "ready" /\ calls' = [calls EXCEPT ![c] = NoCall] /\ events' = events
    BY <1>5, Zenon DEF FacadeCall
  <2>3. g \in Generations /\ host.sub = g /\ host.promise = g /\ calls[c].kind \in Kinds \cup {"none"}
    BY <1>1, <1>2, <2>2, Zenon DEF CallGood, CallRecords, HostListens
  <2>4. after \in Nat
    <3>1. clients[g].state \in Nat /\ calls[c].kind \in Kinds
      <4>1. calls[c] # NoCall
        BY <2>2, SMTT(30) DEF NoCall
      <4> QED BY <1>1, <2>3, <4>1, Zenon DEF ClientRecords, CallGood
    <3> QED BY <1>1, <2>1, <3>1, OutcomesTyped, Zenon
  <2> DEFINE shown == ClientSet(host, g, after)
  <2>5. /\ shown \in HostRecords /\ shown.promise = host.promise /\ shown.sub = host.sub
        /\ shown.sync = host.sync /\ shown.key = host.key
    BY <1>1, <2>3, <2>4, ClientSetFields, ZenonT(60)
  <2>6. host' = [shown EXCEPT !.mirror = after, !.status = reconcileFrontendModeCrossTabStatus(@, after)]
    BY <2>1, Zenon
  <2> HIDE DEF shown
  <2>7. /\ host' \in HostRecords /\ host'.promise = host.promise /\ host'.sub = host.sub
        /\ host'.sync = host.sync /\ host'.key = host.key /\ host'.mirror = after
    BY <2>4, <2>5, <2>6, Zenon DEF HostRecords, reconcileFrontendModeCrossTabStatus
  <2>8. /\ clients' \in [Generations -> ClientRecords]
        /\ \A i \in Generations : ClientGood(i, host', clients'[i])
        /\ \A d \in FacadeCalls : CallGood(host', calls[d])
        /\ HostListens(host')
    BY <2>1, <2>3, <2>4, <2>7, TokenTaken, ZenonT(60)
  <2>9. calls' \in [FacadeCalls -> CallRecords] /\ \A d \in FacadeCalls : CallGood(host', calls'[d])
    <3>1. NoCall \in CallRecords /\ CallGood(host', NoCall)
      BY HostAssumption DEF NoCall, CallRecords, CallGood, NoClient
    <3> QED BY <1>1, <2>2, <2>8, <3>1, Zenon
  <2>10. snapshot' \in Nat /\ issued' \in Nat
    BY <1>1, <2>1, <2>4, Zenon
  <2>11. clients[g].state = host.mirror
    BY <1>1, <2>3, Zenon DEF ClientGood
  <2>12. RemovalOnItsWay(host', snapshot', events')
    BY <1>1, <2>1, <2>2, <2>7, <2>11, Zenon DEF RemovalOnItsWay
  <2> QED BY <1>1, <2>2, <2>7, <2>8, <2>9, <2>10, <2>12, Zenon DEF HostIInv, HostTypes
<1>6. ASSUME NEW c \in FacadeCalls, FacadeCallThrows(c) PROVE HostIInv'
  <2>1. calls' = [calls EXCEPT ![c] = NoCall] /\ UNCHANGED <<snapshot, issued, host, clients, events>>
    BY <1>6, Zenon DEF FacadeCallThrows
  <2>2. NoCall \in CallRecords /\ CallGood(host, NoCall)
    BY HostAssumption, SMTT(30) DEF NoCall, CallRecords, CallGood, NoClient
  <2>3. calls' \in [FacadeCalls -> CallRecords] /\ \A d \in FacadeCalls : CallGood(host, calls'[d])
    BY Zenon, <1>1, <2>1, <2>2
  <2> QED BY <1>1, <2>1, <2>3, Zenon DEF HostIInv, HostTypes
<1>7. ASSUME NEW g \in Generations, ConfigFails(g) PROVE HostIInv'
  <2>1. /\ clients[g].phase \in {"fetching", "doomed"} /\ clients' = [clients EXCEPT ![g].phase = "failed"]
        /\ UNCHANGED <<snapshot, issued, host, events, calls>>
    BY Zenon, <1>7 DEF ConfigFails
  <2>2. /\ clients' \in [Generations -> ClientRecords]
        /\ \A i \in Generations : /\ clients'[i].state = clients[i].state
                                  /\ clients'[i].phase = IF i = g THEN "failed" ELSE clients[i].phase
    BY Zenon, <1>1, <2>1 DEF ClientRecords
  <2>3. ASSUME NEW i \in Generations PROVE ClientGood(i, host, clients'[i])
    <3>1. ClientGood(i, host, clients[i])
      BY Zenon, <1>1
    <3> QED BY <2>1, <2>2, <3>1, SMTT(30) DEF ClientGood
  <2> QED BY <1>1, <2>1, <2>2, <2>3, Zenon DEF HostIInv, HostTypes
<1>8. ASSUME NEW g \in Generations, ScheduledRefresh(g) PROVE HostIInv'
  <2>1. /\ clients[g].state # NoToken /\ issued' = issued + 1 /\ snapshot' = issued + 1
        /\ clients' = [clients EXCEPT ![g].state = issued + 1]
        /\ host' = ClientSet(host, g, issued + 1) /\ UNCHANGED <<events, calls>>
    BY Zenon, <1>8 DEF ScheduledRefresh
  <2>2. host.sub = g /\ issued + 1 \in Nat /\ issued + 1 # NoToken
    BY <1>1, <2>1 DEF ClientGood, NoToken
  <2>3. /\ host' \in HostRecords /\ host'.promise = host.promise /\ host'.sub = host.sub
        /\ host'.sync = host.sync /\ host'.key = host.key /\ host'.mirror = issued + 1
    BY Zenon, <1>1, <2>1, <2>2, ClientSetFields
  <2>4. /\ clients' \in [Generations -> ClientRecords]
        /\ \A i \in Generations : ClientGood(i, host', clients'[i])
        /\ \A d \in FacadeCalls : CallGood(host', calls[d])
        /\ HostListens(host')
    BY <2>1, <2>2, <2>3, TokenTaken, Zenon
  <2>5. RemovalOnItsWay(host', snapshot', events')
    BY Zenon, <2>1, <2>2 DEF RemovalOnItsWay
  <2> QED BY <1>1, <2>1, <2>2, <2>3, <2>4, <2>5, Zenon DEF HostIInv, HostTypes
<1>9. ASSUME OtherTabWrites PROVE HostIInv'
  <2>1. PICK value \in {NoToken, issued + 1} :
           /\ snapshot' = value /\ events' = Append(events, value)
           /\ issued' = IF value = NoToken THEN issued ELSE value
    BY Zenon, <1>9 DEF OtherTabWrites
  <2>2. UNCHANGED <<host, clients, calls>>
    BY Zenon, <1>9 DEF OtherTabWrites
  <2>3. value \in Nat /\ snapshot' \in Nat /\ issued' \in Nat
    BY <1>1, <2>1, SMTT(30) DEF NoToken
  <2>4. events' \in Seq(Nat) /\ events' # <<>> /\ events'[Len(events')] = value
    BY <1>1, <2>1, <2>3
  <2>5. RemovalOnItsWay(host', snapshot', events')
    BY Zenon, <2>1, <2>4 DEF RemovalOnItsWay
  <2> QED BY <1>1, <2>2, <2>3, <2>4, <2>5, Zenon DEF HostIInv, HostTypes
<1>10. ASSUME NEW g \in Generations, createTokenSetFrontendModeClient(g) PROVE HostIInv'
  <2> DEFINE waiting == \E c \in FacadeCalls : calls[c].gen = g
             h == [host EXCEPT !.key = TRUE]
  <2>1. /\ clients[g].phase \in {"fetching", "doomed"}
        /\ clients' = [clients EXCEPT ![g].phase = IF @ = "fetching" THEN "live" ELSE "disposed"]
        /\ host' = IF waiting THEN ensureTokenSetFrontendModeClientSubscribed(h, g) ELSE h
        /\ calls' = [c \in FacadeCalls |-> IF calls[c].gen = g
                                           THEN [calls[c] EXCEPT !.at = "ready"] ELSE calls[c]]
        /\ UNCHANGED <<snapshot, issued, events>>
    BY Zenon, <1>10 DEF createTokenSetFrontendModeClient
  <2>2. /\ h \in HostRecords /\ h.key = TRUE /\ h.promise = host.promise /\ h.sub = host.sub
        /\ h.sync = host.sync /\ h.mirror = host.mirror
    BY <1>1, Zenon DEF HostRecords
  <2>3. HostListens(h) /\ host.sub # g /\ clients[g].state = NoToken /\ (host.promise = g => host.sub = NoClient)
    BY <1>1, <2>1, <2>2, Zenon DEF HostListens, ClientGood
  <2> HIDE DEF h
  <2>4. /\ clients' \in [Generations -> ClientRecords]
        /\ \A i \in Generations :
              /\ clients'[i].state = clients[i].state
              /\ clients'[i].phase = IF i # g THEN clients[i].phase
                                     ELSE IF clients[g].phase = "fetching" THEN "live" ELSE "disposed"
    BY Zenon, <1>1, <2>1 DEF ClientRecords
  <2>5. calls' \in [FacadeCalls -> CallRecords]
    <3>1. \A c \in FacadeCalls : calls[c] \in CallRecords /\ [calls[c] EXCEPT !.at = "ready"] \in CallRecords
      BY <1>1, Zenon DEF CallRecords
    <3> QED BY Zenon, <2>1, <3>1
  <2>6. ASSUME NEW i \in Generations PROVE ClientGood(i, host, clients[i]) /\ i # NoClient
    BY Zenon, <1>1, <1>2
  <2>7. CASE clients[g].phase = "fetching" /\ waiting
    <3>1. SubscribedTo(g, h, ensureTokenSetFrontendModeClientSubscribed(h, g))
      BY <1>1, <2>2, <2>3, Subscribed, Zenon
    <3>2. host.promise = g
      BY Zenon, <2>6, <2>7 DEF ClientGood
    <3>3. /\ host' \in HostRecords /\ host'.promise = g /\ host'.key = TRUE /\ host'.sub = g
          /\ host'.sync = g /\ host'.mirror = NoToken
      BY <2>1, <2>2, <2>3, <2>7, <3>1, <3>2, Zenon DEF SubscribedTo
    <3>4. ASSUME NEW i \in Generations PROVE ClientGood(i, host', clients'[i])
      BY <2>3, <2>4, <2>6, <2>7, <3>2, <3>3, SMTT(30) DEF ClientGood
    <3>5. ASSUME NEW c \in FacadeCalls PROVE CallGood(host', calls'[c])
      <4>1. CallGood(host, calls[c]) /\ calls[c] \in CallRecords
        BY Zenon, <1>1
      <4>2. CASE calls[c].gen = g
        <5>1. calls'[c].gen = g /\ calls'[c].kind = calls[c].kind /\ calls[c] # NoCall
          BY <1>2, <2>1, <4>1, <4>2, SMTT(30) DEF CallRecords, NoCall
        <5> QED BY <1>2, <3>3, <4>1, <5>1, Zenon DEF CallGood
      <4>3. CASE calls[c].gen # g
        <5>1. calls'[c] = NoCall
          BY <2>1, <3>2, <4>1, <4>3, Zenon DEF CallGood
        <5> QED BY <5>1, SMTT(30) DEF CallGood, NoCall
      <4> QED BY <4>2, <4>3, Zenon
    <3>6. HostListens(host') /\ RemovalOnItsWay(host', snapshot', events')
      BY Zenon, <3>3 DEF HostListens, RemovalOnItsWay
    <3> QED BY <1>1, <2>1, <2>4, <2>5, <3>3, <3>4, <3>5, <3>6, ZenonT(60) DEF HostIInv, HostTypes
  <2>8. CASE ~waiting
    <3>1. host' = h /\ calls' = calls
      <4>1. \A c \in FacadeCalls : calls'[c] = calls[c]
        BY Zenon, <2>1, <2>8
      <4> QED BY <1>1, <2>1, <2>5, <2>8, <4>1, Zenon
    <3>2. ASSUME NEW i \in Generations PROVE ClientGood(i, host', clients'[i])
      <4>1. /\ host'.promise = host.promise /\ host'.key = TRUE /\ host'.sub = host.sub
            /\ host'.mirror = host.mirror
        BY <2>2, <3>1, Zenon
      <4>2. ClientGood(i, host, clients[i]) /\ host.sub # g
        BY <2>3, <2>6, Zenon
      <4>3. CASE i # g
        BY <2>4, <4>1, <4>2, <4>3, Zenon DEF ClientGood
      <4>4. CASE i = g
        <5>1. \/ clients[g].phase = "fetching" /\ clients'[g].phase = "live"
              \/ clients[g].phase = "doomed" /\ clients'[g].phase = "disposed"
          BY <2>1, <2>4, Zenon
        <5> QED BY Zenon, <2>3, <2>4, <4>1, <4>2, <4>4, <5>1 DEF ClientGood
      <4> QED BY <4>3, <4>4, Zenon
    <3>3. \A c \in FacadeCalls : CallGood(host', calls'[c])
      BY <1>1, <2>2, <3>1, Zenon DEF CallGood
    <3>4. RemovalOnItsWay(host', snapshot', events')
      BY <1>1, <2>1, <2>2, <3>1, Zenon DEF RemovalOnItsWay
    <3> QED BY <1>1, <2>1, <2>2, <2>3, <2>4, <2>5, <3>1, <3>2, <3>3, <3>4, Zenon DEF HostIInv, HostTypes
  <2>9. CASE clients[g].phase = "doomed" /\ waiting
    <3>1. host.promise # g
      BY Zenon, <2>6, <2>9 DEF ClientGood
    <3>2. \A c \in FacadeCalls : calls[c].gen # g
      BY <1>1, <1>2, <3>1 DEF CallGood, NoCall
    <3> QED BY Zenon, <2>9, <3>2
  <2> QED BY Zenon, <2>1, <2>7, <2>8, <2>9
<1>11. ASSUME createCrossTabSync PROVE HostIInv'
  <2> DEFINE g == host.sync
             after == onSync(g, Head(events))
             shown == ClientSet(host, g, after)
  <2>1. events # <<>> /\ events' = Tail(events) /\ UNCHANGED <<snapshot, issued, calls>>
    BY Zenon, <1>11 DEF createCrossTabSync
  <2>2. events' \in Seq(Nat) /\ Head(events) \in Nat
    BY <1>1, <2>1, SMTT(30)
  <2>3. CASE Live(g)
    <3>1. g \in Generations /\ host.sub = g /\ host.mirror = clients[g].state
      BY <1>1, <1>2, <2>3, Zenon DEF Live, HostListens, ClientGood
    <3>2. after \in Nat /\ (snapshot = NoToken /\ after # NoToken => Head(events) # NoToken /\ after = host.mirror)
      BY <1>1, <1>2, <2>2, <3>1, Zenon DEF onSync, NoToken
    <3>3. /\ clients' = [clients EXCEPT ![g].state = after]
          /\ host' = [shown EXCEPT !.status = reconcileFrontendModeCrossTabStatus(@, after)]
      BY <1>11, <2>3, Zenon DEF createCrossTabSync
    <3> HIDE DEF after
    <3>4. /\ shown \in HostRecords /\ shown.promise = host.promise /\ shown.sub = host.sub
          /\ shown.sync = host.sync /\ shown.key = host.key /\ shown.mirror = after
      <4>1. /\ shown \in HostRecords /\ shown.promise = host.promise /\ shown.sub = host.sub
            /\ shown.sync = host.sync /\ shown.key = host.key
            /\ shown.mirror = IF host.sub = g THEN after ELSE host.mirror
        BY <1>1, <3>1, <3>2, ClientSetFields, ZenonT(60)
      <4> QED BY Zenon, <3>1, <4>1
    <3> HIDE DEF shown
    <3>5. /\ host' \in HostRecords /\ host'.promise = host.promise /\ host'.sub = host.sub
          /\ host'.sync = host.sync /\ host'.key = host.key /\ host'.mirror = after
      BY Zenon, <3>2, <3>3, <3>4 DEF HostRecords, reconcileFrontendModeCrossTabStatus
    <3>6. /\ clients' \in [Generations -> ClientRecords]
          /\ \A i \in Generations : ClientGood(i, host', clients'[i])
          /\ \A d \in FacadeCalls : CallGood(host', calls[d])
          /\ HostListens(host')
      BY <3>1, <3>2, <3>3, <3>5, TokenTaken, ZenonT(60)
    <3>7. ASSUME snapshot = NoToken, after # NoToken
          PROVE events' # <<>> /\ events'[Len(events')] = NoToken
      <4>1. events[Len(events)] = NoToken /\ events[1] # NoToken
        BY <1>1, <1>2, <2>1, <3>1, <3>2, <3>7, SMTT(30) DEF RemovalOnItsWay
      <4>2. Len(events) \in Nat /\ Len(events) > 1
        BY <1>1, <2>1, <4>1, SMTT(30)
      <4>3. Len(events') = Len(events) - 1 /\ events'[Len(events) - 1] = events[Len(events)]
        BY <1>1, <2>1, <4>2, SMTT(30)
      <4> QED BY <4>1, <4>2, <4>3, SMTT(30)
    <3>8. RemovalOnItsWay(host', snapshot', events')
      BY <2>1, <3>5, <3>7, ZenonT(60) DEF RemovalOnItsWay
    <3> QED BY <1>1, <2>1, <2>2, <3>5, <3>6, <3>8, Zenon DEF HostIInv, HostTypes
  <2>4. CASE ~Live(g)
    <3>1. UNCHANGED <<clients, host>>
      BY Zenon, <1>11, <2>4 DEF createCrossTabSync
    <3>2. host.sub = NoClient
      BY <1>1, <1>2, <2>4, Zenon DEF Live, HostListens, ClientGood
    <3>3. RemovalOnItsWay(host, snapshot, events')
      BY Zenon, <3>2 DEF RemovalOnItsWay
    <3> QED BY <1>1, <2>1, <2>2, <3>1, <3>3, Zenon DEF HostIInv, HostTypes
  <2> QED BY Zenon, <2>3, <2>4
<1>12. ASSUME dispose PROVE HostIInv'
  <2> DEFINE g == host.promise
             discarded == CASE clients[g].phase = "live"     -> [phase |-> "disposed", state |-> NoToken]
                        [] clients[g].phase = "fetching" -> [clients[g] EXCEPT !.phase = "doomed"]
                        [] OTHER                         -> clients[g]
  <2>1. /\ g # NoClient /\ \A c \in FacadeCalls : calls[c] = NoCall
        /\ host' = FreshHost /\ UNCHANGED <<snapshot, issued, events, calls>>
        /\ clients' = [clients EXCEPT ![g] = discarded]
    BY Zenon, <1>12 DEF dispose
  <2>2. g \in Generations /\ clients[g] \in ClientRecords /\ ClientGood(g, host, clients[g])
    BY <1>1, <1>2, <2>1, Zenon
  <2>3. /\ discarded \in ClientRecords /\ discarded.state = NoToken
        /\ discarded.phase \notin {"fetching", "live"}
    <3>1. CASE clients[g].phase = "live"
      BY Zenon, <3>1 DEF ClientRecords, NoToken
    <3>2. CASE clients[g].phase = "fetching"
      BY Zenon, <2>2, <3>2 DEF ClientRecords, ClientGood, NoToken
    <3>3. CASE clients[g].phase \notin {"live", "fetching"}
      BY <2>2, <3>3, Zenon DEF ClientRecords, ClientGood, NoToken
    <3> QED BY <3>1, <3>2, <3>3, Zenon
  <2> HIDE DEF discarded
  <2>4. /\ FreshHost \in HostRecords /\ FreshHost.promise = NoClient /\ FreshHost.sub = NoClient
        /\ FreshHost.sync = NoClient
    BY HostAssumption, SMTT(30) DEF FreshHost, HostRecords, NoClient, NoToken
  <2>5. ASSUME NEW i \in Generations PROVE ClientGood(i, FreshHost, clients'[i])
    <3>1. ClientGood(i, host, clients[i]) /\ i # NoClient
      BY Zenon, <1>1, <1>2
    <3>2. i # g => clients[i].phase \notin {"fetching", "live"} /\ clients[i].state = NoToken
      BY <1>1, <3>1, ZenonT(60) DEF ClientGood, HostListens
    <3> QED BY <1>1, <2>1, <2>2, <2>3, <2>4, <3>1, <3>2, ZenonT(60) DEF ClientGood
  <2>6. clients' \in [Generations -> ClientRecords]
    BY <1>1, <2>1, <2>2, <2>3, Zenon
  <2>7. \A c \in FacadeCalls : CallGood(FreshHost, calls[c])
    BY <2>1, SMTT(30) DEF CallGood, NoCall
  <2>8. HostListens(FreshHost) /\ RemovalOnItsWay(FreshHost, snapshot, events)
    BY Zenon, <2>4 DEF HostListens, RemovalOnItsWay
  <2> QED BY <1>1, <2>1, <2>4, <2>5, <2>6, <2>7, <2>8, Zenon DEF HostIInv, HostTypes
<1>13. CASE UNCHANGED hostVars
  BY <1>1, <1>13, Zenon DEF hostVars, HostIInv, HostTypes
<1> QED BY <1>3, <1>4, <1>5, <1>6, <1>7, <1>8, <1>9, <1>10, <1>11, <1>12, <1>13, Zenon DEF HostNext, Generations

(* A tab that listens to the others and has handled every storage event    *)
(* fronts one live client, shows that client's snapshot, and is signed out *)
(* once the shared snapshot is gone, when the facade is not disposed of in *)
(* the middle of a call.                                                   *)
THEOREM HostTabsAgree ==
    ASSUME ~DisposeMidCall
    PROVE HostSpec => []TabsAgree
<1>1. HostInit => HostIInv
  <2> SUFFICES ASSUME HostInit PROVE HostIInv
    BY Zenon
  <2>1. /\ FreshHost \in HostRecords /\ FreshHost.promise = NoClient /\ FreshHost.sub = NoClient
        /\ FreshHost.sync = NoClient
    BY HostAssumption, SMTT(30) DEF FreshHost, HostRecords, NoClient, NoToken
  <2>2. /\ clients \in [Generations -> ClientRecords]
        /\ \A g \in Generations : clients[g].phase = "unmade" /\ clients[g].state = NoToken
    BY Zenon DEF HostInit, Generations, ClientRecords, NoToken
  <2>3. NoCall \in CallRecords /\ CallGood(FreshHost, NoCall)
    BY HostAssumption, SMTT(30) DEF NoCall, CallRecords, CallGood, NoClient
  <2>4. calls \in [FacadeCalls -> CallRecords] /\ \A c \in FacadeCalls : calls[c] = NoCall
    BY Zenon, <2>3 DEF HostInit
  <2>5. snapshot \in Nat /\ issued \in Nat /\ events \in Seq(Nat) /\ host = FreshHost
    BY SMTT(30) DEF HostInit, NoToken
  <2>6. \A g \in Generations : ClientGood(g, host, clients[g])
    BY <2>1, <2>2, <2>5 DEF ClientGood, Generations, NoClient
  <2> QED BY <2>1, <2>2, <2>3, <2>4, <2>5, <2>6, Zenon DEF HostIInv, HostTypes, HostListens, RemovalOnItsWay
<1>2. HostIInv /\ [HostNext]_hostVars => HostIInv'
  BY Zenon, HostStep
<1>3. HostIInv => TabsAgree
  <2> SUFFICES ASSUME HostIInv, host.sync # NoClient, events = <<>>
               PROVE LET g == host.promise IN
                     /\ Live(g) /\ host.sub = g /\ host.sync = g
                     /\ host.mirror = clients[g].state
                     /\ snapshot = NoToken => host.mirror = NoToken
    BY Zenon DEF TabsAgree
  <2>1. host.sub # NoClient /\ host.sub = host.promise /\ host.sync = host.promise
    BY Zenon DEF HostIInv, HostListens
  <2>2. host.promise \in Generations
    BY <2>1, HostAssumption, SMTT(30) DEF HostIInv, HostTypes, HostRecords, Generations, NoClient
  <2>3. clients[host.promise].phase = "live" /\ host.mirror = clients[host.promise].state
    BY Zenon, <2>1, <2>2 DEF HostIInv, ClientGood
  <2>4. snapshot = NoToken => host.mirror = NoToken
    BY <2>1, Zenon DEF HostIInv, RemovalOnItsWay
  <2> QED BY Zenon, <2>1, <2>3, <2>4 DEF Live
<1> QED BY <1>1, <1>2, <1>3, PTL DEF HostSpec
=============================================================================
