------------------------- MODULE FrameworkAdapters -------------------------
(***************************************************************************)
(* What the React and the Angular packages add around the token-set core:  *)
(* who disposes the registry and the clients that a provider makes, the    *)
(* service that shows a client's state to the framework, and the callback  *)
(* page that resumes a login and leads the browser on.                     *)
(*                                                                         *)
(* React runs the effects of a commit in one task: a StrictMode mount runs *)
(* effect, cleanup and effect, and a changed dependency cleanup and        *)
(* effect.  Disposal waits for a microtask, and microtasks run before the  *)
(* next task.  Angular disposes in DestroyRef.onDestroy.                   *)
(***************************************************************************)
EXTENDS Naturals, Sequences

CONSTANTS
    Managed,       \* what providers make in turn: the registry, or the clients
                   \* of BackendOidcModeContextProvider, one per configuration
    MaxMaterial,   \* bound: token states a client goes through
    StrictMode     \* React's development double mount

ASSUME AdapterAssumption == Managed \subseteq Nat \ {0} /\ StrictMode \in BOOLEAN

VARIABLES
    made,          \* managed objects made so far: 1..made
    mounts,        \* mountCountRef, lifecycleMountsRef: [Managed -> mounts]
    microtasks,    \* queued disposal checks
    gone,          \* disposed objects
    rendered,      \* 0, or the object of the mounted provider
    clientState,      \* the client's state signal; 0 is null
    authState,     \* the Angular service's signal
    bridged,       \* the bridge of signal-bridge.ts is subscribed
    callbackPage           \* the callback page

adapterVars == <<made, mounts, microtasks, gone, rendered, clientState, authState, bridged, callbackPage>>
managedVars == <<made, mounts, microtasks, gone, rendered>>
serviceVars == <<clientState, authState, bridged>>

NoPage == [url |-> "none", attempt |-> "none", told |-> 0, shown |-> FALSE]

AdapterInit ==
    /\ made = 0 /\ rendered = 0 /\ microtasks = <<>> /\ gone = {}
    /\ mounts = [o \in Managed |-> 0]
    /\ clientState = 0 /\ authState = 0 /\ bridged = FALSE
    /\ callbackPage = NoPage

-----------------------------------------------------------------------------
(* The effect of a provider and its cleanup: counts, and the checks that   *)
(* the cleanups of one commit queue.                                       *)
EffectRuns(count, o) == [count EXCEPT ![o] = @ + 1]

Cleanup(count, o) == [count EXCEPT ![o] = @ - 1]

CleanupTasks == microtasks = <<>>

(* First render and mount: registration on first render, then the effect,  *)
(* doubled by StrictMode.                                                  *)
MountProvider ==
    /\ CleanupTasks /\ rendered = 0 /\ made + 1 \in Managed
    /\ made' = made + 1 /\ rendered' = made + 1
    /\ mounts' = EffectRuns(mounts, made + 1)
    /\ microtasks' = IF StrictMode THEN <<made + 1>> ELSE <<>>
    /\ UNCHANGED <<gone, serviceVars, callbackPage>>

(* idleWarmup changes: same registry, cleanup and effect in one commit.    *)
ChangeDependency ==
    /\ CleanupTasks /\ rendered # 0
    /\ mounts' = EffectRuns(Cleanup(mounts, rendered), rendered)
    /\ microtasks' = <<rendered>>
    /\ UNCHANGED <<made, gone, rendered, serviceVars, callbackPage>>

(* config or environment change: the memo makes another client.            *)
ChangeConfig ==
    /\ CleanupTasks /\ rendered # 0 /\ made + 1 \in Managed
    /\ made' = made + 1 /\ rendered' = made + 1
    /\ mounts' = EffectRuns(Cleanup(mounts, rendered), made + 1)
    /\ microtasks' = IF StrictMode THEN <<rendered, made + 1>> ELSE <<rendered>>
    /\ UNCHANGED <<gone, serviceVars, callbackPage>>

UnmountProvider ==
    /\ CleanupTasks /\ rendered # 0
    /\ mounts' = Cleanup(mounts, rendered)
    /\ microtasks' = <<rendered>>
    /\ rendered' = 0
    /\ UNCHANGED <<made, gone, serviceVars, callbackPage>>

(* The check looks again at the count before it disposes.                  *)
Abandoned_AtCleanup(o) == TRUE

Abandoned(o) == mounts[o] <= 0

RunMicrotask ==
    /\ microtasks # <<>>
    /\ microtasks' = Tail(microtasks)
    /\ gone' = IF Abandoned(Head(microtasks)) THEN gone \cup {Head(microtasks)} ELSE gone
    /\ UNCHANGED <<made, mounts, rendered, serviceVars, callbackPage>>

-----------------------------------------------------------------------------
(* The Angular service over a client: bridgeToAngularSignal copies at once *)
(* and then on every change, until dispose.                                *)
CreateService ==
    /\ ~bridged /\ authState = 0
    /\ bridged' = TRUE /\ authState' = clientState
    /\ UNCHANGED <<managedVars, clientState, callbackPage>>

MaterialChanges(m) ==
    /\ m # clientState /\ clientState' = m
    /\ authState' = IF bridged THEN m ELSE authState
    /\ UNCHANGED <<managedVars, bridged, callbackPage>>

DisposeService ==
    /\ bridged /\ bridged' = FALSE
    /\ UNCHANGED <<managedVars, clientState, authState, callbackPage>>

-----------------------------------------------------------------------------
(* The callback page.  React: an effect resumes (a second resume of the    *)
(* URL joins the first) and another tells the host once, by the refs.      *)
(* Angular: ngOnInit resumes and navigates, also after it was destroyed.   *)
OpenCallbackPage(url) ==
    /\ ~callbackPage.shown
    /\ callbackPage' = IF url = "callback"
               THEN [url |-> url, attempt |-> "pending", told |-> 0, shown |-> TRUE]
               ELSE [url |-> url, attempt |-> "idle", told |-> 1, shown |-> TRUE]
    /\ UNCHANGED <<managedVars, serviceVars>>

AttemptEnds(outcome) ==
    /\ callbackPage.attempt = "pending"
    /\ callbackPage' = [callbackPage EXCEPT !.attempt = outcome]
    /\ UNCHANGED <<managedVars, serviceVars>>

(* The effect runs on every render with a settled state; resolvedRef and   *)
(* erroredRef let the first one through.                                   *)
TellHost == callbackPage.attempt \in {"resolved", "error"} /\ callbackPage.told = 0

RenderCallbackPage ==
    /\ callbackPage.shown
    /\ TellHost
    /\ callbackPage' = [callbackPage EXCEPT !.told = @ + 1]
    /\ UNCHANGED <<managedVars, serviceVars>>

LeaveCallbackPage ==
    /\ callbackPage.shown /\ callbackPage' = NoPage
    /\ UNCHANGED <<managedVars, serviceVars>>

AdapterNext ==
    \/ MountProvider \/ ChangeDependency \/ ChangeConfig \/ UnmountProvider \/ RunMicrotask
    \/ CreateService \/ DisposeService
    \/ \E m \in 0..MaxMaterial : MaterialChanges(m)
    \/ \E url \in {"callback", "other"} : OpenCallbackPage(url)
    \/ \E outcome \in {"resolved", "error"} : AttemptEnds(outcome)
    \/ RenderCallbackPage \/ LeaveCallbackPage

AdapterSpec == AdapterInit /\ [][AdapterNext]_adapterVars

-----------------------------------------------------------------------------
(* Between two tasks exactly the abandoned objects of the React providers  *)
(* are disposed: a provider on screen never hands out a disposed registry  *)
(* or client, neither after StrictMode's double mount nor after a changed  *)
(* dependency, and one that left or was replaced is not leaked; and the    *)
(* callback page tells its host at most once.                              *)
ProvidersDisposeWhatTheyLeave ==
    /\ CleanupTasks => \A o \in 1..made : o \in gone <=> o # rendered
    /\ callbackPage.told <= 1
=============================================================================
