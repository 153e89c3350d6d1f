----------------------------- MODULE PageResume -----------------------------
(***************************************************************************)
(* What happens to the tokens of a page that comes back: timers do not run *)
(* in a hidden or frozen page, so the browser's visibilitychange,          *)
(* pageshow, focus and online events each ask the client to check its      *)
(* snapshot, at most once per throttle window (page-resume-reconciler.ts,  *)
(* visibility-reconciler.ts, visibility.ts, and resume-reconciliation.ts,  *)
(* which attaches a reconciler to a client and to its dispose).            *)
(***************************************************************************)
EXTENDS Integers

CONSTANTS ThrottleMs, MaxResumeTime, DueAfter   \* in ticks of the clock

ASSUME ResumeAssumption == ThrottleMs \in Nat /\ MaxResumeTime \in Nat /\ DueAfter \in Nat

VARIABLES resumeClock,
          listensTo,   \* the events the reconciler in use listens to
          page,        \* the document: what it is and what the listener last saw
          reconcilers, \* reconcilers created for the client
          attached,    \* the attached marker on the client object
          pageDisposed,
          lastReconcileAt,
          issuedAt,    \* when the snapshot's token was issued, -1 without one
          refreshing,  \* a refresh asked for by a check is in flight
          skipped,     \* onReconcileSkipped: checks that found nothing due
          lastCheck,   \* history: the time of the last check, -1 for none
          unchecked    \* history: a trigger found no check within the window
resumeVars == <<resumeClock, listensTo, page, reconcilers, attached, pageDisposed, lastReconcileAt,
                issuedAt, refreshing, skipped, lastCheck, unchecked>>

PageResumeTriggerKind == {"visibility", "pageshow", "focus", "online"}

(* The two reconcilers differ in the events they listen to.                *)
createPageResumeReconciler == PageResumeTriggerKind
createVisibilityReconciler == {"visibility"}

(* The clock starts at ThrottleMs: Date.now() is far from 0, where         *)
(* lastReconcileAt starts, so the first trigger is never throttled.        *)
ResumeInit ==
    /\ resumeClock = ThrottleMs
    /\ listensTo \in {createPageResumeReconciler, createVisibilityReconciler}
    /\ \E state \in {"visible", "hidden"} : page = [state |-> state, previous |-> state]
    /\ reconcilers = 0 /\ attached = FALSE /\ pageDisposed = FALSE
    /\ lastReconcileAt = 0
    /\ issuedAt \in {-1, ThrottleMs}
    /\ refreshing = FALSE /\ skipped = 0
    /\ lastCheck = -1 /\ unchecked = FALSE

(* attachTokenSetResumeReconciliation: once per client object, unless the  *)
(* option turns it off; it wraps the client's dispose.                     *)
attachTokenSetResumeReconciliation(resumeReconciliation) ==
    /\ ~pageDisposed
    /\ IF attached \/ ~resumeReconciliation
       THEN UNCHANGED <<attached, reconcilers, page>>
       ELSE /\ attached' = TRUE
            /\ reconcilers' = reconcilers + 1
            /\ page' = [page EXCEPT !.previous = page.state]
    /\ UNCHANGED <<resumeClock, pageDisposed, lastReconcileAt, issuedAt, refreshing,
                   skipped, lastCheck, unchecked>>

(* shouldReconcileTokenSetSnapshot: a snapshot that is due or expired.     *)
shouldReconcileTokenSetSnapshot == issuedAt >= 0 /\ resumeClock - issuedAt >= DueAfter

(* onReconcile: ensureAuthForResource refreshes what is due, through the   *)
(* one refresh that may be in flight, and never clears the state.          *)
onReconcile ==
    /\ refreshing' = (refreshing \/ shouldReconcileTokenSetSnapshot)
    /\ skipped' = IF shouldReconcileTokenSetSnapshot THEN skipped ELSE (skipped + 1) % 2
    /\ lastCheck' = resumeClock

(* reconcile of one trigger: dropped within the throttle window, which is  *)
(* counted from the last trigger that was not dropped.                     *)
reconcile_Debounces(event) ==
    LET now == resumeClock IN
    /\ lastReconcileAt' = now
    /\ IF now - lastReconcileAt < ThrottleMs
       THEN UNCHANGED <<refreshing, skipped, lastCheck>>
       ELSE onReconcile

reconcile(event) ==
    LET now == resumeClock IN
    IF now - lastReconcileAt < ThrottleMs
    THEN UNCHANGED <<lastReconcileAt, refreshing, skipped, lastCheck>>
    ELSE lastReconcileAt' = now /\ onReconcile

Trigger(event) ==
    /\ reconcilers > 0
    /\ reconcile(event)
    /\ unchecked' = (unchecked \/ ~(lastCheck' = resumeClock \/ lastCheck' > resumeClock - ThrottleMs))

(* The document changes visibility; only hidden to visible is a trigger.   *)
VisibilityChange ==
    LET next == IF page.state = "visible" THEN "hidden" ELSE "visible" IN
    /\ page' = [state |-> next, previous |-> IF reconcilers > 0 THEN next ELSE page.previous]
    /\ IF reconcilers > 0 /\ next = "visible" /\ page.previous # "visible"
       THEN Trigger("visibility")
       ELSE UNCHANGED <<lastReconcileAt, refreshing, skipped, lastCheck, unchecked>>
    /\ UNCHANGED <<resumeClock, reconcilers, attached, pageDisposed, issuedAt>>

WindowEvent(event) ==
    /\ Trigger(event)
    /\ UNCHANGED <<resumeClock, page, reconcilers, attached, pageDisposed, issuedAt>>

RefreshAnswers ==
    /\ refreshing
    /\ refreshing' = FALSE
    /\ issuedAt' \in {issuedAt, resumeClock}
    /\ UNCHANGED <<resumeClock, page, reconcilers, attached, pageDisposed, lastReconcileAt,
                   skipped, lastCheck, unchecked>>

(* The wrapped dispose: the reconciler's listeners go with the client.     *)
ClientDispose ==
    /\ ~pageDisposed
    /\ pageDisposed' = TRUE
    /\ reconcilers' = IF attached THEN reconcilers - 1 ELSE reconcilers
    /\ refreshing' = FALSE
    /\ issuedAt' = -1
    /\ UNCHANGED <<resumeClock, page, attached, lastReconcileAt, skipped, lastCheck, unchecked>>

ResumeTick ==
    /\ resumeClock < MaxResumeTime
    /\ resumeClock' = resumeClock + 1
    /\ UNCHANGED <<page, reconcilers, attached, pageDisposed, lastReconcileAt, issuedAt,
                   refreshing, skipped, lastCheck, unchecked>>

ResumeNext ==
    /\ UNCHANGED listensTo
    /\ \/ \E on \in BOOLEAN : attachTokenSetResumeReconciliation(on)
       \/ VisibilityChange
       \/ \E event \in listensTo \ {"visibility"} : WindowEvent(event)
       \/ RefreshAnswers
       \/ ClientDispose
       \/ ResumeTick

ResumeSpec == ResumeInit /\ [][ResumeNext]_resumeVars

-----------------------------------------------------------------------------
(* However many resume events follow each other, a trigger never finds the *)
(* tokens unchecked for a whole throttle window: the throttle drops a      *)
(* trigger only when a check was made less than ThrottleMs before it.      *)
ResumedPageIsChecked == ~unchecked
=============================================================================
