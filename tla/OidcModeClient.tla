-------------------------- MODULE OidcModeClient --------------------------
(***************************************************************************)
(* The token-set OIDC mode client: BaseOidcModeClient with its auth        *)
(* material controller and persistence, and the callback and refresh flows *)
(* of the backend and the frontend mode.                                   *)
(*                                                                         *)
(* The client runs on one JavaScript thread: what lies between two awaits  *)
(* is one action.  A call of the public API that has not returned is a     *)
(* task; Barrier is the task of the shared refresh (_refreshBarrier).  A   *)
(* task waits for the network (exchange, request, metadata), for the       *)
(* record store (its name is in io) or for the barrier (waiting).  The     *)
(* record stores of the SDK take effect when they are called and settle    *)
(* their promises in the order of the calls, so io is a queue.             *)
(*                                                                         *)
(* HostOverlaps distinguishes two kinds of host.  Without it the host       *)
(* restores before it does anything else, supplies a snapshot only when no  *)
(* store operation is pending, and so clears the memory alone.              *)
(***************************************************************************)
EXTENDS Integers, Sequences

-----------------------------------------------------------------------------
(* The pure token operations (orchestration/token-ops.ts): when a token    *)
(* must be refreshed, until when it may be used, and how a refresh answer  *)
(* is merged.  A token snapshot is a record; access, refresh and login     *)
(* name the grants that its parts come from.  A date is a natural number,  *)
(* None (absent) or Invalid (a string Date cannot parse, whose getTime()   *)
(* is NaN).                                                                *)

CONSTANTS
    None,           \* an absent field, or null
    Invalid,        \* a date string that does not parse
    ClockSkewMs,    \* DEFAULT_CLOCK_SKEW_MS
    RefreshWindowMs \* the configured refreshWindowMs

ASSUME FreshnessAssumption ==
    /\ None # Invalid
    /\ None \notin Int
    /\ Invalid \notin Int
    /\ ClockSkewMs \in Nat
    /\ RefreshWindowMs \in Nat

Dates == {None, Invalid} \cup Nat

\* login names the login that the access token descends from, and refresh the
\* login that the refresh token descends from.
Snapshots ==
    [access : Nat, login : Nat, refresh : {None} \cup Nat,
     issuedAt : Dates, expiresAt : Dates]

Finite(date) == date \in Nat

Least(a, b) == IF a <= b THEN a ELSE b

\* The code divides milliseconds by 4 in floating point; times here are counted
\* in quarters of a millisecond, in which the quotient is a whole number.
ShortTokenCap(s, ms) ==
    IF Finite(s.issuedAt) /\ Finite(s.expiresAt) /\ s.expiresAt > s.issuedAt
    THEN Least(ms, (s.expiresAt - s.issuedAt) \div 4)
    ELSE ms

UsableUntil(s) == s.expiresAt - ShortTokenCap(s, ClockSkewMs)

RefreshAt(s) == UsableUntil(s) - ShortTokenCap(s, RefreshWindowMs)

getTokenFreshness(s, now) ==
    CASE s.expiresAt = None -> "no_expiry"
      [] s.expiresAt = Invalid -> "expired"
      [] Finite(s.expiresAt) /\ UsableUntil(s) <= now -> "expired"
      [] Finite(s.expiresAt) /\ UsableUntil(s) > now /\ RefreshAt(s) <= now -> "refresh_due"
      [] Finite(s.expiresAt) /\ UsableUntil(s) > now /\ RefreshAt(s) > now -> "fresh"

isAccessTokenUsable(s, now) ==
    getTokenFreshness(s, now) \in {"fresh", "refresh_due", "no_expiry"}

shouldRefreshAccessToken(s, now) ==
    /\ s.refresh # None
    /\ getTokenFreshness(s, now) \in {"refresh_due", "expired"}

\* delta.x ?? snapshot.x
Present(new, old) == IF new # None THEN new ELSE old

mergeTokenDelta(s, delta) ==
    [access |-> delta.access,
     login |-> delta.login,
     refresh |-> Present(delta.refresh, s.refresh),
     issuedAt |-> Present(delta.issuedAt, s.issuedAt),
     expiresAt |-> Present(delta.expiresAt, s.expiresAt)]

-----------------------------------------------------------------------------
(* The client                                                              *)

CONSTANTS
    Calls,            \* calls of the public API that may be in flight
    Barrier,          \* the task behind _refreshBarrier
    Mode,             \* "backend" or "frontend"
    Corrupt,          \* a persisted record that does not parse
    MaxSliceMs,       \* MAX_SCHEDULE_SLICE_MS
    Lifetimes,        \* how long granted tokens live; may hold None and Invalid
    MaxGrants,        \* bound: grants by the servers
    MaxTime,          \* bound: the clock
    HostOverlaps,     \* may the host restore while other calls are in flight?
    StoreFails        \* may a store operation reject?

Timers == [fireAt : Int, refreshAt : Int]

ASSUME ClientAssumption ==
    /\ Barrier \notin Calls
    /\ Mode \in {"backend", "frontend"}
    /\ Corrupt \notin Snapshots
    /\ Corrupt # None
    /\ None \notin Snapshots
    /\ None \notin Timers
    /\ MaxSliceMs \in Nat \ {0}
    /\ Lifetimes \subseteq {None, Invalid} \cup Nat
    /\ MaxGrants \in Nat
    /\ MaxTime \in Nat
    /\ HostOverlaps \in BOOLEAN
    /\ StoreFails \in BOOLEAN

VARIABLES
    material,   \* currentSnapshot of the auth material controller
    signal,     \* _stateSignal
    disk,       \* the persisted record
    timer,      \* _refreshHandle: None, or when it fires and its deadline
    disposed,   \* _disposed and the cancelled root token
    task,       \* where every call in flight is, with its locals
    io,         \* unsettled store promises, oldest first
    now,        \* the clock
    grants      \* grants made so far by the servers

vars == <<material, signal, disk, timer, disposed, task, io, now, grants>>

Tasks == Calls \cup {Barrier}

IoPcs == {"saving", "clearing", "loading", "discarding"}

Pcs == IoPcs \cup
    {"idle", "exchange", "request", "metadata", "loaded", "waiting", "resumed",
     "returned", "nothing", "threw"}

Ops == {"none", "callback", "refresh", "clear", "ensure", "restore", "discard"}

\* snap is the snapshot the task works with, ok whether its store operation
\* succeeded.
TaskRecords ==
    [pc : Pcs, op : Ops, snap : {None, Corrupt} \cup Snapshots, ok : BOOLEAN]

StoreTask(pc, op, snap, ok) == [pc |-> pc, op |-> op, snap |-> snap, ok |-> ok]

Task(pc, op, snap) == [pc |-> pc, op |-> op, snap |-> snap, ok |-> TRUE]

Idle == Task("idle", "none", None)

TypeOK ==
    /\ material \in {None} \cup Snapshots
    /\ signal \in {None} \cup Snapshots
    /\ disk \in {None, Corrupt} \cup Snapshots
    /\ timer \in {None} \cup Timers
    /\ disposed \in BOOLEAN
    /\ task \in [Tasks -> TaskRecords]
    /\ io \in Seq(Tasks)
    /\ now \in Nat
    /\ grants \in Nat

-----------------------------------------------------------------------------
(* Scheduling and the refresh barrier.                                     *)

Refreshable(s) == s # None /\ s.expiresAt # None /\ s.refresh # None

\* _scheduleRefresh refreshes at once: the deadline has passed or is no date.
DueNow(s) ==
    /\ Refreshable(s)
    /\ Finite(s.expiresAt) => RefreshAt(s) <= now

\* The timer that _scheduleRefresh leaves behind.
ScheduledTimer(s) ==
    IF ~disposed /\ Refreshable(s) /\ ~DueNow(s)
    THEN [fireAt |-> Least(RefreshAt(s), now + MaxSliceMs), refreshAt |-> RefreshAt(s)]
    ELSE None

\* The synchronous part of refresh(), up to its first await.
RefreshCall(s) ==
    IF s = None \/ s.refresh = None THEN Task("nothing", "refresh", None)
    ELSE IF disposed THEN Task("threw", "refresh", None)
    ELSE Task("request", "refresh", s)

\* _refreshThroughBarrier: join the refresh in flight or start one.
RefreshThroughBarrier(b, s) == IF b.pc = "idle" THEN RefreshCall(s) ELSE b

\* What _scheduleRefresh does to the barrier.
ScheduledBarrier(b, s) ==
    IF ~disposed /\ DueNow(s) THEN RefreshThroughBarrier(b, s) ELSE b

\* An exception leaves the flow of task t.
Throw(t) == IF t = Barrier THEN Task("threw", "refresh", None) ELSE Idle

\* A flow of task t returns snapshot s.
Return(t, s) == IF t = Barrier THEN Task("returned", "refresh", s) ELSE Idle

\* The barrier is given up before its promise settles.
SettleBarrier_LosesJoiners(result) == task' = [task EXCEPT ![Barrier] = Idle]

\* The barrier promise settles with result and its joiners go on.
SettleBarrier(result) ==
    task' = [t \in Tasks |->
        IF t = Barrier THEN Idle
        ELSE IF task[t].pc = "waiting" THEN Task("resumed", task[t].op, result)
        ELSE task[t]]

\* Without HostOverlaps no call starts during a restore.
Restoring == \E c \in Calls : task[c].pc \in {"loading", "loaded", "discarding"}

MayCall(c) ==
    /\ task[c].pc = "idle"
    /\ ~disposed
    /\ HostOverlaps \/ ~Restoring

StoreResults == IF StoreFails THEN BOOLEAN ELSE {TRUE}

-----------------------------------------------------------------------------
(* Applying and clearing: every write of the material with its store call.  *)

\* applySnapshot of the controller and the await of the save.
ApplySnapshot(t, s, op) ==
    \E ok \in StoreResults :
        /\ material' = s
        /\ disk' = IF ok THEN s ELSE disk
        /\ io' = Append(io, t)
        /\ task' = [task EXCEPT ![t] = StoreTask("saving", op, s, ok)]

\* clearState up to its await, called by task t.
BeginClear_KeepsTimer(t, op) ==
    \E ok \in StoreResults :
        /\ material' = None
        /\ disk' = IF ok THEN None ELSE disk
        /\ io' = Append(io, t)
        /\ task' = [task EXCEPT ![t] = StoreTask("clearing", op, None, ok)]
        /\ UNCHANGED timer

BeginClear(t, op) ==
    \E ok \in StoreResults :
        /\ material' = None
        /\ disk' = IF ok THEN None ELSE disk
        /\ io' = Append(io, t)
        /\ task' = [task EXCEPT ![t] = StoreTask("clearing", op, None, ok)]
        /\ timer' = None

\* clearState that forgets the signal.
ClearDone_KeepsSignal(t) ==
    /\ io # <<>> /\ Head(io) = t
    /\ task[t].pc = "clearing"
    /\ io' = Tail(io)
    /\ IF t # Barrier THEN task' = [task EXCEPT ![t] = Idle] ELSE SettleBarrier(None)
    /\ UNCHANGED <<material, signal, disk, timer, disposed, now, grants>>

\* The rest of clearState, and what its caller does then.
ClearDone(t) ==
    /\ io # <<>> /\ Head(io) = t
    /\ task[t].pc = "clearing"
    /\ io' = Tail(io)
    /\ signal' = IF task[t].ok THEN None ELSE signal
    /\ IF t # Barrier THEN task' = [task EXCEPT ![t] = Idle]
       ELSE IF ~task[t].ok /\ task[t].op = "discard"
            THEN task' = [task EXCEPT ![t] = Throw(t)]
            ELSE SettleBarrier(None)
    /\ UNCHANGED <<material, disk, timer, disposed, now, grants>>

\* clearState of the public API.
ClearState(c) ==
    /\ MayCall(c)
    /\ BeginClear(c, "clear")
    /\ UNCHANGED <<signal, disposed, now, grants>>

\* clearState({ clearPersisted: false }) does not call the store: it goes on
\* before the calls whose store operations are pending.
ClearMemory(c) ==
    /\ MayCall(c)
    /\ HostOverlaps \/ io = <<>>
    /\ material' = None
    /\ timer' = None
    /\ io' = <<c>> \o io
    /\ task' = [task EXCEPT ![c] = StoreTask("clearing", "clear", None, TRUE)]
    /\ UNCHANGED <<signal, disk, disposed, now, grants>>

\* clearPersistedState: only the record goes.
ClearPersistedState ==
    /\ disk' = None
    /\ UNCHANGED <<material, signal, timer, disposed, task, io, now, grants>>

\* The save of _applySnapshot or of a refresh has settled.
SaveDone_KeepsOldTimer(t) ==
    /\ io # <<>> /\ Head(io) = t
    /\ task[t].pc = "saving"
    /\ io' = Tail(io)
    /\ signal' = task[t].snap
    /\ task' = [task EXCEPT ![t] = Return(t, task[t].snap)]
    /\ UNCHANGED <<material, disk, timer, disposed, now, grants>>

SaveDone(t) ==
    /\ io # <<>> /\ Head(io) = t
    /\ task[t].pc = "saving"
    /\ io' = Tail(io)
    /\ IF task[t].ok
       THEN /\ signal' = task[t].snap
            /\ timer' = ScheduledTimer(material)
            /\ task' = [u \in Tasks |->
                   IF u = t THEN Return(t, task[t].snap)
                   ELSE IF u = Barrier THEN ScheduledBarrier(task[Barrier], material)
                   ELSE task[u]]
       ELSE /\ task' = [task EXCEPT ![t] = Throw(t)]
            /\ UNCHANGED <<signal, timer>>
    /\ UNCHANGED <<material, disk, disposed, now, grants>>

-----------------------------------------------------------------------------
(* Login callbacks and refreshes.                                          *)

ExpiryDates == {IF Finite(l) THEN now + l ELSE l : l \in Lifetimes}

\* A token answer.
Granted(login, refresh, expiresAt) ==
    [access |-> grants + 1, login |-> login, refresh |-> refresh,
     issuedAt |-> None, expiresAt |-> expiresAt]

\* The snapshot made of an answer: only the frontend mode dates it.
TokenSnapshot(answer) ==
    IF Mode = "frontend" THEN [answer EXCEPT !.issuedAt = now] ELSE answer

\* handleCallback, handleCallbackBody: up to the first await.
HandleCallback(c) ==
    /\ MayCall(c)
    /\ task' = [task EXCEPT ![c] = Task("exchange", "callback", None)]
    /\ UNCHANGED <<material, signal, disk, timer, disposed, io, now, grants>>

\* The tokens of a callback have arrived; its metadata is resolved next.
ExchangeAnswered(c) ==
    /\ task[c].pc = "exchange"
    /\ grants < MaxGrants
    /\ grants' = grants + 1
    /\ \E refresh \in {None, grants + 1}, expiresAt \in ExpiryDates :
           task' = [task EXCEPT ![c] =
               IF disposed THEN Throw(c)
               ELSE Task("metadata", "callback", Granted(grants + 1, refresh, expiresAt))]
    /\ UNCHANGED <<material, signal, disk, timer, disposed, io, now>>

\* The answer to a refresh request.  The frontend mode falls back to the refresh
\* token of the snapshot it started from, the backend mode merges later.
RefreshAnswered(t) ==
    /\ task[t].pc = "request"
    /\ grants < MaxGrants
    /\ grants' = grants + 1
    /\ \E rotated \in BOOLEAN, expiresAt \in ExpiryDates :
           LET current == task[t].snap
               refresh == IF rotated \/ Mode = "frontend" THEN current.refresh ELSE None
           IN  task' = [task EXCEPT ![t] =
                   IF disposed THEN Throw(t)
                   ELSE Task("metadata", "refresh",
                             Granted(current.refresh, refresh, expiresAt))]
    /\ UNCHANGED <<material, signal, disk, timer, disposed, io, now>>

\* A request fails, or its answer is refused.
RequestFailed(t) ==
    /\ task[t].pc \in {"exchange", "request", "metadata"}
    /\ task' = [task EXCEPT ![t] = Throw(t)]
    /\ UNCHANGED <<material, signal, disk, timer, disposed, io, now, grants>>

\* Metadata is resolved; the backend mode looks again whether the client is
\* still operational, the frontend mode does not.
CallbackApplies(c) ==
    /\ task[c].pc = "metadata"
    /\ task[c].op = "callback"
    /\ Mode = "backend" => ~disposed
    /\ ApplySnapshot(c, TokenSnapshot(task[c].snap), "callback")
    /\ UNCHANGED <<signal, timer, disposed, now, grants>>

\* applyDelta without its check that there is a snapshot to merge into.
RefreshApplies_IntoNothing(t) ==
    /\ task[t].pc = "metadata"
    /\ task[t].op = "refresh"
    /\ Mode = "backend" => ~disposed
    /\ ApplySnapshot(t, IF Mode = "backend" /\ material # None
                        THEN mergeTokenDelta(material, task[t].snap)
                        ELSE TokenSnapshot(task[t].snap), "refresh")
    /\ UNCHANGED <<signal, timer, disposed, now, grants>>

\* The frontend mode takes the refresh token to keep from the snapshot of this
\* moment and not from the one that it refreshed.
RefreshApplies_KeepsCurrentRefresh(t) ==
    /\ task[t].pc = "metadata"
    /\ task[t].op = "refresh"
    /\ material # None
    /\ ApplySnapshot(t, [TokenSnapshot(task[t].snap) EXCEPT !.refresh = material.refresh], "refresh")
    /\ UNCHANGED <<signal, timer, disposed, now, grants>>

\* The backend mode merges the answer into the snapshot of this moment, the
\* frontend mode replaces the snapshot.
RefreshApplies(t) ==
    /\ task[t].pc = "metadata"
    /\ task[t].op = "refresh"
    /\ Mode = "backend" => ~disposed /\ material # None
    /\ ApplySnapshot(t, IF Mode = "backend"
                        THEN mergeTokenDelta(material, task[t].snap)
                        ELSE TokenSnapshot(task[t].snap), "refresh")
    /\ UNCHANGED <<signal, timer, disposed, now, grants>>

\* refresh() called by the host, outside the barrier.
Refresh(c) ==
    /\ MayCall(c)
    /\ RefreshCall(material).pc = "request"
    /\ task' = [task EXCEPT ![c] = RefreshCall(material)]
    /\ UNCHANGED <<material, signal, disk, timer, disposed, io, now, grants>>

\* The barrier after refresh() returned a snapshot.
BarrierReturns ==
    /\ task[Barrier].pc = "returned"
    /\ SettleBarrier(task[Barrier].snap)
    /\ UNCHANGED <<material, signal, disk, timer, disposed, io, now, grants>>

\* The barrier after refresh() returned null or threw: the state is cleared.
\* A failed clear of the first kind is tried once more by the catch block.
BarrierFails ==
    /\ task[Barrier].pc \in {"nothing", "threw"}
    /\ IF disposed
       THEN SettleBarrier(None) /\ UNCHANGED <<material, disk, timer, io>>
       ELSE BeginClear(Barrier, IF task[Barrier].pc = "nothing" THEN "discard" ELSE "clear")
    /\ UNCHANGED <<signal, disposed, now, grants>>

-----------------------------------------------------------------------------
(* Ensuring and restoring.                                                 *)

Stale(s) == getTokenFreshness(s, now) \in {"refresh_due", "expired"}

\* ensureAuthForResource for a stale token that only has to be refreshed in the
\* background: it returns the token and lets the barrier run.
EnsureInBackground(c) ==
    /\ MayCall(c)
    /\ material # None
    /\ getTokenFreshness(material, now) = "refresh_due"
    /\ shouldRefreshAccessToken(material, now)
    /\ task' = [task EXCEPT ![Barrier] = RefreshThroughBarrier(task[Barrier], material)]
    /\ UNCHANGED <<material, signal, disk, timer, disposed, io, now, grants>>

\* ensureAuthForResource for a stale token that cannot be refreshed.
EnsureWithoutRefresh(c) ==
    /\ MayCall(c)
    /\ material # None
    /\ Stale(material)
    /\ material.refresh = None
    /\ BeginClear(c, "ensure")
    /\ UNCHANGED <<signal, disposed, now, grants>>

\* ensureAuthForResource waits for the barrier.
EnsureByRefresh(c) ==
    /\ MayCall(c)
    /\ material # None
    /\ Stale(material)
    /\ material.refresh # None
    /\ task' = [task EXCEPT ![c] = Task("waiting", "ensure", None),
                            ![Barrier] = RefreshThroughBarrier(task[Barrier], material)]
    /\ UNCHANGED <<material, signal, disk, timer, disposed, io, now, grants>>

\* A joiner of the barrier goes on; restorePersistedState then schedules.
Resume(c) ==
    /\ task[c].pc = "resumed"
    /\ IF task[c].op = "restore" /\ task[c].snap # None
       THEN /\ timer' = ScheduledTimer(material)
            /\ task' = [task EXCEPT ![c] = Idle,
                                    ![Barrier] = ScheduledBarrier(task[Barrier], material)]
       ELSE /\ task' = [task EXCEPT ![c] = Idle]
            /\ UNCHANGED timer
    /\ UNCHANGED <<material, signal, disk, disposed, io, now, grants>>

\* restoreState: the host supplies a snapshot; nothing is saved.
RestoreState ==
    /\ ~disposed
    /\ HostOverlaps \/ (~Restoring /\ io = <<>>)
    /\ grants < MaxGrants
    /\ grants' = grants + 1
    /\ \E refresh \in {None, grants + 1}, expiresAt \in ExpiryDates :
           LET s == Granted(grants + 1, refresh, expiresAt)
           IN  /\ material' = s
               /\ signal' = s
               /\ timer' = ScheduledTimer(s)
               /\ task' = [task EXCEPT ![Barrier] = ScheduledBarrier(task[Barrier], s)]
    /\ UNCHANGED <<disk, disposed, io, now>>

\* restorePersistedState: the record is read.  A disciplined host does this
\* before anything else.
RestorePersistedState(c) ==
    /\ MayCall(c)
    /\ HostOverlaps \/
        /\ material = None /\ signal = None /\ timer = None /\ io = <<>>
        /\ \A t \in Tasks : task[t].pc = "idle"
    /\ \E ok \in StoreResults :
        task' = [task EXCEPT ![c] =
                     Task("loading", "restore", IF ok THEN disk ELSE Corrupt)]
    /\ io' = Append(io, c)
    /\ UNCHANGED <<material, signal, disk, timer, disposed, now, grants>>

\* persistence.load settles: restoreFromPersistence stores the snapshot, or the
\* record is discarded because it does not parse.
LoadDone(c) ==
    /\ io # <<>> /\ Head(io) = c
    /\ task[c].pc = "loading"
    /\ \/ /\ task[c].snap = None
          /\ task' = [task EXCEPT ![c] = Idle]
          /\ io' = Tail(io)
          /\ UNCHANGED <<material, disk>>
       \/ /\ task[c].snap = Corrupt
          /\ task' = [task EXCEPT ![c] = Task("discarding", "restore", None)]
          /\ io' = Append(Tail(io), c)
          /\ \E ok \in StoreResults : disk' = IF ok THEN None ELSE disk
          /\ UNCHANGED material
       \/ /\ task[c].snap \notin {None, Corrupt}
          /\ material' = task[c].snap
          /\ task' = [task EXCEPT ![c] = Task("loaded", "restore", task[c].snap)]
          /\ io' = Tail(io)
          /\ UNCHANGED disk
    /\ UNCHANGED <<signal, timer, disposed, now, grants>>

DiscardDone(c) ==
    /\ io # <<>> /\ Head(io) = c
    /\ task[c].pc = "discarding"
    /\ io' = Tail(io)
    /\ task' = [task EXCEPT ![c] = Idle]
    /\ UNCHANGED <<material, signal, disk, timer, disposed, now, grants>>

\* restorePersistedState goes on: it injects the snapshot, publishes it and
\* ensures that it is fresh.
RestoreInjects(c) ==
    LET s == task[c].snap
    IN  /\ task[c].pc = "loaded"
        /\ ~disposed
        /\ signal' = s
        /\ \/ /\ ~Stale(s)
              /\ material' = s
              /\ task' = [task EXCEPT ![c] = Task("resumed", "restore", s)]
              /\ UNCHANGED <<disk, timer, io>>
           \/ /\ Stale(s) /\ s.refresh = None
              /\ BeginClear(c, "restore")
           \/ /\ Stale(s) /\ s.refresh # None
              /\ material' = s
              /\ task' = [task EXCEPT ![c] = Task("waiting", "restore", None),
                                      ![Barrier] = RefreshThroughBarrier(task[Barrier], s)]
              /\ UNCHANGED <<disk, timer, io>>
        /\ UNCHANGED <<disposed, now, grants>>

RestoreThrows(c) ==
    /\ task[c].pc = "loaded"
    /\ disposed
    /\ task' = [task EXCEPT ![c] = Idle]
    /\ UNCHANGED <<material, signal, disk, timer, disposed, io, now, grants>>

-----------------------------------------------------------------------------
(* The refresh timer, the life of the client, and the clock.               *)

\* The slice callback only looks at the clock once.
TimerFires_LosesSlice ==
    /\ timer # None
    /\ timer.fireAt <= now
    /\ timer' = None
    /\ IF timer.refreshAt > now
       THEN UNCHANGED task
       ELSE task' = [task EXCEPT ![Barrier] = RefreshThroughBarrier(task[Barrier], material)]
    /\ UNCHANGED <<material, signal, disk, disposed, io, now, grants>>

TimerFires ==
    /\ timer # None
    /\ timer.fireAt <= now
    /\ IF timer.refreshAt > now
       THEN /\ timer' = ScheduledTimer(material)
            /\ task' = [task EXCEPT ![Barrier] = ScheduledBarrier(task[Barrier], material)]
       ELSE /\ timer' = None
            /\ task' = [task EXCEPT ![Barrier] = RefreshThroughBarrier(task[Barrier], material)]
    /\ UNCHANGED <<material, signal, disk, disposed, io, now, grants>>

Dispose ==
    /\ ~disposed
    /\ disposed' = TRUE
    /\ timer' = None
    /\ signal' = None
    /\ UNCHANGED <<material, disk, task, io, now, grants>>

\* The page is closed at any moment and a new client is constructed.
Construct ==
    /\ material' = None
    /\ signal' = None
    /\ timer' = None
    /\ disposed' = FALSE
    /\ task' = [t \in Tasks |-> Idle]
    /\ io' = <<>>
    /\ UNCHANGED <<disk, now, grants>>

Tick ==
    /\ now < MaxTime
    /\ now' = now + 1
    /\ UNCHANGED <<material, signal, disk, timer, disposed, task, io, grants>>

Init ==
    /\ material = None
    /\ signal = None
    /\ disk \in {None, Corrupt}
    /\ timer = None
    /\ disposed = FALSE
    /\ task = [t \in Tasks |-> Idle]
    /\ io = <<>>
    /\ now = 0
    /\ grants = 0

FlowStep(t) ==
    \/ RequestFailed(t) \/ RefreshAnswered(t) \/ RefreshApplies(t)
    \/ SaveDone(t) \/ ClearDone(t)

CallStep(c) ==
    \/ ExchangeAnswered(c) \/ CallbackApplies(c) \/ Resume(c)
    \/ LoadDone(c) \/ DiscardDone(c) \/ RestoreInjects(c) \/ RestoreThrows(c)

NewCall(c) ==
    \/ HandleCallback(c) \/ Refresh(c) \/ ClearState(c) \/ ClearMemory(c)
    \/ EnsureInBackground(c) \/ EnsureWithoutRefresh(c) \/ EnsureByRefresh(c)
    \/ RestorePersistedState(c)

Next ==
    \/ \E t \in Tasks : FlowStep(t)
    \/ \E c \in Calls : CallStep(c) \/ NewCall(c)
    \/ BarrierReturns \/ BarrierFails \/ TimerFires
    \/ ClearPersistedState \/ RestoreState \/ Dispose \/ Construct \/ Tick

Spec == Init /\ [][Next]_vars

-----------------------------------------------------------------------------
(* Properties.                                                             *)

\* No refresh timer survives a sign-out or a dispose: clearState and dispose
\* cancel it, and _scheduleRefresh arms none for a cleared material.
TimerNeedsMaterial == timer # None => material # None /\ ~disposed

\* No store operation is pending and no restore is half way.
AtRest == io = <<>> /\ ~Restoring

\* restorePersistedState is about to schedule the snapshot that it restored.
RestoreReturning ==
    \E c \in Calls : task[c].pc = "resumed" /\ task[c].op = "restore" /\ task[c].snap # None

\* "Read-only signal exposing the current auth state snapshot": once the store
\* operations of applySnapshot, applyDelta and clearState have settled, the
\* state signal and the auth material are the same.
SignalExposesMaterial == AtRest /\ ~disposed => signal = material

\* A timer has a material, and a fresh token that can be refreshed has a timer
\* aimed at its own refresh time, whatever overlapped before: _scheduleRefresh
\* always uses the current material, and every write of it is followed by a
\* scheduling.
TimerTracksMaterial ==
    /\ TimerNeedsMaterial
    /\ (/\ AtRest /\ ~disposed
        /\ ~RestoreReturning
        /\ Refreshable(material)
        /\ getTokenFreshness(material, now) = "fresh")
       => timer # None /\ timer.refreshAt = RefreshAt(material)

\* A sign-out is not undone by a refresh that was in flight: only a callback or
\* a restore ends the unauthenticated state (applyDelta throws when there is no
\* snapshot).
OnlyLoginsEstablish ==
    [][material = None /\ material' # None
       => \/ RestoreState
          \/ \E c \in Calls : CallbackApplies(c) \/ LoadDone(c) \/ RestoreInjects(c)]_vars

\* The two tokens of a snapshot descend from one login ("Attempt to refresh the
\* current token set").
OneLoginPerSnapshot ==
    material # None /\ material.refresh # None => material.refresh = material.login

-----------------------------------------------------------------------------
(* Liveness.  The browser runs continuations and due timers, requests end,  *)
(* and store operations settle.                                            *)

Continuations(t) ==
    \/ RequestFailed(t) \/ SaveDone(t) \/ ClearDone(t)
    \/ t \in Calls /\ (Resume(t) \/ LoadDone(t) \/ DiscardDone(t)
                       \/ RestoreInjects(t) \/ RestoreThrows(t))
    \/ t = Barrier /\ (BarrierReturns \/ BarrierFails)

ClientFairness ==
    /\ \A t \in Tasks : WF_vars(Continuations(t))
    /\ WF_vars(TimerFires)

\* Every call of the client returns, the ones that joined the barrier included.
CallsReturn == \A c \in Calls : task[c].pc # "idle" ~> task[c].pc = "idle"

\* A scheduled refresh is attempted at its deadline, however many slices the
\* delay is cut into, unless the token is replaced, cleared or disposed.
ScheduledRefreshHappens ==
    (timer # None /\ timer.refreshAt <= MaxTime) ~>
        \/ task[Barrier].pc # "idle"
        \/ disposed
        \/ ~Refreshable(material)
        \/ timer # None /\ timer.refreshAt > MaxTime

=============================================================================
