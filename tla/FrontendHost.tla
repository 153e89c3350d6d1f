---------------------------- MODULE FrontendHost ----------------------------
(***************************************************************************)
(* The web UI's host of the frontend-mode client in one tab: one lazily    *)
(* created client behind a stable facade, the facade's own state signal    *)
(* that mirrors the client's, and the storage-event listener that carries  *)
(* a login or a logout of another tab to this one (tokenSetFrontendMode-   *)
(* Client.ts, cross-tab-sync.ts, input-sources.ts).  The other tabs are    *)
(* the environment: they write and remove the persisted snapshot.          *)
(*                                                                         *)
(* One step is one macrotask.  localStorage is synchronous, so reading the *)
(* persisted snapshot and installing it happen in one macrotask; only the  *)
(* configuration fetch that creates the client and the provider's answers  *)
(* are waited for.  The client is modelled in detail by OidcModeClient;    *)
(* here it is its snapshot, a token or NoToken.                            *)
(***************************************************************************)
EXTENDS Integers, Sequences

CONSTANTS FacadeCalls,      \* calls of the facade, each made at most once at a time
          MaxTokens, MaxClients,
          DisposeMidCall    \* may the facade be disposed of while a call waits?

ASSUME HostAssumption == MaxTokens \in Nat /\ MaxClients \in Nat /\ DisposeMidCall \in BOOLEAN

VARIABLES snapshot,     \* the persisted snapshot
          issued,     \* tokens issued so far
          host,       \* the module-level variables of the host file
          clients,    \* the client objects, by the order they were asked for
          events,     \* storage events not yet delivered to this tab
          calls       \* the facade calls in flight
hostVars == <<snapshot, issued, host, clients, events, calls>>

NoToken == 0
NoClient == 0
Kinds == {"restore", "callback", "refresh", "clear"}
NoCall == [kind |-> "none", gen |-> NoClient, at |-> "none"]

FreshHost == [promise |-> NoClient, key |-> FALSE, sync |-> NoClient,
              sub |-> NoClient, mirror |-> NoToken, status |-> "idle"]

HostInit ==
    /\ snapshot = NoToken /\ issued = 0 /\ events = <<>>
    /\ host = FreshHost
    /\ clients = [g \in 1..MaxClients |-> [phase |-> "unmade", state |-> NoToken]]
    /\ calls = [c \in FacadeCalls |-> NoCall]

Live(g) == g # NoClient /\ clients[g].phase = "live"

(* updateFrontendModeCrossTabStatus: the status shown follows the presence *)
(* of an access token, which is all lastObserved... remembers of it.       *)
reconcileFrontendModeCrossTabStatus(status, token) ==
    IF token # NoToken THEN "hydrated"
    ELSE IF status = "hydrated" THEN "cleared" ELSE status

(* The client's state signal is set; the facade's subscription copies it.  *)
ClientSet(h, g, token) ==
    IF h.sub # g THEN h
    ELSE [h EXCEPT !.mirror = token,
                   !.status = reconcileFrontendModeCrossTabStatus(@, token)]

-----------------------------------------------------------------------------
(* getTokenSetFrontendModeClient: the promise of the client is made once   *)
(* and kept, even rejected, until dispose.                                 *)
getTokenSetFrontendModeClient(c, kind) ==
    \E g \in 1..MaxClients :
       /\ calls[c] = NoCall
       /\ IF host.promise # NoClient THEN g = host.promise
          ELSE clients[g].phase = "unmade" /\ \A made \in 1..g - 1 : clients[made].phase # "unmade"
       /\ calls' = [calls EXCEPT ![c] = [kind |-> kind, gen |-> g, at |-> "client"]]
       /\ host' = [host EXCEPT !.promise = g]
       /\ clients' = [clients EXCEPT ![g].phase = IF @ = "unmade" THEN "fetching" ELSE @]
       /\ UNCHANGED <<snapshot, issued, events>>

(* ensureTokenSetFrontendModeClientSubscribed, after its await: listen to  *)
(* the other tabs and to the client, once each.                            *)
ensureTokenSetFrontendModeClientSubscribed(h, g) ==
    LET synced == IF h.sync = NoClient /\ h.key THEN [h EXCEPT !.sync = g] ELSE h
    IN IF synced.sub = NoClient
       THEN [synced EXCEPT !.sub = g, !.mirror = clients[g].state] ELSE synced

(* createTokenSetFrontendModeClient: the configuration arrives and the     *)
(* storage key is known.  The calls waiting for the client resume and      *)
(* subscribe in the same macrotask; then a client that dispose gave up     *)
(* while it was being made is disposed of.                                 *)
createTokenSetFrontendModeClient(g) ==
    /\ clients[g].phase \in {"fetching", "doomed"}
    /\ clients' = [clients EXCEPT ![g].phase = IF @ = "fetching" THEN "live" ELSE "disposed"]
    /\ LET waiting == \E c \in FacadeCalls : calls[c].gen = g
           h == [host EXCEPT !.key = TRUE]
       IN host' = IF waiting THEN ensureTokenSetFrontendModeClientSubscribed(h, g) ELSE h
    /\ calls' = [c \in FacadeCalls |-> IF calls[c].gen = g
                                       THEN [calls[c] EXCEPT !.at = "ready"] ELSE calls[c]]
    /\ UNCHANGED <<snapshot, issued, events>>

ConfigFails(g) ==
    /\ clients[g].phase \in {"fetching", "doomed"}
    /\ clients' = [clients EXCEPT ![g].phase = "failed"]
    /\ UNCHANGED <<snapshot, issued, host, events, calls>>

(* A call of a client already made resumes at once.                        *)
FacadeResumes(c) ==
    /\ calls[c].at = "client" /\ Live(calls[c].gen)
    /\ calls' = [calls EXCEPT ![c].at = "ready"]
    /\ host' = ensureTokenSetFrontendModeClientSubscribed(host, calls[c].gen)
    /\ UNCHANGED <<snapshot, issued, clients, events>>

(* What each call makes of the client's snapshot.  restorePersistedState   *)
(* leaves the snapshot alone when nothing is stored; a refresh answered    *)
(* after the snapshot is gone is dropped.                                  *)
Outcomes(kind, state) ==
    CASE kind = "restore"  -> {IF snapshot # NoToken THEN snapshot ELSE state}
      [] kind = "callback" -> {issued + 1, state}
      [] kind = "clear"    -> {NoToken}
      [] kind = "refresh"  -> IF state = NoToken THEN {state}
                              ELSE {issued + 1, NoToken, state}

(* A call returns: the client has acted, storing or removing what it       *)
(* persists, and the facade copies the client's state into its own signal. *)
FacadeCall(c) ==
    LET g == calls[c].gen IN
    /\ calls[c].at = "ready" /\ Live(g)
    /\ \E after \in Outcomes(calls[c].kind, clients[g].state) :
          /\ after <= MaxTokens
          /\ issued' = IF after > issued THEN after ELSE issued
          /\ snapshot' = IF calls[c].kind = "clear" \/ after # clients[g].state
                       THEN after ELSE snapshot
          /\ clients' = [clients EXCEPT ![g].state = after]
          /\ host' = [ClientSet(host, g, after) EXCEPT
                        !.mirror = after,
                        !.status = reconcileFrontendModeCrossTabStatus(@, after)]
    /\ calls' = [calls EXCEPT ![c] = NoCall]
    /\ UNCHANGED events

(* The client could not be made, or was disposed of: the call throws.      *)
FacadeCallThrows(c) ==
    /\ calls[c] # NoCall
    /\ clients[calls[c].gen].phase \in {"failed", "disposed"}
    /\ calls' = [calls EXCEPT ![c] = NoCall]
    /\ UNCHANGED <<snapshot, issued, host, clients, events>>

(* The client's own scheduled refresh, without a call of the facade.       *)
ScheduledRefresh(g) ==
    /\ Live(g) /\ clients[g].state # NoToken /\ issued < MaxTokens
    /\ issued' = issued + 1
    /\ snapshot' = issued + 1
    /\ clients' = [clients EXCEPT ![g].state = issued + 1]
    /\ host' = ClientSet(host, g, issued + 1)
    /\ UNCHANGED <<events, calls>>

-----------------------------------------------------------------------------
(* Another tab signs in, refreshes or signs out: the browser queues a      *)
(* storage event for this tab.                                             *)
OtherTabWrites ==
    /\ Len(events) < 2
    /\ \E value \in {NoToken, issued + 1} :
          /\ value # snapshot /\ value <= MaxTokens
          /\ snapshot' = value
          /\ issued' = IF value = NoToken THEN issued ELSE value
          /\ events' = Append(events, value)
    /\ UNCHANGED <<host, clients, calls>>

(* onSync: a removed key signs this tab out in memory, any other value     *)
(* makes the client read the store again.                                  *)
onSync_AlwaysRestores(g, value) ==
    IF snapshot = NoToken THEN clients[g].state ELSE snapshot

onSync(g, value) ==
    IF value = NoToken THEN NoToken
    ELSE IF snapshot = NoToken THEN clients[g].state ELSE snapshot

createCrossTabSync ==
    LET g == host.sync IN
    /\ events # <<>>
    /\ events' = Tail(events)
    /\ IF Live(g)
       THEN LET after == onSync(g, Head(events)) IN
            /\ clients' = [clients EXCEPT ![g].state = after]
            /\ host' = [ClientSet(host, g, after) EXCEPT
                          !.status = reconcileFrontendModeCrossTabStatus(@, after)]
       ELSE UNCHANGED <<clients, host>>
    /\ UNCHANGED <<snapshot, issued, calls>>

(* dispose of the facade: every module-level variable is reset at once,    *)
(* the client itself is disposed of when its promise settles.              *)
dispose ==
    LET g == host.promise IN
    /\ g # NoClient
    /\ DisposeMidCall \/ \A c \in FacadeCalls : calls[c] = NoCall
    /\ host' = FreshHost
    /\ clients' = [clients EXCEPT ![g] =
                     CASE @.phase = "live"     -> [phase |-> "disposed", state |-> NoToken]
                       [] @.phase = "fetching" -> [@ EXCEPT !.phase = "doomed"]
                       [] OTHER                -> @]
    /\ UNCHANGED <<snapshot, issued, events, calls>>

HostNext ==
    \/ \E c \in FacadeCalls :
          \/ \E kind \in Kinds : getTokenSetFrontendModeClient(c, kind)
          \/ FacadeResumes(c)
          \/ FacadeCall(c)
          \/ FacadeCallThrows(c)
    \/ \E g \in 1..MaxClients :
          \/ createTokenSetFrontendModeClient(g)
          \/ ConfigFails(g)
          \/ ScheduledRefresh(g)
    \/ OtherTabWrites
    \/ createCrossTabSync
    \/ dispose

HostSpec == HostInit /\ [][HostNext]_hostVars

-----------------------------------------------------------------------------
(* A tab that listens to the others and has handled every storage event    *)
(* fronts one live client: the facade's state signal, which authorization  *)
(* headers are made from, equals that client's snapshot between calls, and *)
(* once the shared snapshot is gone the tab is signed out too.             *)
TabsAgree ==
    (host.sync # NoClient /\ events = <<>>) =>
        LET g == host.promise IN
        /\ Live(g) /\ host.sub = g /\ host.sync = g
        /\ host.mirror = clients[g].state
        /\ snapshot = NoToken => host.mirror = NoToken
=============================================================================
