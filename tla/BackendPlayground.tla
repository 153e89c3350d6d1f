------------------------- MODULE BackendPlayground -------------------------
(***************************************************************************)
(* The backend-mode playground page of the reference web UI: two forms     *)
(* that create entries, three forward-auth probes that share a status, a   *)
(* propagation probe, refresh and clear.  Each family of requests keeps    *)
(* the cancellation source of its latest request in a ref, and an answer   *)
(* whose source is no longer in the ref is dropped.  The requests of a     *)
(* family, the client's refreshes and the page's effects interleave.       *)
(***************************************************************************)
EXTENDS Naturals, Sequences

CONSTANTS
    PageGroups,     \* the groups the server may list
    MaxRequests     \* bound: requests the page issues

VARIABLES
    signedIn,       \* the client's state signal holds a snapshot
    restore,        \* service.restorePromise
    bootstrap,      \* the page's bootstrap status
    busy,           \* busyAction: "none", "refresh" or "clear"
    groups,         \* groupsQuery.data
    selected,       \* selectedGroupId: {} or {group}
    requests,       \* the requests issued, in order
    refs,           \* the request whose source each ref holds, 0 for none
    status,         \* each family's status and the request it is about
    generated,      \* latestGeneratedEntry and -GroupName: request and group
    basicEntry,     \* latestBasicEntryCredential, likewise
    creating,       \* handleCreateGroup awaits its mutation
    clearFrom,      \* history: requests issued when the running clear began
    forgotten       \* history: requests issued before the last clear

pageVars == <<signedIn, restore, bootstrap, busy, groups, selected, requests,
              refs, status, generated, basicEntry, creating, clearFrom, forgotten>>

Families == {"token_entry", "basic_entry", "forward_auth", "propagation"}
Probes == {"forward_auth", "propagation"}
FamilyOf == [create_token |-> "token_entry", create_basic |-> "basic_entry",
             dashboard_bearer |-> "forward_auth", token_entry |-> "forward_auth",
             basic_entry |-> "forward_auth", propagation |-> "propagation"]

NoEntry == [by |-> 0, group |-> {}]
IdleStatus == [f \in Families |-> [kind |-> "idle", of |-> 0]]
NoRefs == [f \in Families |-> 0]

PlaygroundInit ==
    /\ signedIn = FALSE /\ restore = "pending" /\ bootstrap = "booting"
    /\ busy = "none" /\ groups = {} /\ selected = {}
    /\ requests = <<>> /\ refs = NoRefs /\ status = IdleStatus
    /\ generated = NoEntry /\ basicEntry = NoEntry
    /\ creating = FALSE /\ clearFrom = 0 /\ forgotten = 0

Cancelled(rs, ids) ==
    [i \in DOMAIN rs |-> IF i \in ids THEN [rs[i] EXCEPT !.cancelled = TRUE] ELSE rs[i]]

(* The head of every handler: cancel the source in the ref, put a new one  *)
(* there and show the family as loading.                                   *)
Begin(op, group) ==
    LET f == FamilyOf[op]
        r == Len(requests) + 1
    IN  /\ r <= MaxRequests
        /\ status[f].kind # "loading"
        /\ requests' = Append(Cancelled(requests, {refs[f]}),
                              [op |-> op, group |-> group, cancelled |-> FALSE, open |-> TRUE])
        /\ refs' = [refs EXCEPT ![f] = r]
        /\ status' = [status EXCEPT ![f] = [kind |-> "loading", of |-> r]]
        /\ UNCHANGED <<signedIn, restore, bootstrap, busy, groups, selected,
                       generated, basicEntry, creating, clearFrom, forgotten>>

(* The buttons that need the dashboard bearer.                             *)
BearerReady == bootstrap = "ready" /\ signedIn

handleCreateTokenEntry == BearerReady /\ selected # {} /\ Begin("create_token", selected)

handleCreateBasicEntry == BearerReady /\ selected # {} /\ Begin("create_basic", selected)

handleProbeDashboardBearer ==
    BearerReady /\ selected # {} /\ Begin("dashboard_bearer", selected)

(* The generated credentials are probed without the bearer.                *)
handleProbeGeneratedEntryToken ==
    generated # NoEntry /\ Begin("token_entry", generated.group)

handleProbeGeneratedBasicEntry ==
    basicEntry # NoEntry /\ Begin("basic_entry", basicEntry.group)

handleProbePropagationRoute == BearerReady /\ Begin("propagation", {})

(* A family's Cancel button: refs.current?.cancel().                       *)
CancelRequest(f) ==
    /\ status[f].kind = "loading" /\ refs[f] # 0
    /\ ~requests[refs[f]].cancelled
    /\ requests' = Cancelled(requests, {refs[f]})
    /\ UNCHANGED <<signedIn, restore, bootstrap, busy, groups, selected, refs,
                   status, generated, basicEntry, creating, clearFrom, forgotten>>

(* What a settled request comes to: the transport rejects a cancelled      *)
(* request, a forward-auth probe takes 401 for an answer, the propagation  *)
(* probe takes every status for one.                                       *)
OutcomesOf(r) ==
    LET op == requests[r].op
    IN  CASE requests[r].cancelled -> {"cancelled"}
          [] op \in {"create_token", "create_basic"} -> {"created", "error"}
          [] op = "propagation" -> {"ready", "error"}
          [] OTHER -> {"authenticated", "unauthorized", "error"}

(* Whether the answer of r is still the one its family waits for, the ref  *)
(* comparison that follows every await.                                    *)
StillCurrent_Always(r) == TRUE
StillCurrent(r) == refs[FamilyOf[requests[r].op]] = r

RequestSettles(r) ==
    LET f == FamilyOf[requests[r].op]
        entry == [by |-> r, group |-> requests[r].group]
    IN  /\ requests[r].open
        /\ requests' = [requests EXCEPT ![r].open = FALSE]
        /\ \E kind \in OutcomesOf(r) :
              IF StillCurrent(r)
              THEN /\ status' = [status EXCEPT ![f] = [kind |-> kind, of |-> r]]
                   /\ refs' = [refs EXCEPT ![f] = IF @ = r THEN 0 ELSE @]
                   /\ generated' = IF kind = "created" /\ f = "token_entry" THEN entry ELSE generated
                   /\ basicEntry' = IF kind = "created" /\ f = "basic_entry" THEN entry ELSE basicEntry
              ELSE UNCHANGED <<status, refs, generated, basicEntry>>
        /\ UNCHANGED <<signedIn, restore, bootstrap, busy, groups, selected, creating, clearFrom, forgotten>>

(* The bootstrap effect depends on [service, state]: every new snapshot    *)
(* runs its cleanup, which drops the refs of the two probe families, and   *)
(* its body, which reports the settled restorePromise again.               *)
Detached == [f \in Families |-> IF f \in Probes THEN 0 ELSE refs[f]]

BootstrapStatus(promise) ==
    CASE promise = "pending" -> "booting"
      [] promise = "rejected" -> "error"
      [] OTHER -> "ready"

RestoreSettles ==
    /\ restore = "pending"
    /\ \/ restore' = "resolved" /\ signedIn' \in BOOLEAN
       \/ restore' = "rejected" /\ UNCHANGED signedIn
    /\ bootstrap' = BootstrapStatus(restore')
    /\ refs' = IF signedIn' # signedIn THEN Detached ELSE refs
    /\ UNCHANGED <<busy, groups, selected, requests, status, generated,
                   basicEntry, creating, clearFrom, forgotten>>

(* The client's snapshot changes behind the page: a background refresh, or *)
(* the refresh a bearer request needs first, succeeds or ends the login.   *)
SnapshotChanges ==
    /\ signedIn /\ restore # "pending"
    /\ signedIn' \in BOOLEAN
    /\ refs' = Detached
    /\ bootstrap' = BootstrapStatus(restore)
    /\ UNCHANGED <<restore, busy, groups, selected, requests, status, generated,
                   basicEntry, creating, clearFrom, forgotten>>

handleRefresh ==
    /\ busy = "none" /\ signedIn
    /\ busy' = "refresh"
    /\ UNCHANGED <<signedIn, restore, bootstrap, groups, selected, requests,
                   refs, status, generated, basicEntry, creating, clearFrom, forgotten>>

RefreshReturns ==
    /\ busy = "refresh" /\ busy' = "none"
    /\ UNCHANGED <<signedIn, restore, bootstrap, groups, selected, requests,
                   refs, status, generated, basicEntry, creating, clearFrom, forgotten>>

(* Forget Backend Mode State: every source is cancelled and every ref      *)
(* dropped, then the stores are cleared.  The page stays usable meanwhile. *)
handleClear_KeepsRefs ==
    /\ busy = "none" /\ busy' = "clear"
    /\ requests' = Cancelled(requests, {refs[f] : f \in Families})
    /\ clearFrom' = Len(requests)
    /\ UNCHANGED <<signedIn, restore, bootstrap, groups, selected, refs, status,
                   generated, basicEntry, creating, forgotten>>
handleClear ==
    /\ busy = "none" /\ busy' = "clear"
    /\ requests' = Cancelled(requests, {refs[f] : f \in Families})
    /\ refs' = NoRefs
    /\ clearFrom' = Len(requests)
    /\ UNCHANGED <<signedIn, restore, bootstrap, groups, selected, status,
                   generated, basicEntry, creating, forgotten>>

(* The stores are cleared and the page is reset; the signal's change runs  *)
(* the bootstrap effect again.  When clearing throws, the page stays.      *)
ClearReturns ==
    /\ busy = "clear" /\ busy' = "none" /\ clearFrom' = 0
    /\ \/ /\ signedIn' = FALSE
          /\ bootstrap' = IF restore = "rejected" /\ signedIn THEN "error" ELSE "ready"
          /\ refs' = IF signedIn THEN Detached ELSE refs
          /\ groups' = {} /\ selected' = {}
          /\ status' = IdleStatus
          /\ generated' = NoEntry /\ basicEntry' = NoEntry
          /\ forgotten' = clearFrom
       \/ UNCHANGED <<signedIn, bootstrap, refs, groups, selected, status,
                      generated, basicEntry, forgotten>>
    /\ UNCHANGED <<restore, requests, creating>>

(* The selection effect: a selection outside the list falls back to the    *)
(* list's first group.                                                     *)
Reselected(gs, g) ==
    IF g \subseteq gs /\ g # {} THEN {g} ELSE IF gs = {} THEN {{}} ELSE {{h} : h \in gs}

GroupsAnswer ==
    /\ signedIn
    /\ groups' \in SUBSET PageGroups
    /\ selected' \in Reselected(groups', selected)
    /\ UNCHANGED <<signedIn, restore, bootstrap, busy, requests, refs, status,
                   generated, basicEntry, creating, clearFrom, forgotten>>

SelectGroup ==
    /\ \E g \in groups : selected' = {g}
    /\ UNCHANGED <<signedIn, restore, bootstrap, busy, groups, requests, refs,
                   status, generated, basicEntry, creating, clearFrom, forgotten>>

handleCreateGroup ==
    /\ BearerReady /\ ~creating /\ creating' = TRUE
    /\ UNCHANGED <<signedIn, restore, bootstrap, busy, groups, selected, requests,
                   refs, status, generated, basicEntry, clearFrom, forgotten>>

(* The mutation resolves once the lists were fetched again, which takes a  *)
(* signed-in client; the new group is selected, and stays so if that fetch *)
(* brought it.  Nothing drops this answer after a clear.                   *)
CreateGroupReturns ==
    /\ creating /\ creating' = FALSE
    /\ \/ \E g \in PageGroups \ groups :
             /\ groups' \in {groups, IF signedIn THEN groups \cup {g} ELSE groups}
             /\ selected' \in Reselected(groups', {g})
       \/ UNCHANGED <<groups, selected>>
    /\ UNCHANGED <<signedIn, restore, bootstrap, busy, requests, refs, status,
                   generated, basicEntry, clearFrom, forgotten>>

PlaygroundNext ==
    \/ handleCreateTokenEntry \/ handleCreateBasicEntry
    \/ handleProbeDashboardBearer \/ handleProbeGeneratedEntryToken
    \/ handleProbeGeneratedBasicEntry \/ handleProbePropagationRoute
    \/ \E f \in Families : CancelRequest(f)
    \/ \E r \in DOMAIN requests : RequestSettles(r)
    \/ RestoreSettles \/ SnapshotChanges \/ handleRefresh \/ RefreshReturns
    \/ handleClear \/ ClearReturns \/ GroupsAnswer \/ SelectGroup
    \/ handleCreateGroup \/ CreateGroupReturns

PlaygroundSpec == PlaygroundInit /\ [][PlaygroundNext]_pageVars

(***************************************************************************)
(* What the page shows for a family is about that family's latest request, *)
(* and nothing of a request issued before the page was cleared, neither a  *)
(* status nor a generated credential, is shown after it: late answers of   *)
(* superseded, cancelled or forgotten requests are dropped, those that     *)
(* come while the stores are being cleared included.  A generated          *)
(* credential is kept with the group its request was made for, whatever    *)
(* group was selected by the time it was answered.                         *)
(***************************************************************************)
LateAnswersAreDropped ==
    /\ \A f \in Families : status[f].of # 0 =>
          /\ status[f].of > forgotten
          /\ \A r \in DOMAIN requests : FamilyOf[requests[r].op] = f => r <= status[f].of
    /\ \A e \in {generated, basicEntry} : e # NoEntry =>
          e.by > forgotten /\ e.group = requests[e.by].group

=============================================================================
