--------------------------- MODULE DashboardData ---------------------------
(***************************************************************************)
(* The groups and entries the dashboard shows: the React Query hooks of    *)
(* the token-set SDK, the webui's session hooks, and the hooks that choose *)
(* between them by the authentication mode.                                *)
(*                                                                         *)
(* One group and one entry stand for the collections. A version counts the *)
(* server's writes; 0 is an item that does not exist. A cached query holds *)
(* the version the server answered with. React Query itself is external:   *)
(* its cache is modelled by what the hooks ask of it.                      *)
(***************************************************************************)
EXTENDS Naturals, Sequences

CONSTANTS
  Names,            \* the queries the pages use: lists and details of items
  DashboardModes,   \* the authentication modes to start from
  Writes,           \* identities of the mutations a page makes
  MaxVersion,       \* bound on the server's writes
  InOrder           \* whether answers arrive in the order they were produced

ASSUME DashboardAssumption ==
  /\ Names \subseteq {"groups", "group", "entries", "entry"}
  /\ DashboardModes \subseteq {"session", "basic", "token-set"}
  /\ MaxVersion \in Nat \ {0}
  /\ InOrder \in BOOLEAN

VARIABLES
  dashboardMode,  \* the authentication mode of the page
  authEnabled,    \* the token-set client has a usable access token
  serverItems,    \* the server's version of each item, 0 when it is absent
  version,        \* the last version written
  queries,        \* the query cache
  mounted,        \* queries some mounted component observes
  writes,         \* the mutations under way
  answers,        \* answers produced and not yet delivered
  unreported,     \* why writes that took effect had their mutation rejected
  signedOut       \* the page has left for the login route

dashboardVars == <<dashboardMode, authEnabled, serverItems, version, queries,
                   mounted, writes, answers, unreported, signedOut>>

Items == {"group", "entry"}
Lists == Names \cap {"groups", "entries"}
ItemOf(n) == IF n \in {"groups", "group"} THEN "group" ELSE "entry"
WriteOps == {"createGroup", "updateGroup", "deleteGroup",
        "createEntry", "updateEntry", "deleteEntry"}
Target(op) == IF op \in {"createGroup", "updateGroup", "deleteGroup"}
              THEN "group" ELSE "entry"
Creates(op) == op \in {"createGroup", "createEntry"}
Deletes(op) == op \in {"deleteGroup", "deleteEntry"}

isTokenSetAuthContextMode(mode) == mode = "token-set"

NoQuery == [data |-> {}, stale |-> TRUE, fetch |-> "none"]
NoWrite == [op |-> "none", at |-> "idle", todo |-> <<>>, waits |-> {}]

(***************************************************************************)
(* Query keys. The token-set keys nest (a group's key starts with the key  *)
(* of the groups), so a list key covers its details; the session keys do   *)
(* not.                                                                    *)
(***************************************************************************)
tokenSetQueryKeys(n) ==
  CASE n = "groups"  -> {"groups", "group"}
    [] n = "entries" -> {"entries", "entry"}
    [] OTHER         -> {n}

Covered(n) ==
  Names \cap IF isTokenSetAuthContextMode(dashboardMode)
             THEN tokenSetQueryKeys(n) ELSE {n}

(***************************************************************************)
(* When a query may fetch: session queries always, token-set queries while *)
(* the client has an access token.                                         *)
(***************************************************************************)
sessionQueryEnabled == TRUE
tokenSetQueryEnabled == authEnabled
isQueryEnabled ==
  IF isTokenSetAuthContextMode(dashboardMode) THEN tokenSetQueryEnabled
                                              ELSE sessionQueryEnabled

Invalidate(keys) == [do |-> "invalidate", keys |-> keys]
Discard(keys) == [do |-> "remove", keys |-> keys]

(***************************************************************************)
(* What each mutation does to the cache once it has succeeded.             *)
(***************************************************************************)
TokenSetGroupOnSuccess(op) ==
  <<Invalidate({"groups"}), Invalidate({"entries"})>>
    \o CASE op = "createGroup" -> <<>>
         [] op = "updateGroup" -> <<Invalidate({"group"})>>
         [] op = "deleteGroup" -> <<Discard({"group"})>>

TokenSetEntryOnSuccess(op) ==
  <<Invalidate({"entries"})>>
    \o CASE op = "createEntry" -> <<>>
         [] op = "updateEntry" -> <<Invalidate({"entry"})>>
         [] op = "deleteEntry" -> <<Discard({"entry"})>>

TokenSetOnSuccess(op) ==
  IF Target(op) = "group" THEN TokenSetGroupOnSuccess(op)
                          ELSE TokenSetEntryOnSuccess(op)

SessionGroupOnSuccess(op) ==
  <<Invalidate({"groups", "entries"}
               \cup IF op = "updateGroup" THEN {"group"} ELSE {})>>

SessionEntryOnSuccess(op) == <<Invalidate({"entries"})>>

OnSuccess_OwnList(op) ==
  IF isTokenSetAuthContextMode(dashboardMode) THEN TokenSetOnSuccess(op)
  ELSE <<Invalidate({IF Target(op) = "group" THEN "groups" ELSE "entries"})>>

OnSuccess(op) ==
  IF isTokenSetAuthContextMode(dashboardMode) THEN TokenSetOnSuccess(op)
  ELSE IF Target(op) = "group" THEN SessionGroupOnSuccess(op)
  ELSE SessionEntryOnSuccess(op)

(***************************************************************************)
(* The status the server answers a write with, and the ones a client takes *)
(* for success.                                                            *)
(***************************************************************************)
ServerDeleteStatus == 200
ServerStatus(op) == IF Deletes(op) THEN ServerDeleteStatus ELSE 200

SessionAccepts(status) == status \in 200..299

deleteGroupWithTokenSet(status) == status = 204
deleteEntryWithTokenSet(status) == status = 204
writeGroupWithTokenSet(status) == status = 200
writeEntryWithTokenSet(status) == status = 200

Accepts(op, status) ==
  IF ~isTokenSetAuthContextMode(dashboardMode) THEN SessionAccepts(status)
  ELSE CASE op = "deleteGroup" -> deleteGroupWithTokenSet(status)
         [] op = "deleteEntry" -> deleteEntryWithTokenSet(status)
         [] op \in {"createGroup", "updateGroup"} -> writeGroupWithTokenSet(status)
         [] OTHER -> writeEntryWithTokenSet(status)

(* What a read answers with: a list is always there, the detail of an item *)
(* that is gone is a 404.                                                  *)
readGroupsWithTokenSet(n, holds) == n \in Lists \/ holds # 0
readEntriesWithTokenSet(n, holds) == n \in Lists \/ holds # 0

ReadSucceeds(n, holds) ==
  IF ItemOf(n) = "group" THEN readGroupsWithTokenSet(n, holds)
                         ELSE readEntriesWithTokenSet(n, holds)

----------------------------------------------------------------------------
(* The query cache.                                                        *)

Active(n) == n \in mounted /\ isQueryEnabled

SentWrite(q) == [q EXCEPT !.fetch = "sent"]

(* A refetch restarts a running fetch of a query that has data, and joins  *)
(* the running first load of one that has none.                            *)
Refetched(q) == IF q.fetch # "none" /\ q.data = {} THEN q ELSE SentWrite(q)

(* An answer to a query or a write: what it says, and the answers produced *)
(* before it that are still on their way.                                  *)
Id(a) == <<a.for, a.who>>

Answer(for, who, says) ==
  [for |-> for, who |-> who, says |-> says, after |-> {Id(a) : a \in answers}]

Without(gone) ==
  {[a EXCEPT !.after = @ \ gone] : a \in {b \in answers : Id(b) \notin gone}}

(* Answers of fetches that were restarted or dropped reach nobody.         *)
Kept(dropped) == Without({"query"} \X dropped)

invalidateQueries(keys) ==
  LET covered == UNION {Covered(k) : k \in keys} IN
  /\ queries' = [n \in Names |->
       IF n \notin covered THEN queries[n]
       ELSE IF Active(n) THEN [Refetched(queries[n]) EXCEPT !.stale = TRUE]
       ELSE [queries[n] EXCEPT !.stale = TRUE]]
  /\ answers' = Kept({n \in covered : Active(n) /\ queries[n].data # {}})

removeQueries(keys) ==
  /\ queries' = [n \in Names |-> IF n \in keys THEN NoQuery ELSE queries[n]]
  /\ answers' = Kept(keys)

(* A mounted query fetches when it may and what it holds is missing or     *)
(* stale.                                                                  *)
useQuery(n) ==
  /\ ~signedOut
  /\ n \notin mounted
  /\ mounted' = mounted \cup {n}
  /\ queries' = [queries EXCEPT ![n] =
       IF isQueryEnabled /\ @.fetch = "none" /\ (@.data = {} \/ @.stale)
       THEN SentWrite(@) ELSE @]
  /\ UNCHANGED <<dashboardMode, authEnabled, serverItems, version, writes,
                 answers, unreported, signedOut>>

(* Leaving a page ends its observation. The token-set queries hand React   *)
(* Query's abort signal to their request, which drops a running fetch; the *)
(* session queries let it finish.                                          *)
Unmount(n) ==
  /\ n \in mounted
  /\ mounted' = mounted \ {n}
  /\ IF isTokenSetAuthContextMode(dashboardMode)
     THEN /\ queries' = [queries EXCEPT ![n].fetch = "none"]
          /\ answers' = Kept({n})
     ELSE UNCHANGED <<queries, answers>>
  /\ UNCHANGED <<dashboardMode, authEnabled, serverItems, version, writes,
                 unreported, signedOut>>

(* Thirty seconds after its answer a query counts as stale.                *)
StaleTime(n) ==
  /\ queries[n].data # {} /\ ~queries[n].stale
  /\ queries' = [queries EXCEPT ![n].stale = TRUE]
  /\ UNCHANGED <<dashboardMode, authEnabled, serverItems, version, mounted,
                 writes, answers, unreported, signedOut>>

(* The server reads the item a query asks for.                             *)
ServeQuery(n) ==
  /\ queries[n].fetch = "sent"
  /\ queries' = [queries EXCEPT ![n].fetch = "served"]
  /\ answers' = answers \cup {Answer("query", n, serverItems[ItemOf(n)])}
  /\ UNCHANGED <<dashboardMode, authEnabled, serverItems, version, mounted,
                 writes, unreported, signedOut>>

Deliverable(a) == InOrder => a.after = {}

(* A query's answer arrives; one that fails leaves the data as it was.     *)
QueryAnswers(a) ==
  /\ Deliverable(a) /\ a.for = "query"
  /\ queries' = [queries EXCEPT ![a.who] =
       IF ~ReadSucceeds(a.who, a.says) THEN [@ EXCEPT !.fetch = "none"]
       ELSE [data |-> {a.says}, stale |-> FALSE, fetch |-> "none"]]
  /\ answers' = Without({Id(a)})
  /\ UNCHANGED <<dashboardMode, authEnabled, serverItems, version, mounted,
                 writes, unreported, signedOut>>

(* The access token expires under the page, or a refresh brings a new one: *)
(* the header hook renders again and mounted queries follow.               *)
useTokenSetAuthorizationHeader ==
  /\ isTokenSetAuthContextMode(dashboardMode) /\ ~signedOut
  /\ authEnabled' = ~authEnabled
  /\ queries' = [n \in Names |->
       LET q == queries[n] IN
       IF authEnabled' /\ n \in mounted /\ q.fetch = "none"
                       /\ (q.data = {} \/ q.stale)
       THEN SentWrite(q) ELSE q]
  /\ UNCHANGED <<dashboardMode, serverItems, version, mounted, writes,
                 answers, unreported, signedOut>>

----------------------------------------------------------------------------
(* Mutations.                                                              *)

mutationFn(w, op) ==
  /\ ~signedOut
  /\ writes[w].at = "idle"
  /\ writes' = [writes EXCEPT ![w] = [NoWrite EXCEPT !.op = op, !.at = "sent"]]
  /\ UNCHANGED <<dashboardMode, authEnabled, serverItems, version, queries,
                 mounted, answers, unreported, signedOut>>

(* The server's write. A group's write carries the entries it holds, so it *)
(* changes an existing entry too; a write to an item that is not there, or *)
(* a create of one that is, changes nothing and fails.                     *)
ServerWrites(w) ==
  /\ writes[w].at = "sent"
  /\ LET op == writes[w].op
         t  == Target(op)
         ok == Creates(op) <=> serverItems[t] = 0
     IN /\ IF ok
           THEN /\ version < MaxVersion
                /\ version' = version + 1
                /\ serverItems' = [i \in Items |->
                     IF i = t THEN IF Deletes(op) THEN 0 ELSE version + 1
                     ELSE IF t = "group" /\ serverItems[i] # 0 THEN version + 1
                     ELSE serverItems[i]]
           ELSE UNCHANGED <<version, serverItems>>
        /\ answers' = answers \cup
             {Answer("write", w, IF ok THEN ServerStatus(op) ELSE 404)}
        /\ writes' = [writes EXCEPT ![w].at = "served"]
  /\ UNCHANGED <<dashboardMode, authEnabled, queries, mounted, unreported,
                 signedOut>>

(* A write's answer arrives: success runs onSuccess; a status the client   *)
(* does not accept rejects the mutation and leaves the cache alone.        *)
WriteAnswers(a) ==
  /\ Deliverable(a) /\ a.for = "write"
  /\ LET op == writes[a.who].op IN
     IF Accepts(op, a.says)
     THEN /\ writes' = [writes EXCEPT ![a.who] =
               [@ EXCEPT !.at = "settling", !.todo = OnSuccess(op)]]
          /\ UNCHANGED unreported
     ELSE /\ writes' = [writes EXCEPT ![a.who] = NoWrite]
          /\ unreported' = unreported \cup (IF a.says = 404 THEN {} ELSE {"refused"})
  /\ answers' = Without({Id(a)})
  /\ UNCHANGED <<dashboardMode, authEnabled, serverItems, version, queries,
                 mounted, signedOut>>

(* The connection fails after the server has written.                      *)
WriteLost(a) ==
  /\ a.for = "write"
  /\ writes' = [writes EXCEPT ![a.who] = NoWrite]
  /\ unreported' = unreported \cup (IF a.says = 404 THEN {} ELSE {"lost"})
  /\ answers' = Without({Id(a)})
  /\ UNCHANGED <<dashboardMode, authEnabled, serverItems, version, queries,
                 mounted, signedOut>>

(* One statement of onSuccess. The token-set hooks await each invalidation *)
(* with the refetches it started before they make the next; the session    *)
(* hooks make theirs in one go.                                            *)
Awaited(w) == \A n \in writes[w].waits : Active(n) => queries[n].fetch = "none"

onSuccess(w) ==
  /\ writes[w].at = "settling" /\ writes[w].todo # <<>>
  /\ Awaited(w)
  /\ LET step == Head(writes[w].todo) IN
     /\ IF step.do = "invalidate" THEN invalidateQueries(step.keys)
                                  ELSE removeQueries(step.keys)
     /\ writes' = [writes EXCEPT ![w].todo = Tail(@), ![w].waits =
          IF step.do = "invalidate" THEN UNION {Covered(k) : k \in step.keys}
          ELSE {}]
  /\ UNCHANGED <<dashboardMode, authEnabled, serverItems, version, mounted,
                 unreported, signedOut>>

MutationSettles(w) ==
  /\ writes[w].at = "settling" /\ writes[w].todo = <<>>
  /\ Awaited(w)
  /\ writes' = [writes EXCEPT ![w] = NoWrite]
  /\ UNCHANGED <<dashboardMode, authEnabled, serverItems, version, queries,
                 mounted, answers, unreported, signedOut>>

(* Logging out of a token-set context resets the client's queries before   *)
(* the page leaves; the other contexts leave at once.                      *)
useDashboardLogout ==
  /\ ~signedOut
  /\ signedOut' = TRUE
  /\ mounted' = {}
  /\ IF isTokenSetAuthContextMode(dashboardMode)
     THEN /\ queries' = [n \in Names |-> NoQuery]
          /\ answers' = Kept(Names)
     ELSE UNCHANGED <<queries, answers>>
  /\ UNCHANGED <<dashboardMode, authEnabled, serverItems, version, writes,
                 unreported>>

----------------------------------------------------------------------------
DashboardInit ==
  /\ dashboardMode \in DashboardModes
  /\ authEnabled = TRUE
  /\ serverItems = [i \in Items |-> 0]
  /\ version = 0
  /\ queries = [n \in Names |-> NoQuery]
  /\ mounted = {}
  /\ writes = [w \in Writes |-> NoWrite]
  /\ answers = {}
  /\ unreported = {}
  /\ signedOut = FALSE

DashboardNext ==
  \/ \E n \in Names : useQuery(n) \/ Unmount(n) \/ StaleTime(n) \/ ServeQuery(n)
  \/ \E a \in answers : QueryAnswers(a) \/ WriteAnswers(a) \/ WriteLost(a)
  \/ useTokenSetAuthorizationHeader
  \/ \E w \in Writes :
       \/ \E op \in WriteOps : mutationFn(w, op)
       \/ ServerWrites(w) \/ onSuccess(w) \/ MutationSettles(w)
  \/ useDashboardLogout

DashboardSpec == DashboardInit /\ [][DashboardNext]_dashboardVars

----------------------------------------------------------------------------
(* Queries whose invalidation the mutations look after: every token-set    *)
(* query, and the session lists. The session hooks leave the details of an *)
(* entry and of a deleted group to their stale time.                       *)
LookedAfter ==
  IF isTokenSetAuthContextMode(dashboardMode) THEN Names ELSE Lists

Settled(n) == queries[n].fetch = "none" /\ \A w \in Writes : writes[w].at = "idle"

Outdated(n) ==
  /\ queries[n].data # {} /\ ~queries[n].stale
  /\ queries[n].data # {serverItems[ItemOf(n)]}

(* FreshQueriesAreCurrent: once every mutation has settled, a query the    *)
(* cache still counts as fresh holds what the server holds, unless some    *)
(* write took effect without its mutation being told so. This is what the  *)
(* hooks' onSuccess handlers are for: each must name every query its write *)
(* touches, in an order that survives the refetches it waits for.          *)
FreshQueriesAreCurrent ==
  unreported = {} => \A n \in LookedAfter : Settled(n) => ~Outdated(n)

(* AnsweredWritesAreShown: the same for every write whose answer arrived,  *)
(* the canonical invalidation the SDK guide promises for the management    *)
(* flows.                                                                  *)
AnsweredWritesAreShown ==
  "lost" \notin unreported =>
    \A n \in LookedAfter : Settled(n) => ~Outdated(n)
=============================================================================
