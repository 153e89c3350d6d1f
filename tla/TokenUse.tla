------------------------------ MODULE TokenUse ------------------------------
(***************************************************************************)
(* How requests get their bearer header: the Angular interceptor, which    *)
(* picks a client of the registry by URL (bearer-interceptor.ts and the    *)
(* registry's ensureAuthForResource), and the authorized transports of one *)
(* client (orchestration/auth-transport.ts and its two mode wrappers); and *)
(* the handles that a client issues for the tokens it gave out             *)
(* (token-handle-store.ts).  The client's own life is in OidcModeClient;   *)
(* here it has a token with an expiry, and a refresh that answers or not.  *)
(***************************************************************************)
EXTENDS Integers, Sequences

CONSTANTS UseKeys,         \* client keys
          Urls,            \* URLs requested
          Matches,         \* the keys whose urlPatterns match each URL
          UseRequests,
          Lifetime, MaxUseTime, MaxUseTokens

VARIABLES strictUrlMatch,   \* BearerInterceptorOptions
          useClock,
          registered,       \* keys, in registration order
          ready,            \* the service of the key has been materialized
          tokenOf,          \* the token of each client and its expiry
          nextToken,
          handles,          \* the handle stores of all clients
          ended,            \* history: tokens whose session was ended
          useRequest        \* each request, with history of how it left
useVars == <<strictUrlMatch, useClock, registered, ready, tokenOf, nextToken, handles,
             ended, useRequest>>

NoMaterial == [token |-> 0, exp |-> 0]
NoRequest == [at |-> "idle", by |-> "none", url |-> "none", key |-> "none", token |-> 0,
              alone |-> FALSE, live |-> FALSE]

UseInit ==
    /\ strictUrlMatch \in BOOLEAN
    /\ useClock = 0
    /\ registered = <<>>
    /\ ready = [k \in UseKeys |-> FALSE]
    /\ tokenOf = [k \in UseKeys |-> NoMaterial]
    /\ nextToken = 1
    /\ handles = {} /\ ended = {}
    /\ useRequest = [r \in UseRequests |-> NoRequest]

Registered == {registered[i] : i \in DOMAIN registered}
Fresh(m) == m.token # 0 /\ useClock < m.exp

-----------------------------------------------------------------------------
(* The registry and the clients.                                           *)
Register(k) ==
    /\ k \notin Registered
    /\ registered' = Append(registered, k)
    /\ UNCHANGED <<useClock, ready, tokenOf, nextToken, handles, ended, useRequest>>

ClientReady(k) ==
    /\ k \in Registered /\ ~ready[k]
    /\ ready' = [ready EXCEPT ![k] = TRUE]
    /\ UNCHANGED <<useClock, registered, tokenOf, nextToken, handles, ended, useRequest>>

NewToken(k) ==
    /\ nextToken <= MaxUseTokens
    /\ nextToken' = nextToken + 1
    /\ tokenOf' = [tokenOf EXCEPT ![k] = [token |-> nextToken, exp |-> useClock + Lifetime]]

SignIn(k) ==
    /\ ready[k] /\ NewToken(k)
    /\ UNCHANGED <<useClock, registered, ready, handles, ended, useRequest>>

(* clear of a client's handle store; clearByClient of a shared one.        *)
clearByClient(k) == {h \in handles : h.key # k}

(* clearState and dispose end the session: the material and the handles go *)
(* together.                                                               *)
Cleared_KeepsHandles(k) ==
    /\ tokenOf' = [tokenOf EXCEPT ![k] = NoMaterial]
    /\ ended' = ended \cup {h.token : h \in handles \ clearByClient(k)} \cup {tokenOf[k].token}
    /\ UNCHANGED handles

Cleared(k) ==
    /\ tokenOf' = [tokenOf EXCEPT ![k] = NoMaterial]
    /\ ended' = ended \cup {h.token : h \in handles \ clearByClient(k)} \cup {tokenOf[k].token}
    /\ handles' = clearByClient(k)

clearState(k) ==
    /\ tokenOf[k] # NoMaterial
    /\ Cleared(k)
    /\ UNCHANGED <<useClock, registered, ready, nextToken, useRequest>>

(* reset of a key: the service is disposed of, the entry made anew.  A     *)
(* request that waits for the old client's refresh will be told it failed. *)
reset(k) ==
    /\ ready[k]
    /\ ready' = [ready EXCEPT ![k] = FALSE]
    /\ Cleared(k)
    /\ useRequest' = [r \in UseRequests |->
          IF useRequest[r].at = "refreshing" /\ useRequest[r].key = k
          THEN [useRequest[r] EXCEPT !.at = "orphaned"] ELSE useRequest[r]]
    /\ UNCHANGED <<useClock, registered, nextToken>>

-----------------------------------------------------------------------------
(* Requests.                                                               *)

(* clientKeyForUrl: the first registered key with a matching pattern.      *)
clientKeyForUrl(url) ==
    LET hits == {i \in DOMAIN registered : registered[i] \in Matches[url]} IN
    {registered[i] : i \in {j \in hits : \A h \in hits : j <= h}}

(* resolveEnsureAuthKey: the key given, or the only one registered.        *)
resolveEnsureAuthKey(keys) == IF keys # {} THEN keys ELSE Registered

(* The clients that resolveAuthorizationForRequest asks, {} for none.      *)
resolveAuthorizationForRequest_AnyKey(url) == resolveEnsureAuthKey(clientKeyForUrl(url))

resolveAuthorizationForRequest(url) ==
    IF clientKeyForUrl(url) = {} /\ strictUrlMatch THEN {}
    ELSE resolveEnsureAuthKey(clientKeyForUrl(url))

(* The request leaves, with the token of client k or without one.          *)
Sent(r, by, url, k, token) ==
    [at |-> "sent", by |-> by, url |-> url, key |-> k, token |-> token,
     alone |-> Registered = {k}, live |-> k \in UseKeys /\ Fresh(tokenOf[k])]
Dropped(r, by, url) == [NoRequest EXCEPT !.at = "failed", !.by = by, !.url = url]

(* _authenticatedResult: the header is made, and a handle issued for it.   *)
Issue(r, k) ==
    handles' = handles \cup {[id |-> r, key |-> k, token |-> tokenOf[k].token,
                              exp |-> tokenOf[k].exp]}

(* ensureAuthForResource of client k for request r.  Without a usable      *)
(* token the request goes on without a header, or is refused when the      *)
(* transport requires one; an expired token is refreshed first.            *)
Unauthorized(r, by, url) ==
    useRequest' = [useRequest EXCEPT ![r] =
        IF by = "transport" THEN Dropped(r, by, url) ELSE Sent(r, by, url, "none", 0)]

ensureAuthForResource(r, by, url, k) ==
    CASE Fresh(tokenOf[k]) ->
            /\ useRequest' = [useRequest EXCEPT ![r] = Sent(r, by, url, k, tokenOf[k].token)]
            /\ Issue(r, k)
      [] ~Fresh(tokenOf[k]) /\ (tokenOf[k] = NoMaterial \/ ~ready[k]) ->
            Unauthorized(r, by, url) /\ UNCHANGED handles
      [] OTHER ->
            /\ useRequest' = [useRequest EXCEPT ![r] =
                  [NoRequest EXCEPT !.at = "refreshing", !.by = by, !.url = url, !.key = k,
                                    !.alone = Registered = {k}]]
            /\ UNCHANGED handles

intercept(r, url) ==
    LET keys == resolveAuthorizationForRequest(url) IN
    /\ useRequest[r].at = "idle"
    /\ CASE keys = {} -> Unauthorized(r, "interceptor", url) /\ UNCHANGED handles
         [] \E j, k \in keys : j # k ->     \* "only valid for a single registered client"
               /\ useRequest' = [useRequest EXCEPT ![r] = Dropped(r, "interceptor", url)]
               /\ UNCHANGED handles
         [] OTHER -> \E k \in keys : ensureAuthForResource(r, "interceptor", url, k)
    /\ UNCHANGED <<useClock, registered, ready, tokenOf, nextToken, ended>>

(* execute of an authorized transport of client k: the URL plays no part.  *)
execute(r, url, k) ==
    /\ useRequest[r].at = "idle" /\ ready[k]
    /\ ensureAuthForResource(r, "transport", url, k)
    /\ UNCHANGED <<useClock, registered, ready, tokenOf, nextToken, ended>>

(* The refresh a request waits for succeeds, unless the session has ended  *)
(* in the meantime, or fails, which ends the session.                      *)
RefreshSucceeds(r) ==
    LET q == useRequest[r] IN
    /\ q.at = "refreshing" /\ tokenOf[q.key] # NoMaterial
    /\ NewToken(q.key)
    /\ useRequest' = [useRequest EXCEPT ![r] =
          [at |-> "sent", by |-> q.by, url |-> q.url, key |-> q.key, token |-> nextToken,
           alone |-> q.alone, live |-> TRUE]]
    /\ handles' = handles \cup {[id |-> r, key |-> q.key, token |-> nextToken,
                                 exp |-> useClock + Lifetime]}
    /\ UNCHANGED <<useClock, registered, ready, ended>>

RefreshFails(r) ==
    LET q == useRequest[r] IN
    /\ q.at \in {"refreshing", "orphaned"}
    /\ Unauthorized(r, q.by, q.url)
    /\ IF q.at = "refreshing" THEN Cleared(q.key) ELSE UNCHANGED <<tokenOf, handles, ended>>
    /\ UNCHANGED <<useClock, registered, ready, nextToken>>

(* Operations on handles: consume, or revoke, one.  get changes nothing    *)
(* but the removal of an expired handle, which resolve would not give out. *)
resolve(h) == useClock < h.exp

consume(h) ==
    /\ handles' = handles \ {h}
    /\ UNCHANGED <<useClock, registered, ready, tokenOf, nextToken, ended, useRequest>>

UseTick ==
    /\ useClock < MaxUseTime
    /\ useClock' = useClock + 1
    /\ UNCHANGED <<registered, ready, tokenOf, nextToken, handles, ended, useRequest>>

UseNext ==
    /\ UNCHANGED strictUrlMatch
    /\ \/ \E k \in UseKeys : Register(k) \/ ClientReady(k) \/ SignIn(k) \/ clearState(k) \/ reset(k)
       \/ \E r \in UseRequests :
             \/ \E url \in Urls : intercept(r, url) \/ \E k \in UseKeys : execute(r, url, k)
             \/ RefreshSucceeds(r) \/ RefreshFails(r)
       \/ \E h \in handles : consume(h)
       \/ UseTick

UseSpec == UseInit /\ [][UseNext]_useVars

-----------------------------------------------------------------------------
(* A request that the interceptor sends with a header carries a token that *)
(* was not expired when it left, of a client whose patterns match its URL; *)
(* with no match it carries one only without strictUrlMatch, and only if   *)
(* that client was the only one registered when the request was made.      *)
HeadersFitTheirRequests ==
    \A r \in UseRequests : LET q == useRequest[r] IN
        (q.at = "sent" /\ q.token # 0) =>
            /\ q.live
            /\ q.by = "interceptor" =>
                  q.key \in Matches[q.url] \/ (~strictUrlMatch /\ q.alone)

(* Once clearState, dispose or a failed refresh has ended a session, no    *)
(* handle issued for one of its tokens resolves again.                     *)
EndedHandlesStayDead == \A h \in handles : resolve(h) => h.token \notin ended

(* What a token may be used for: in a header as resolveEnsureAuthKey and   *)
(* the transports choose it, and through a handle while its session lives. *)
TokensFitTheirUse == HeadersFitTheirRequests /\ EndedHandlesStayDead
=============================================================================
