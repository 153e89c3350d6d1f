---------------------------- MODULE ServerLogin ----------------------------
(***************************************************************************)
(* The server side of a sign-in: the OIDC client with its store of pending *)
(* logins, shared by the session service and the backend OIDC mode, the    *)
(* callbacks that consume a pending login, and the metadata redemption     *)
(* store of the backend mode.                                              *)
(*                                                                         *)
(* A login is named by its `state` parameter.  Nonce, PKCE verifier and    *)
(* extra data are functions of the login, so the pending store is the set  *)
(* of the logins it holds.  Requests run on many threads: every `await`,   *)
(* and every operation on a shared store, is a step of its own.            *)
(***************************************************************************)
EXTENDS Naturals, FiniteSets

CONSTANTS
    Logins,          \* the states of the authorization requests
    Requests,        \* the requests that may be in flight together
    Targets,         \* the post-auth redirect targets a browser may name
    Allowed,         \* those an allowed_redirect_targets rule matches
    DefaultTarget,   \* default_redirect_target
    Redemption,      \* metadata_delivery is "redemption"
    SessionPath, BackendPath,    \* the callback paths of the two services
    ConfiguredPath,  \* redirect_url of the OIDC client's own configuration
    MaxIds,          \* bound: how many redemption ids are issued
    NoTarget, Invalid

ASSUME RedirectAssumption ==
    /\ Allowed \subseteq Targets
    /\ Targets \cap {NoTarget, Invalid} = {}
    /\ DefaultTarget \notin {NoTarget, Invalid}

(* The backend mode's resolution copies its callback path into the         *)
(* configuration of the shared OIDC client.                                *)
ASSUME PathAssumption ==
    /\ ConfiguredPath = BackendPath
    /\ SessionPath # BackendPath
    /\ Invalid \notin {SessionPath, BackendPath}

ASSUME BoundAssumption == MaxIds \in Nat /\ Redemption \in BOOLEAN

VARIABLES
    asked,      \* what each login asked for: its redirect_uri and its target
    signedIn,   \* the logins for which the provider has issued a code
    pending,    \* the logins in the pending OAuth store
    taken,      \* how many requests have taken each login from the store
    task,       \* what each request in flight is doing
    sessions,   \* the logins whose context a browser session holds
    signedOut,  \* the logins whose session was logged out
    lastId,     \* the redemption ids issued so far are 1 .. lastId
    redeemable, \* the ids in the redemption store
    redeemed,   \* the ids whose redemption has been answered
    refreshes   \* the refresh answers: their metadata and how it is sent

loginVars == <<asked, signedIn, pending, taken, sessions, signedOut>>
metadataVars == <<lastId, redeemable, redeemed, refreshes>>
vars == <<loginVars, task, metadataVars>>

NotAsked == [path |-> Invalid, target |-> Invalid]
Idle == [pc |-> "idle"]
Modes == {"session", "fragment", "body"}

(* Where the handler of a mode is mounted.                                 *)
MountedAt(mode) == IF mode = "session" THEN SessionPath ELSE BackendPath

ExchangePath_Configured(mode) == ConfiguredPath

(* The redirect_uri a callback handler sends with the code: both redirect  *)
(* handlers override it with their own path, the body handler passes None. *)
ExchangePath(mode) == IF mode = "body" THEN ConfiguredPath ELSE MountedAt(mode)

(* resolve_with_config                                                     *)
Resolve(target) ==
    IF target = NoTarget THEN DefaultTarget
    ELSE IF target \in Allowed THEN target ELSE Invalid

Init ==
    /\ asked = [s \in Logins |-> NotAsked]
    /\ signedIn = {}
    /\ pending = {}
    /\ taken = [s \in Logins |-> 0]
    /\ task = [r \in Requests |-> Idle]
    /\ sessions = {}
    /\ signedOut = {}
    /\ lastId = 0
    /\ redeemable = {}
    /\ redeemed = {}
    /\ refreshes = {}

-----------------------------------------------------------------------------
(* Logins and callbacks                                                    *)

(* An authorization request with a fresh state: the login is stored before *)
(* the answer with the authorization URL leaves.                           *)
Authorize(s, path, target) ==
    /\ asked[s] = NotAsked
    /\ asked' = [asked EXCEPT ![s] = [path |-> path, target |-> target]]
    /\ pending' = pending \cup {s}
    /\ UNCHANGED <<signedIn, taken, sessions, signedOut, task, metadataVars>>

BackendLogin_Unvalidated(s, target) == Authorize(s, BackendPath, target)

(* The backend mode refuses a target that does not resolve, and stores the *)
(* one that was asked for, to be resolved again.                           *)
BackendLogin(s, target) ==
    /\ target # NoTarget => Resolve(target) # Invalid
    /\ Authorize(s, BackendPath, target)

(* The session service stores the target unseen.                           *)
SessionLogin(s, target) == Authorize(s, SessionPath, target)

(* External: the user signs in and the provider sends the browser to the   *)
(* redirect_uri of the login with a code.                                  *)
SignIn(s) ==
    /\ asked[s] # NotAsked /\ s \notin signedIn
    /\ signedIn' = signedIn \cup {s}
    /\ UNCHANGED <<asked, pending, taken, sessions, signedOut, task, metadataVars>>

(* A pending login outlives time_to_live or is evicted at max_capacity.    *)
ForgetLogin(s) ==
    /\ s \in pending
    /\ pending' = pending \ {s}
    /\ UNCHANGED <<asked, signedIn, taken, sessions, signedOut, task, metadataVars>>

(* A callback request, which may be one of several for the same login: a   *)
(* reload, the back button, a retry.  It takes the login out of the store  *)
(* in one operation; a request that does not find it is refused.           *)
Callback(r, s, mode) ==
    /\ task[r] = Idle /\ s \in signedIn /\ asked[s].path = MountedAt(mode)
    /\ s \in pending
    /\ pending' = pending \ {s}
    /\ taken' = [taken EXCEPT ![s] = @ + 1]
    /\ task' = [task EXCEPT ![r] = [pc |-> "exchanging", mode |-> mode, login |-> s]]
    /\ UNCHANGED <<asked, signedIn, sessions, signedOut, metadataVars>>

(* The provider answers the exchange, the id token verifies against the    *)
(* nonce of the login and the claims pass.  A provider refuses a           *)
(* redirect_uri other than the one it authorized; that it refuses a code   *)
(* it has seen is not assumed.                                             *)
ExchangeSucceeds(r) ==
    /\ task[r].pc = "exchanging"
    /\ ExchangePath(task[r].mode) = asked[task[r].login].path
    /\ task' = [task EXCEPT ![r].pc = "exchanged"]
    /\ UNCHANGED <<loginVars, metadataVars>>

ExchangeFails_PutsBack(r) ==
    /\ task[r].pc = "exchanging"
    /\ pending' = pending \cup {task[r].login}
    /\ task' = [task EXCEPT ![r] = Idle]
    /\ UNCHANGED <<asked, signedIn, taken, sessions, signedOut, metadataVars>>

(* The exchange, the verification, user info or the claims check fails.    *)
ExchangeFails(r) ==
    /\ task[r].pc = "exchanging"
    /\ task' = [task EXCEPT ![r] = Idle]
    /\ UNCHANGED <<loginVars, metadataVars>>

OpenSession_KeepsResult(r) ==
    /\ task[r].pc = "exchanged" /\ task[r].mode = "session"
    /\ sessions' = sessions \cup {task[r].login}
    /\ UNCHANGED <<task, asked, signedIn, pending, taken, signedOut, metadataVars>>

(* The session service puts the context in the session first and resolves  *)
(* the target afterwards; a target that does not resolve is an error       *)
(* answer to a request that has signed in.                                 *)
OpenSession(r) ==
    /\ task[r].pc = "exchanged" /\ task[r].mode = "session"
    /\ sessions' = sessions \cup {task[r].login}
    /\ task' = [task EXCEPT ![r] = Idle]
    /\ UNCHANGED <<asked, signedIn, pending, taken, signedOut, metadataVars>>

Logout(s) ==
    /\ s \in sessions
    /\ sessions' = sessions \ {s}
    /\ signedOut' = signedOut \cup {s}
    /\ UNCHANGED <<asked, signedIn, pending, taken, task, metadataVars>>

-----------------------------------------------------------------------------
(* Metadata redemption                                                     *)

(* issue: the new id becomes redeemable.                                   *)
Issue ==
    /\ lastId < MaxIds
    /\ lastId' = lastId + 1
    /\ redeemable' = redeemable \cup {lastId + 1}

(* Whether an answer is sent with an id to redeem its metadata by.         *)
IssueSnapshot == IF Redemption THEN Issue ELSE UNCHANGED <<lastId, redeemable>>

(* The fragment callback resolves the target that the login asked for,     *)
(* issues the metadata and answers with a redirect; a target that does not *)
(* resolve is an error answer, before anything is issued.                  *)
RedirectWithFragment(r) ==
    /\ task[r].pc = "exchanged" /\ task[r].mode = "fragment"
    /\ IF Resolve(asked[task[r].login].target) # Invalid
         THEN IssueSnapshot ELSE UNCHANGED <<lastId, redeemable>>
    /\ task' = [task EXCEPT ![r] = Idle]
    /\ UNCHANGED <<loginVars, redeemed, refreshes>>

(* The body callback carries the metadata itself.                          *)
AnswerWithBody(r) ==
    /\ task[r].pc = "exchanged" /\ task[r].mode = "body"
    /\ task' = [task EXCEPT ![r] = Idle]
    /\ UNCHANGED <<loginVars, metadataVars>>

(* The metadata of a refresh: the source is always there, the principal    *)
(* when the provider sent an id token or user info.                        *)
Delta == [principal : BOOLEAN, source : {TRUE}]

IsEmpty(delta) == ~delta.principal /\ ~delta.source

(* issue_metadata_delta issues an id when the delta is empty.              *)
IssueDelta(delta) ==
    IF Redemption /\ IsEmpty(delta) THEN Issue ELSE UNCHANGED <<lastId, redeemable>>

(* A refresh that answers with a redirect, once its target has resolved.   *)
(* The server keeps nothing for it but the id.                             *)
RefreshWithFragment(delta, target) ==
    /\ Resolve(target) # Invalid
    /\ IssueDelta(delta)
    /\ refreshes' = refreshes \cup
         {[delta |-> delta, sent |-> IF lastId' # lastId THEN "id" ELSE "none"]}
    /\ UNCHANGED <<loginVars, task, redeemed>>

(* A refresh that answers with a body, which carries the metadata itself.  *)
RefreshWithBody(delta) ==
    /\ refreshes' = refreshes \cup {[delta |-> delta, sent |-> "inline"]}
    /\ UNCHANGED <<loginVars, task, lastId, redeemable, redeemed>>

(* An id outlives its time_to_live or is evicted.                          *)
ForgetId(id) ==
    /\ id \in redeemable
    /\ redeemable' = redeemable \ {id}
    /\ UNCHANGED <<loginVars, task, lastId, redeemed, refreshes>>

(* redeem reads the entry and invalidates it in two operations.            *)
RedeemReads(r, id) ==
    /\ task[r] = Idle /\ id \in redeemable
    /\ task' = [task EXCEPT ![r] = [pc |-> "redeeming", id |-> id]]
    /\ UNCHANGED <<loginVars, metadataVars>>

RedeemInvalidates_KeepsEntry(r) ==
    /\ task[r].pc = "redeeming"
    /\ redeemed' = redeemed \cup {task[r].id}
    /\ task' = [task EXCEPT ![r] = Idle]
    /\ UNCHANGED <<loginVars, lastId, redeemable, refreshes>>

RedeemInvalidates(r) ==
    /\ task[r].pc = "redeeming"
    /\ redeemable' = redeemable \ {task[r].id}
    /\ redeemed' = redeemed \cup {task[r].id}
    /\ task' = [task EXCEPT ![r] = Idle]
    /\ UNCHANGED <<loginVars, lastId, refreshes>>

(* The process restarts: the stores and the sessions are in memory.        *)
Restart ==
    /\ pending' = {} /\ sessions' = {} /\ redeemable' = {}
    /\ task' = [r \in Requests |-> Idle]
    /\ UNCHANGED <<asked, signedIn, taken, signedOut, lastId, redeemed, refreshes>>

Next ==
    \/ \E s \in Logins, target \in Targets \cup {NoTarget} :
         BackendLogin(s, target) \/ SessionLogin(s, target)
    \/ \E s \in Logins : SignIn(s) \/ ForgetLogin(s) \/ Logout(s)
    \/ \E r \in Requests, s \in Logins, mode \in Modes : Callback(r, s, mode)
    \/ \E r \in Requests :
         \/ ExchangeSucceeds(r) \/ ExchangeFails(r)
         \/ OpenSession(r) \/ RedirectWithFragment(r) \/ AnswerWithBody(r)
         \/ RedeemInvalidates(r)
    \/ \E delta \in Delta :
         \/ \E target \in Targets \cup {NoTarget} : RefreshWithFragment(delta, target)
         \/ RefreshWithBody(delta)
    \/ \E id \in 1 .. MaxIds : ForgetId(id) \/ \E r \in Requests : RedeemReads(r, id)
    \/ Restart

Spec == Init /\ [][Next]_vars

-----------------------------------------------------------------------------
(* Properties                                                              *)

TaskRecords(issued) ==
    {Idle} \cup [pc : {"exchanging", "exchanged"}, mode : Modes, login : Logins]
           \cup [pc : {"redeeming"}, id : 1 .. issued]

(* The state has its type: among others, what is redeemable or being       *)
(* redeemed has been issued.                                               *)
TypeOK ==
    /\ asked \in [Logins -> {NotAsked} \cup
                  [path : {SessionPath, BackendPath}, target : Targets \cup {NoTarget}]]
    /\ signedIn \subseteq Logins
    /\ pending \subseteq Logins
    /\ taken \in [Logins -> Nat]
    /\ task \in [Requests -> TaskRecords(lastId)]
    /\ sessions \subseteq Logins
    /\ signedOut \subseteq Logins
    /\ lastId \in 0 .. MaxIds
    /\ redeemable \subseteq 1 .. lastId
    /\ redeemed \subseteq 1 .. lastId
    /\ refreshes \subseteq [delta : Delta, sent : {"id", "inline", "none"}]

(* PendingOauthStore::take is "one-time use": whatever callbacks arrive,   *)
(* in whatever order and on whichever route, and whether they fail or the  *)
(* server restarts, one state leads to at most one exchange at the         *)
(* provider.                                                               *)
OneExchangePerLogin == \A s \in Logins : taken[s] <= 1

(* The redirect_uri that a callback handler sends with the code is the one *)
(* its login was authorized with, although the three handlers choose it in *)
(* different ways and share one OIDC client.                               *)
ExchangeMatchesAuthorization ==
    \A r \in Requests : task[r].pc = "exchanging" =>
        ExchangePath(task[r].mode) = asked[task[r].login].path

(* A fragment callback whose exchange succeeded can redirect: the target   *)
(* was checked when the login began, so a user is not sent through the     *)
(* provider to end in an error.                                            *)
ValidatedTargetLands ==
    \A r \in Requests : task[r].pc = "exchanged" /\ task[r].mode = "fragment" =>
        Resolve(asked[task[r].login].target) # Invalid

(* A login ends where it was meant to: the callback exchanges for the same *)
(* redirect_uri and goes to the target that was checked at its beginning.  *)
LoginsLandWhereTheyWereSent == ExchangeMatchesAuthorization /\ ValidatedTargetLands

(* A login whose session was logged out does not come back: no callback,   *)
(* repeated or still in flight, puts its context into a session again.     *)
SignedOutStaysOut ==
    \A s \in signedOut :
        /\ s \notin sessions /\ s \notin pending
        /\ \A r \in Requests :
             task[r].pc \in {"exchanging", "exchanged"} => task[r].login # s

(* Once a redemption has been answered its id is not redeemable again: a   *)
(* second answer can only come from a request that overlapped the first.   *)
RedeemedIsGone == redeemed \cap redeemable = {}

(* What has ended once does not come back: a session that was logged out,  *)
(* metadata that was redeemed.                                             *)
EndedStaysEnded == SignedOutStaysOut /\ RedeemedIsGone

(* "Issue metadata redemption if active AND metadata is non-empty": a      *)
(* refresh answer with metadata carries it or an id to redeem it with.     *)
RefreshMetadataArrives ==
    \A a \in refreshes : Redemption /\ ~IsEmpty(a.delta) => a.sent # "none"
=============================================================================
