--------------------------- MODULE ServerProofs ---------------------------
(***************************************************************************)
(* Proofs about the server: its sign-ins (ServerLogin), the verification   *)
(* of tokens against a cached provider (TokenVerifier), what lets a        *)
(* request through (RequestAuth) and where a bearer token is sent          *)
(* (Propagation), for any number of logins, calls, requests and keys, any  *)
(* data file and any policy.                                               *)
(***************************************************************************)
EXTENDS ServerLogin, TokenVerifier, RequestAuth, TLAPS

-----------------------------------------------------------------------------
(* ServerLogin.  The inductive invariant counts: a login is in at most one *)
(* place.  It is in the pending store and was never taken, or it was taken *)
(* once and is held by at most one request, or it has ended in a session   *)
(* or a logout.                                                            *)

(* Request r works for a login that it has taken from the store.           *)
Busy(r) == task[r].pc \in {"exchanging", "exchanged"}

(* A login that nobody has begun has left no trace, and one that is still  *)
(* in the store has not been taken.                                        *)
NotYetTaken ==
    \A s \in Logins :
        /\ asked[s] = NotAsked => s \notin pending /\ s \notin signedIn
        /\ asked[s] = NotAsked \/ s \in pending => taken[s] = 0

(* A login that a request works for was taken, and no other request works  *)
(* for it.                                                                 *)
OneHolder ==
    \A r \in Requests : Busy(r) =>
        /\ taken[task[r].login] = 1
        /\ asked[task[r].login].path = MountedAt(task[r].mode)
        /\ task[r].login \notin sessions \cup signedOut
        /\ \A q \in Requests : Busy(q) /\ task[q].login = task[r].login => q = r

(* A login that has ended in a session was taken.                          *)
EndedWasTaken ==
    /\ \A s \in sessions \cup signedOut : taken[s] = 1
    /\ sessions \cap signedOut = {}

(* What the backend mode let begin resolves.                               *)
BackendResolves ==
    \A s \in Logins : asked[s].path = BackendPath => Resolve(asked[s].target) # Invalid

LoginInv ==
    /\ OneExchangePerLogin
    /\ NotYetTaken
    /\ OneHolder
    /\ EndedWasTaken
    /\ BackendResolves

SignInIInv == TypeOK /\ LoginInv /\ RedeemedIsGone

(* More issued ids leave more records to be tasks.                         *)
LEMMA TaskRecordsGrow ==
    ASSUME NEW n \in Nat PROVE TaskRecords(n) \subseteq TaskRecords(n + 1)
<1> 1 .. n \subseteq 1 .. (n + 1)
  OBVIOUS
<1> QED BY Zenon DEF TaskRecords

(* An idle request has a task record.                                      *)
LEMMA IdleIsTask == \A n : Idle \in TaskRecords(n)
  BY Zenon DEF TaskRecords

(* A request that is busy has a mode and a login; one that redeems has an  *)
(* issued id.                                                              *)
LEMMA TaskShape ==
    ASSUME TypeOK, NEW r \in Requests
    PROVE /\ Busy(r) => task[r] \in [pc : {"exchanging", "exchanged"}, mode : Modes, login : Logins]
          /\ task[r].pc = "redeeming" => task[r].id \in 1 .. lastId
<1> task[r] \in TaskRecords(lastId)
  BY Zenon DEF TypeOK
<1> QED BY DEF TaskRecords, Busy, Idle

(* A step that issues an id, or leaves the redemption store alone, issues  *)
(* an id that was never redeemed.                                          *)
LEMMA MayIssue ==
    ASSUME SignInIInv, Issue \/ UNCHANGED <<lastId, redeemable>>
    PROVE /\ lastId' \in 0 .. MaxIds
          /\ redeemable' \subseteq 1 .. lastId'
          /\ redeemed \subseteq 1 .. lastId'
          /\ redeemed \cap redeemable' = {}
          /\ TaskRecords(lastId) \subseteq TaskRecords(lastId')
<1>1. CASE Issue
  BY <1>1, TaskRecordsGrow, BoundAssumption DEF Issue, SignInIInv, TypeOK, RedeemedIsGone
<1>2. CASE UNCHANGED <<lastId, redeemable>>
  BY Zenon, <1>2 DEF SignInIInv, TypeOK, RedeemedIsGone
<1> QED BY Zenon, <1>1, <1>2

(* The pending store, the requests and the sessions are empty at first.    *)
LEMMA SignInInitIInv == Init => SignInIInv
  BY RedirectAssumption, PathAssumption, BoundAssumption
  DEF Init, SignInIInv, LoginInv, TypeOK, OneExchangePerLogin, NotYetTaken, OneHolder, Busy, EndedWasTaken,
      BackendResolves, RedeemedIsGone, NotAsked, Idle, TaskRecords

(* Once the inductive invariant is known, what the handlers promise        *)
(* follows: the exchange sends the path of its login because the handler   *)
(* of a mode runs on the path of that mode.                                *)
LEMMA Consequences ==
    SignInIInv => ExchangeMatchesAuthorization /\ ValidatedTargetLands /\ SignedOutStaysOut
<1> SUFFICES ASSUME SignInIInv
             PROVE ExchangeMatchesAuthorization /\ ValidatedTargetLands /\ SignedOutStaysOut
  BY Zenon
<1>1. ASSUME NEW r \in Requests, Busy(r)
      PROVE task[r].mode \in Modes /\ task[r].login \in Logins
  BY <1>1 DEF SignInIInv, TypeOK, Busy, Idle, TaskRecords
<1>2. ExchangeMatchesAuthorization
  BY <1>1, PathAssumption, Zenon
  DEF SignInIInv, LoginInv, ExchangeMatchesAuthorization, OneHolder, Busy, ExchangePath, MountedAt, Modes
<1>3. ValidatedTargetLands
  BY Zenon, <1>1 DEF SignInIInv, LoginInv, ValidatedTargetLands, OneHolder, BackendResolves, Busy, MountedAt
<1>4. SignedOutStaysOut
  <2> SUFFICES ASSUME NEW s \in signedOut
               PROVE /\ s \notin sessions /\ s \notin pending
                     /\ \A r \in Requests : Busy(r) => task[r].login # s
    BY Zenon DEF SignedOutStaysOut, Busy
  <2>1. s \in Logins /\ taken[s] = 1 /\ s \notin sessions
    BY Zenon DEF SignInIInv, LoginInv, TypeOK, EndedWasTaken
  <2>2. s \notin pending
    BY <2>1 DEF SignInIInv, LoginInv, NotYetTaken
  <2> QED BY Zenon, <2>1, <2>2 DEF SignInIInv, LoginInv, OneHolder
<1> QED BY Zenon, <1>2, <1>3, <1>4

(* A step that touches no login, and after which a request works for a     *)
(* login only if it did so before, keeps what is said about the logins.    *)
LEMMA LoginsUntouched ==
    ASSUME SignInIInv, UNCHANGED loginVars,
           \A r \in Requests : Busy(r)' =>
               Busy(r) /\ task'[r].login = task[r].login /\ task'[r].mode = task[r].mode
    PROVE LoginInv'
  BY Zenon DEF SignInIInv, LoginInv, loginVars, OneExchangePerLogin, NotYetTaken, OneHolder, Busy,
         EndedWasTaken, BackendResolves

(* Every step keeps the inductive invariant, one step per action.          *)
LEMMA SignInNextIInv == SignInIInv /\ [Next]_vars => SignInIInv'
<1> SUFFICES ASSUME SignInIInv, [Next]_vars PROVE SignInIInv'
  BY Zenon
<1> USE DEF SignInIInv
<1>1. ASSUME NEW s \in Logins, NEW target \in Targets \cup {NoTarget},
             BackendLogin(s, target) \/ SessionLogin(s, target)
      PROVE SignInIInv'
  <2> PICK path \in {BackendPath, SessionPath} :
         /\ Authorize(s, path, target)
         /\ path = BackendPath /\ target # NoTarget => Resolve(target) # Invalid
    BY Zenon, <1>1, PathAssumption DEF BackendLogin, SessionLogin
  <2>1. TypeOK'
    BY Zenon DEF Authorize, TypeOK, metadataVars
  <2>2. (OneExchangePerLogin /\ NotYetTaken)'
    BY PathAssumption, Zenon DEF Authorize, NotAsked, LoginInv, TypeOK, OneExchangePerLogin, NotYetTaken
  <2>3. OneHolder'
    BY DEF Authorize, NotAsked, LoginInv, TypeOK, NotYetTaken, OneHolder, Busy
  <2>4. EndedWasTaken'
    BY Zenon DEF Authorize, LoginInv, EndedWasTaken
  <2>5. BackendResolves'
    BY RedirectAssumption, PathAssumption, Zenon DEF Authorize, LoginInv, TypeOK, BackendResolves, Resolve
  <2> QED BY <2>1, <2>2, <2>3, <2>4, <2>5, Zenon DEF LoginInv, Authorize, metadataVars, RedeemedIsGone
<1>2. ASSUME NEW s \in Logins, SignIn(s)
      PROVE SignInIInv'
  <2>1. TypeOK'
    BY <1>2, Zenon DEF SignIn, TypeOK, metadataVars
  <2>2. (OneExchangePerLogin /\ NotYetTaken)'
    BY <1>2, Zenon DEF SignIn, LoginInv, TypeOK, OneExchangePerLogin, NotYetTaken
  <2>3. (OneHolder /\ EndedWasTaken /\ BackendResolves)'
    BY <1>2, Zenon DEF SignIn, LoginInv, OneHolder, Busy, EndedWasTaken, BackendResolves
  <2> QED BY Zenon, <1>2, <2>1, <2>2, <2>3 DEF LoginInv, SignIn, metadataVars, RedeemedIsGone
<1>3. ASSUME NEW s \in Logins, ForgetLogin(s)
      PROVE SignInIInv'
  <2>1. TypeOK'
    BY Zenon, <1>3 DEF ForgetLogin, TypeOK, metadataVars
  <2>2. (OneExchangePerLogin /\ NotYetTaken)'
    BY <1>3, Zenon DEF ForgetLogin, LoginInv, TypeOK, OneExchangePerLogin, NotYetTaken
  <2>3. (OneHolder /\ EndedWasTaken /\ BackendResolves)'
    BY <1>3, Zenon DEF ForgetLogin, LoginInv, OneHolder, Busy, EndedWasTaken, BackendResolves
  <2> QED BY Zenon, <1>3, <2>1, <2>2, <2>3 DEF LoginInv, ForgetLogin, metadataVars, RedeemedIsGone
<1>4. ASSUME NEW s \in Logins, Logout(s)
      PROVE SignInIInv'
  <2>1. TypeOK'
    BY Zenon, <1>4 DEF Logout, TypeOK, metadataVars
  <2>2. (OneExchangePerLogin /\ NotYetTaken)'
    BY <1>4, Zenon DEF Logout, LoginInv, TypeOK, OneExchangePerLogin, NotYetTaken
  <2>3. (OneHolder /\ EndedWasTaken /\ BackendResolves)'
    BY <1>4, Zenon DEF Logout, LoginInv, OneHolder, Busy, EndedWasTaken, BackendResolves
  <2> QED BY Zenon, <1>4, <2>1, <2>2, <2>3 DEF LoginInv, Logout, metadataVars, RedeemedIsGone
<1>5. ASSUME NEW r \in Requests, NEW s \in Logins, NEW mode \in Modes, Callback(r, s, mode)
      PROVE SignInIInv'
  <2>1. TypeOK'
    <3>1. task' \in [Requests -> TaskRecords(lastId')]
      <4>1. [pc |-> "exchanging", mode |-> mode, login |-> s] \in TaskRecords(lastId)
        BY Zenon, <1>5 DEF TaskRecords
      <4> QED BY <1>5, <4>1, Zenon DEF Callback, TypeOK, metadataVars
    <3> QED BY <1>5, <3>1, BoundAssumption, SMTT(30) DEF Callback, TypeOK, metadataVars
  <2>2. (OneExchangePerLogin /\ NotYetTaken)'
    BY <1>5, SMTT(30) DEF Callback, LoginInv, TypeOK, OneExchangePerLogin, NotYetTaken
  <2>3. OneHolder'
    BY <1>5, SMTT(30) DEF Callback, LoginInv, TypeOK, NotYetTaken, OneHolder, EndedWasTaken, Busy, Idle
  <2>4. EndedWasTaken'
    BY <1>5, SMTT(30) DEF Callback, LoginInv, TypeOK, NotYetTaken, EndedWasTaken
  <2>5. BackendResolves'
    BY <1>5, Zenon DEF Callback, LoginInv, BackendResolves
  <2> QED BY <1>5, <2>1, <2>2, <2>3, <2>4, <2>5, Zenon DEF LoginInv, Callback, metadataVars, RedeemedIsGone
<1>6. ASSUME NEW r \in Requests, OpenSession(r)
      PROVE SignInIInv'
  <2>9. Busy(r) /\ task[r].login \in Logins
    BY Zenon, <1>6, TaskShape DEF OpenSession, Busy
  <2>1. TypeOK'
    <3>1. task' \in [Requests -> TaskRecords(lastId')]
      BY <1>6, IdleIsTask, Zenon DEF OpenSession, TypeOK, metadataVars
    <3> QED BY <1>6, <2>9, <3>1, Zenon DEF OpenSession, TypeOK, metadataVars
  <2>2. (OneExchangePerLogin /\ NotYetTaken)'
    BY <1>6, Zenon DEF OpenSession, LoginInv, TypeOK, OneExchangePerLogin, NotYetTaken
  <2>3. OneHolder'
    BY <1>6, <2>9, Zenon DEF OpenSession, LoginInv, TypeOK, OneHolder, Busy, Idle
  <2>4. EndedWasTaken'
    BY <1>6, <2>9, Zenon DEF OpenSession, LoginInv, OneHolder, EndedWasTaken
  <2>5. BackendResolves'
    BY Zenon, <1>6 DEF OpenSession, LoginInv, BackendResolves
  <2> QED BY <1>6, <2>1, <2>2, <2>3, <2>4, <2>5, Zenon DEF LoginInv, OpenSession, metadataVars, RedeemedIsGone
<1>7. ASSUME Restart
      PROVE SignInIInv'
  <2>1. TypeOK'
    <3>1. task' \in [Requests -> TaskRecords(lastId')]
      BY Zenon, <1>7, IdleIsTask DEF Restart
    <3> QED BY <1>7, <3>1, BoundAssumption, Zenon DEF Restart, TypeOK
  <2>2. (OneExchangePerLogin /\ NotYetTaken)'
    BY <1>7, Zenon DEF Restart, LoginInv, TypeOK, OneExchangePerLogin, NotYetTaken
  <2>3. OneHolder'
    BY Zenon, <1>7 DEF Restart, OneHolder, Busy, Idle
  <2>4. (EndedWasTaken /\ BackendResolves)'
    BY Zenon, <1>7 DEF Restart, LoginInv, EndedWasTaken, BackendResolves
  <2> QED BY Zenon, <1>7, <2>1, <2>2, <2>3, <2>4 DEF LoginInv, Restart, RedeemedIsGone
<1>8. ASSUME NEW r \in Requests, ExchangeSucceeds(r)
      PROVE SignInIInv'
  <2>1. LoginInv'
    BY <1>8, LoginsUntouched DEF ExchangeSucceeds, TypeOK, Busy, Idle
  <2>2. task' \in [Requests -> TaskRecords(lastId')]
    <3>1. [task[r] EXCEPT !.pc = "exchanged"] \in TaskRecords(lastId)
      BY Zenon, <1>8, TaskShape DEF ExchangeSucceeds, Busy, TaskRecords
    <3> QED BY Zenon, <1>8, <3>1 DEF ExchangeSucceeds, TypeOK, metadataVars
  <2> QED BY <1>8, <2>1, <2>2, Zenon DEF ExchangeSucceeds, TypeOK, RedeemedIsGone, loginVars, metadataVars
<1>9. ASSUME NEW r \in Requests, ExchangeFails(r)
      PROVE SignInIInv'
  <2>1. LoginInv'
    BY <1>9, LoginsUntouched, Zenon DEF ExchangeFails, TypeOK, Busy, Idle
  <2>2. task' \in [Requests -> TaskRecords(lastId')]
    BY Zenon, <1>9, IdleIsTask DEF ExchangeFails, TypeOK, metadataVars
  <2> QED BY <1>9, <2>1, <2>2, Zenon DEF ExchangeFails, TypeOK, RedeemedIsGone, loginVars, metadataVars
<1>10. ASSUME NEW r \in Requests, AnswerWithBody(r)
      PROVE SignInIInv'
  <2>1. LoginInv'
    BY <1>10, LoginsUntouched, Zenon DEF AnswerWithBody, TypeOK, Busy, Idle
  <2>2. task' \in [Requests -> TaskRecords(lastId')]
    BY Zenon, <1>10, IdleIsTask DEF AnswerWithBody, TypeOK, metadataVars
  <2> QED BY <1>10, <2>1, <2>2, Zenon DEF AnswerWithBody, TypeOK, RedeemedIsGone, loginVars, metadataVars
<1>11. ASSUME NEW r \in Requests, RedirectWithFragment(r)
      PROVE SignInIInv'
  <2> Issue \/ UNCHANGED <<lastId, redeemable>>
    BY Zenon, <1>11 DEF RedirectWithFragment, IssueSnapshot
  <2>1. LoginInv'
    BY <1>11, LoginsUntouched, Zenon DEF RedirectWithFragment, TypeOK, Busy, Idle
  <2>2. task' \in [Requests -> TaskRecords(lastId')]
    BY <1>11, IdleIsTask, MayIssue, Zenon DEF RedirectWithFragment, TypeOK
  <2> QED BY <1>11, <2>1, <2>2, MayIssue, Zenon DEF RedirectWithFragment, TypeOK, RedeemedIsGone, loginVars
<1>12. ASSUME NEW delta \in Delta, NEW target \in Targets \cup {NoTarget},
              RefreshWithFragment(delta, target) \/ RefreshWithBody(delta)
      PROVE SignInIInv'
  <2> Issue \/ UNCHANGED <<lastId, redeemable>>
    BY Zenon, <1>12 DEF RefreshWithFragment, RefreshWithBody, IssueDelta
  <2>1. LoginInv'
    BY <1>12, LoginsUntouched, Zenon DEF RefreshWithFragment, RefreshWithBody, TypeOK, Busy, Idle
  <2>2. task' \in [Requests -> TaskRecords(lastId')]
    BY <1>12, MayIssue, Zenon DEF RefreshWithFragment, RefreshWithBody, TypeOK
  <2>3. refreshes' \subseteq [delta : Delta, sent : {"id", "inline", "none"}]
    BY <1>12, SMTT(30) DEF RefreshWithFragment, RefreshWithBody, TypeOK
  <2> QED BY <1>12, <2>1, <2>2, <2>3, MayIssue, Zenon DEF RefreshWithFragment, RefreshWithBody, TypeOK, RedeemedIsGone, loginVars
<1>13. ASSUME NEW id \in 1 .. MaxIds, ForgetId(id)
      PROVE SignInIInv'
  <2>1. LoginInv'
    BY <1>13, LoginsUntouched, Zenon DEF ForgetId, TypeOK, Busy, Idle
  <2>2. task' \in [Requests -> TaskRecords(lastId')]
    BY Zenon, <1>13 DEF ForgetId, TypeOK
  <2> QED BY <1>13, <2>1, <2>2, Zenon DEF ForgetId, TypeOK, RedeemedIsGone, loginVars, metadataVars
<1>14. ASSUME NEW r \in Requests, NEW id \in 1 .. MaxIds, RedeemReads(r, id)
      PROVE SignInIInv'
  <2>1. LoginInv'
    BY <1>14, LoginsUntouched, Zenon DEF RedeemReads, TypeOK, Busy, Idle
  <2>2. task' \in [Requests -> TaskRecords(lastId')]
    <3>1. [pc |-> "redeeming", id |-> id] \in TaskRecords(lastId)
      BY <1>14, Zenon DEF RedeemReads, TypeOK, TaskRecords
    <3> QED BY <1>14, <3>1, Zenon DEF RedeemReads, TypeOK, metadataVars
  <2> QED BY <1>14, <2>1, <2>2, Zenon DEF RedeemReads, TypeOK, RedeemedIsGone, loginVars, metadataVars
<1>15. ASSUME NEW r \in Requests, RedeemInvalidates(r)
      PROVE SignInIInv'
  <2>1. LoginInv'
    BY <1>15, LoginsUntouched, Zenon DEF RedeemInvalidates, TypeOK, Busy, Idle
  <2>2. task' \in [Requests -> TaskRecords(lastId')]
    BY Zenon, <1>15, IdleIsTask DEF RedeemInvalidates, TypeOK
  <2> QED BY <1>15, <2>1, <2>2, TaskShape, Zenon DEF RedeemInvalidates, TypeOK, RedeemedIsGone, loginVars, metadataVars
<1>16. CASE UNCHANGED vars
  <2>1. LoginInv'
    BY <1>16, LoginsUntouched, Zenon DEF vars, loginVars, Busy
  <2> QED BY <1>16, <2>1, Zenon DEF vars, loginVars, metadataVars, TypeOK, RedeemedIsGone
<1> HIDE DEF SignInIInv
<1>17. ASSUME NEW s \in Logins, SignIn(s) \/ ForgetLogin(s) \/ Logout(s) PROVE SignInIInv'
  BY <1>2, <1>3, <1>4, <1>17, Zenon
<1>18. ASSUME NEW r \in Requests,
              \/ ExchangeSucceeds(r) \/ ExchangeFails(r)
              \/ OpenSession(r) \/ RedirectWithFragment(r) \/ AnswerWithBody(r)
              \/ RedeemInvalidates(r)
       PROVE SignInIInv'
  BY <1>6, <1>8, <1>9, <1>10, <1>11, <1>15, <1>18, Zenon
<1>19. ASSUME NEW delta \in Delta,
              \/ \E target \in Targets \cup {NoTarget} : RefreshWithFragment(delta, target)
              \/ RefreshWithBody(delta)
       PROVE SignInIInv'
  <2>1. NoTarget \in Targets \cup {NoTarget}
    BY Zenon
  <2> QED BY <1>12, <1>19, <2>1, Zenon
<1>20. ASSUME NEW id \in 1 .. MaxIds, ForgetId(id) \/ \E r \in Requests : RedeemReads(r, id)
       PROVE SignInIInv'
  BY <1>13, <1>14, <1>20, Zenon
<1> QED BY <1>1, <1>5, <1>7, <1>16, <1>17, <1>18, <1>19, <1>20, Zenon DEF Next

(* One exchange per login: PendingOauthStore::take hands a state out once, *)
(* for any number of logins and requests.                                  *)
THEOREM ServerLoginCorrect == Spec => [](TypeOK /\ OneExchangePerLogin)
<1>1. SignInIInv => TypeOK /\ OneExchangePerLogin
  BY Zenon, Consequences DEF SignInIInv, LoginInv
<1> QED BY SignInInitIInv, SignInNextIInv, <1>1, PTL DEF Spec

(* The exchange carries the redirect_uri of its authorization, and every   *)
(* fragment callback has a target that the allow list resolves.            *)
THEOREM LoginsLand == Spec => []LoginsLandWhereTheyWereSent
<1>1. SignInIInv => LoginsLandWhereTheyWereSent
  BY Zenon, Consequences DEF SignInIInv, LoginInv, LoginsLandWhereTheyWereSent
<1> QED BY SignInInitIInv, SignInNextIInv, <1>1, PTL DEF Spec

(* There is no way back from a logout, and no redemption of metadata after *)
(* an answered one.                                                        *)
THEOREM EndedForGood == Spec => []EndedStaysEnded
<1>1. SignInIInv => EndedStaysEnded
  BY Zenon, Consequences DEF SignInIInv, LoginInv, EndedStaysEnded
<1> QED BY SignInInitIInv, SignInNextIInv, <1>1, PTL DEF Spec

-----------------------------------------------------------------------------
(* TokenVerifier: for any number of calls, keys, places and intervals.     *)

(* What a call in its retry can be doing.                                  *)
Retrying == {"readUri", "fetchJwks", "storeJwks", "refreshed"}

(* Past the check of the metadata's age.                                   *)
Checked == {"checkJwks", "readUri", "fetchJwks", "storeJwks", "readMetadata"}

(* A call that counts as steady has its key published, and what it has     *)
(* fetched for its retry holds the key.                                    *)
SteadyInv ==
    \A c \in Calls : call[c].steady =>
        /\ call[c].pc \notin Ended => Published(call[c].kid, served)
        /\ call[c].pc \in {"storeJwks", "refreshed"} =>
               Finds(call[c].kid, call[c].got.keys)
        /\ call[c].pc # "unknownKey"

StageInv ==
    \A c \in Calls : call[c].stage = "retry" => call[c].pc \in Retrying

MetadataFreshFor(c) ==
    Discovery /\ MetadataInterval > 0 => state.metadataAt + MetadataInterval > call[c].began

JwksFreshFor(c) == JwksInterval > 0 => state.jwksAt + JwksInterval > call[c].began

AgeInv ==
    \A c \in Calls : call[c].stage # "retry" =>
        /\ call[c].pc \in Checked => MetadataFreshFor(c)
        /\ call[c].pc = "readMetadata" => JwksFreshFor(c)

VerifierIInv == VerifierTypeOK /\ SteadyInv /\ StageInv /\ AgeInv

(* The invariant holds when the runtime has been built from its            *)
(* configuration: no call has begun.                                       *)
LEMMA VerifierInitIInv == VerifierInit => VerifierIInv
<1> SUFFICES ASSUME VerifierInit PROVE VerifierIInv
  BY Zenon
<1>0. AnyUri \in Uris
  BY Zenon, ProviderAssumption DEF AnyUri
<1>1. \A c \in Calls : /\ call[c] = NewCall("answered", "verify", NoKid, FALSE, 0)
                       /\ call[c].pc = "answered" /\ call[c].stage = "verify"
                       /\ ~call[c].steady
  BY Zenon DEF VerifierInit, NewCall
<1>2. VerifierTypeOK
  <2>1. PICK keys \in KeySets : served = [u \in Uris |-> keys]
    BY Zenon DEF VerifierInit, RuntimeInit, FetchMetadata
  <2>2. keys \in SUBSET Kids
    BY Zenon, ProviderAssumption
  <2>3. served \in [Uris -> SUBSET Kids] /\ document \in Uris /\ now = 0 /\ changes = 0
    BY Zenon, <1>0, <2>1, <2>2 DEF VerifierInit, RuntimeInit, FetchMetadata
  <2>4. state \in [metadata : Metadata, metadataAt : 0 .. now, jwksAt : 0 .. now]
    BY <2>3 DEF VerifierInit, RuntimeInit, FetchMetadata, Metadata
  <2>5. NewCall("answered", "verify", NoKid, FALSE, 0) \in CallRecords
    BY <1>0, <2>3, SMTT(30) DEF NewCall, CallRecords, Stages, Ended, Metadata
  <2> QED BY <2>3, <2>4, <2>5, ZenonT(60) DEF VerifierInit, VerifierTypeOK
<1>3. SteadyInv /\ StageInv /\ AgeInv
  BY <1>1, Zenon DEF SteadyInv, StageInv, AgeInv, Checked
<1> QED BY Zenon, <1>2, <1>3 DEF VerifierIInv

(* A call that begins, asks for metadata again or ends is well typed.      *)
LEMMA NewCallType ==
    ASSUME VerifierTypeOK, NEW pc \in Inside \cup Ended \cup {"ready", "refreshed"},
           NEW stage \in Stages, NEW kid \in Kids \cup {NoKid}, NEW steady \in BOOLEAN,
           NEW began \in {0, now}
    PROVE  NewCall(pc, stage, kid, steady, began) \in CallRecords
<1>1. AnyUri \in Uris
  BY Zenon, ProviderAssumption DEF AnyUri
<1>2. began \in 0 .. now
  BY DEF VerifierTypeOK
<1> QED BY <1>1, <1>2, Zenon DEF NewCall, CallRecords, Metadata

(* What the invariant asks of the record of one call.                      *)
GoodCall(new, at, cached) ==
    /\ new \in CallRecords
    /\ new.steady =>
         /\ new.pc \notin Ended => Published(new.kid, at)
         /\ new.pc \in {"storeJwks", "refreshed"} => Finds(new.kid, new.got.keys)
         /\ new.pc # "unknownKey"
    /\ new.stage = "retry" => new.pc \in Retrying
    /\ new.stage # "retry" =>
         /\ new.pc \in Checked /\ Discovery /\ MetadataInterval > 0 =>
              cached.metadataAt + MetadataInterval > new.began
         /\ new.pc = "readMetadata" /\ JwksInterval > 0 =>
              cached.jwksAt + JwksInterval > new.began

CachedStates == [metadata : Metadata, metadataAt : 0 .. now, jwksAt : 0 .. now]

(* The invariant survives a step of one call that keeps or renews the      *)
(* cache, if it holds for that call's new record: what other calls have    *)
(* been told about the age of the cache stays true.                        *)
LEMMA OneCall ==
    ASSUME VerifierIInv, NEW c \in Calls, NEW new,
           call' = [call EXCEPT ![c] = new],
           UNCHANGED <<now, providerVars>>,
           state' \in CachedStates,
           state'.metadataAt >= state.metadataAt, state'.jwksAt >= state.jwksAt,
           GoodCall(new, served, state')
    PROVE  VerifierIInv'
<1>1. \A d \in Calls : call'[d] = IF d = c THEN new ELSE call[d]
  BY Zenon DEF VerifierIInv, VerifierTypeOK
<1>2. VerifierTypeOK'
  BY Zenon DEF VerifierIInv, VerifierTypeOK, providerVars, CallRecords, GoodCall, CachedStates
<1>4. SteadyInv'
  BY <1>1, ZenonT(60) DEF VerifierIInv, SteadyInv, Published, providerVars, GoodCall
<1>5. StageInv'
  BY Zenon, <1>1 DEF VerifierIInv, StageInv, GoodCall
<1>6. AgeInv'
  <2>1. \A d \in Calls : call[d].began \in Nat
    BY SMTT(30) DEF VerifierIInv, VerifierTypeOK, CallRecords
  <2>2. {state.metadataAt, state.jwksAt, state'.metadataAt, state'.jwksAt,
         MetadataInterval, JwksInterval} \subseteq Nat
    BY ProviderAssumption, SMTT(30) DEF VerifierIInv, VerifierTypeOK, CachedStates
  <2>3. \A d \in Calls \ {c} : /\ MetadataFreshFor(d) => MetadataFreshFor(d)'
                               /\ JwksFreshFor(d) => JwksFreshFor(d)'
    BY <1>1, <2>1, <2>2, SMTT(30) DEF MetadataFreshFor, JwksFreshFor
  <2> QED BY Zenon, <1>1, <2>3 DEF VerifierIInv, AgeInv, GoodCall, MetadataFreshFor, JwksFreshFor
<1> QED BY Zenon, <1>2, <1>4, <1>5, <1>6 DEF VerifierIInv

(* The record of each call is good, and the cache has its type.            *)
LEMMA CallsAreGood ==
    ASSUME VerifierIInv, NEW c \in Calls
    PROVE  /\ GoodCall(call[c], served, state)
           /\ state \in CachedStates
           /\ now \in Nat
           /\ {MetadataInterval, JwksInterval, state.metadataAt, state.jwksAt,
               call[c].began} \subseteq Nat
           /\ call[c].began <= now
           /\ state.metadataAt >= state.metadataAt /\ state.jwksAt >= state.jwksAt
<1>1. call[c] \in CallRecords /\ state \in CachedStates /\ now \in Nat
  BY Zenon DEF VerifierIInv, VerifierTypeOK, CachedStates
<1>2. GoodCall(call[c], served, state)
  BY <1>1, Zenon DEF VerifierIInv, SteadyInv, StageInv, AgeInv, GoodCall, MetadataFreshFor, JwksFreshFor
<1>3. {MetadataInterval, JwksInterval, state.metadataAt, state.jwksAt,
       call[c].began} \subseteq Nat /\ call[c].began <= now
  BY <1>1, ProviderAssumption, SMTT(30) DEF CallRecords, CachedStates
<1> QED BY <1>1, <1>2, <1>3

(* A call that begins, asks for metadata again or ends has a good record.  *)
LEMMA NewCallIsGood ==
    ASSUME VerifierIInv, NEW pc \in {"checkMetadata", "answered", "unknownKey"},
           NEW stage \in Stages \ {"retry"}, NEW kid \in Kids \cup {NoKid}, NEW steady \in BOOLEAN,
           NEW began \in {0, now},
           steady => pc = "checkMetadata" /\ Published(kid, served)
    PROVE  GoodCall(NewCall(pc, stage, kid, steady, began), served, state)
<1>1. NewCall(pc, stage, kid, steady, began) \in CallRecords
  BY NewCallType, ZenonT(60) DEF VerifierIInv, Inside, Ended
<1>2. /\ NewCall(pc, stage, kid, steady, began).pc = pc
      /\ NewCall(pc, stage, kid, steady, began).stage = stage
      /\ NewCall(pc, stage, kid, steady, began).kid = kid
      /\ NewCall(pc, stage, kid, steady, began).steady = steady
  BY Zenon DEF NewCall
<1> QED BY Zenon, <1>1, <1>2 DEF GoodCall, Checked

(* The steps inside `metadata` and `refresh_jwks` keep the invariant.  Of  *)
(* these, a store renews the stamps that the freshness of other calls      *)
(* rests on, and a retry keeps the copy of what it fetched.                *)
LEMMA RuntimeStepKeeps ==
    ASSUME VerifierIInv, NEW c \in Calls, RuntimeStep(c)
    PROVE  VerifierIInv'
<1> USE CallsAreGood
<1>0. call[c] \in CallRecords /\ GoodCall(call[c], served, state)
  BY Zenon DEF GoodCall
<1>s. /\ document \in Uris /\ served \in [Uris -> SUBSET Kids]
      /\ state.metadata \in Metadata /\ call[c].got \in Metadata
      /\ call \in [Calls -> CallRecords]
  BY <1>0, Zenon DEF VerifierIInv, VerifierTypeOK, CallRecords
<1>1. CASE CheckMetadata(c)
  <2> DEFINE new == [call[c] EXCEPT !.pc = IF MetadataIsDue THEN "fetchDocument" ELSE "checkJwks"]
  <2>1. call' = [call EXCEPT ![c] = new] /\ UNCHANGED <<now, providerVars, state>>
    BY Zenon, <1>1, <1>s DEF CheckMetadata, GoTo
  <2>2. new \in CallRecords
    BY Zenon, <1>0 DEF CallRecords, Inside, Fetching
  <2>a. /\ new.stage = call[c].stage /\ new.kid = call[c].kid /\ new.got = call[c].got
        /\ new.steady = call[c].steady /\ new.began = call[c].began
        /\ new.pc = IF MetadataIsDue THEN "fetchDocument" ELSE "checkJwks"
    BY <1>0, Zenon DEF CallRecords
  <2> HIDE DEF new
  <2>b. call[c].pc = "checkMetadata"
    BY <1>1, Zenon DEF CheckMetadata, At
  <2>c. call[c].began \in 0 .. now
    BY <1>0, Zenon DEF CallRecords
  <2>3. GoodCall(new, served, state)
    <3>1. new.pc = "checkJwks" /\ Discovery /\ MetadataInterval > 0 =>
             state.metadataAt + MetadataInterval > new.began
      BY <2>a, <2>c DEF MetadataIsDue
    <3>2. new.pc = "fetchDocument" \/ new.pc = "checkJwks"
      BY <2>a, Zenon
    <3>3. new.stage = "retry" => FALSE
      BY <1>0, <2>a, <2>b, Zenon DEF GoodCall, Retrying
    <3> QED
      BY <1>0, <2>2, <2>a, <2>b, <3>1, <3>2, <3>3, Zenon DEF GoodCall, Checked, Ended
  <2> QED BY <2>1, <2>3, OneCall, Zenon
<1>2. CASE FetchDocument(c)
  <2> DEFINE new == [call[c] EXCEPT !.pc = "fetchDocumentKeys", !.got.uri = document]
  <2>1. call' = [call EXCEPT ![c] = new] /\ UNCHANGED <<now, providerVars, state>>
    BY <1>2, <1>s, Zenon DEF FetchDocument
  <2>2. new \in CallRecords
    BY <1>0, <1>s, ZenonT(60) DEF CallRecords, Inside, Fetching, Metadata
  <2>3. GoodCall(new, served, state)
    BY <1>0, <1>2, <2>2, Zenon DEF GoodCall, FetchDocument, At, Checked, Retrying, CallRecords, Ended
  <2> HIDE DEF new
  <2> QED BY <2>1, <2>3, OneCall, Zenon
<1>3. CASE FetchDocumentKeys(c)
  <2> DEFINE new == [call[c] EXCEPT !.pc = "storeMetadata", !.got.keys = served[call[c].got.uri]]
  <2>1. call' = [call EXCEPT ![c] = new] /\ UNCHANGED <<now, providerVars, state>>
    BY <1>3, <1>s, Zenon DEF FetchDocumentKeys
  <2>2. new \in CallRecords
    BY <1>0, <1>s, Zenon DEF CallRecords, Inside, Fetching, Metadata
  <2>3. GoodCall(new, served, state)
    BY <1>0, <1>3, <2>2, Zenon DEF GoodCall, FetchDocumentKeys, At, Checked, Retrying, CallRecords, Ended
  <2> HIDE DEF new
  <2> QED BY <2>1, <2>3, OneCall, Zenon
<1>4. CASE StoreMetadata(c)
  <2> DEFINE new == [call[c] EXCEPT !.pc = "checkJwks"]
  <2>1. /\ call' = [call EXCEPT ![c] = new] /\ UNCHANGED <<now, providerVars>>
        /\ state' = [metadata |-> call[c].got, metadataAt |-> now, jwksAt |-> now]
    BY Zenon, <1>4, <1>s DEF StoreMetadata, GoTo
  <2>2. new \in CallRecords
    BY Zenon, <1>0 DEF CallRecords, Inside
  <2>3. /\ state' \in CachedStates
        /\ state'.metadataAt >= state.metadataAt /\ state'.jwksAt >= state.jwksAt
    BY <1>s, <2>1 DEF CachedStates
  <2>4. GoodCall(new, served, state')
    <3>1. /\ new.stage = call[c].stage /\ new.kid = call[c].kid /\ new.got = call[c].got
          /\ new.steady = call[c].steady /\ new.began = call[c].began /\ new.pc = "checkJwks"
      BY <1>0, Zenon DEF CallRecords
    <3> HIDE DEF new
    <3>2. call[c].pc = "storeMetadata" /\ state'.metadataAt = now
      BY Zenon, <1>4 DEF StoreMetadata, At
    <3>3. call[c].began \in 0 .. now
      BY <1>0, Zenon DEF CallRecords
    <3> QED BY <1>0, <2>2, <3>1, <3>2, <3>3 DEF GoodCall, Checked, Retrying, Ended
  <2> HIDE DEF new
  <2> QED BY <2>1, <2>3, <2>4, OneCall, Zenon
<1>5. CASE CheckJwks(c)
  <2> DEFINE new == [call[c] EXCEPT !.pc = IF JwksAreDue THEN "readUri" ELSE "readMetadata"]
  <2>1. call' = [call EXCEPT ![c] = new] /\ UNCHANGED <<now, providerVars, state>>
    BY Zenon, <1>5, <1>s DEF CheckJwks, GoTo
  <2>2. new \in CallRecords
    BY Zenon, <1>0 DEF CallRecords, Inside, Fetching
  <2>a. /\ new.stage = call[c].stage /\ new.kid = call[c].kid /\ new.got = call[c].got
        /\ new.steady = call[c].steady /\ new.began = call[c].began
        /\ new.pc = IF JwksAreDue THEN "readUri" ELSE "readMetadata"
    BY <1>0, Zenon DEF CallRecords
  <2> HIDE DEF new
  <2>b. call[c].pc = "checkJwks"
    BY <1>5, Zenon DEF CheckJwks, At
  <2>c. call[c].began \in 0 .. now
    BY <1>0, Zenon DEF CallRecords
  <2>3. GoodCall(new, served, state)
    BY <1>0, <2>2, <2>a, <2>b, <2>c DEF GoodCall, Checked, Retrying, JwksAreDue, Ended
  <2> QED BY <2>1, <2>3, OneCall, Zenon
<1>6. CASE ReadUri(c)
  <2> DEFINE new == [call[c] EXCEPT !.pc = "fetchJwks", !.got.uri = state.metadata.uri]
  <2>1. call' = [call EXCEPT ![c] = new] /\ UNCHANGED <<now, providerVars, state>>
    BY <1>6, <1>s, Zenon DEF ReadUri
  <2>2. new \in CallRecords
    BY <1>0, <1>s, Zenon DEF CallRecords, Inside, Fetching, Metadata
  <2>3. GoodCall(new, served, state)
    BY <1>0, <1>6, <2>2, Zenon DEF GoodCall, ReadUri, At, Checked, Retrying, CallRecords, Ended
  <2> HIDE DEF new
  <2> QED BY <2>1, <2>3, OneCall, Zenon
<1>7. CASE FetchJwks(c)
  <2> DEFINE new == [call[c] EXCEPT !.pc = "storeJwks", !.got.keys = served[call[c].got.uri]]
  <2>1. call' = [call EXCEPT ![c] = new] /\ UNCHANGED <<now, providerVars, state>>
    BY <1>7, <1>s, Zenon DEF FetchJwks
  <2>2. new \in CallRecords
    BY <1>0, <1>s, Zenon DEF CallRecords, Inside, Metadata
  <2>3. new.steady => Finds(new.kid, new.got.keys)
    BY <1>0, <1>7, <1>s, Zenon DEF GoodCall, FetchJwks, At, Published, Ended, Metadata, CallRecords
  <2>4. GoodCall(new, served, state)
    BY <1>0, <1>7, <2>2, <2>3, Zenon DEF GoodCall, FetchJwks, At, Checked, Retrying, CallRecords, Ended
  <2> HIDE DEF new
  <2> QED BY <2>1, <2>4, OneCall, Zenon
<1>8. CASE StoreJwks(c)
  <2> DEFINE cached == [metadata |-> [uri |-> state.metadata.uri, keys |-> call[c].got.keys],
                        metadataAt |-> state.metadataAt, jwksAt |-> now]
             new == [call[c] EXCEPT !.got = cached.metadata,
                       !.pc = IF call[c].stage = "retry" THEN "refreshed" ELSE "readMetadata"]
  <2>0. state' = cached
    <3>1. state' = [state EXCEPT !.metadata = [state.metadata EXCEPT !.keys = call[c].got.keys],
                                 !.jwksAt = now]
      BY Zenon, <1>8, <1>s DEF StoreJwks, CachedStates
    <3>2. [state.metadata EXCEPT !.keys = call[c].got.keys]
            = [uri |-> state.metadata.uri, keys |-> call[c].got.keys]
      BY <1>s DEF Metadata
    <3> QED BY <3>1, <3>2, Zenon DEF CachedStates
  <2>1. call' = [call EXCEPT ![c] = new] /\ UNCHANGED <<now, providerVars>>
    BY <1>8, <1>s, <2>0, ZenonT(60) DEF StoreJwks
  <2>2. /\ cached \in CachedStates /\ cached.metadata.keys = call[c].got.keys
        /\ cached.metadataAt = state.metadataAt /\ cached.jwksAt = now
        /\ cached.metadata \in Metadata
    <3>1. cached.metadata \in Metadata
      BY Zenon, <1>s DEF Metadata
    <3>2. cached.metadataAt \in 0 .. now /\ cached.jwksAt \in 0 .. now
      BY SMTT(30) DEF CachedStates
    <3> QED BY <3>1, <3>2, Zenon DEF CachedStates
  <2>3. cached.metadataAt >= state.metadataAt /\ cached.jwksAt >= state.jwksAt
    BY <2>2 DEF CachedStates
  <2>4. /\ new \in CallRecords /\ new.got.keys = call[c].got.keys
        /\ new.stage = call[c].stage /\ new.kid = call[c].kid
        /\ new.steady = call[c].steady /\ new.began = call[c].began
        /\ new.pc = IF call[c].stage = "retry" THEN "refreshed" ELSE "readMetadata"
    BY <1>0, <2>2, Zenon DEF CallRecords, Inside
  <2> HIDE DEF new, cached
  <2>a. call[c].pc = "storeJwks"
    BY <1>8, Zenon DEF StoreJwks, At
  <2>b. now \in Nat /\ call[c].began \in Nat /\ call[c].began <= now
        /\ MetadataInterval \in Nat /\ JwksInterval \in Nat
    BY Zenon, <1>0, ProviderAssumption DEF CallRecords, VerifierIInv, VerifierTypeOK
  <2>5. GoodCall(new, served, cached)
    <3>1. JwksInterval > 0 => cached.jwksAt + JwksInterval > new.began
      <4>1. new.began = call[c].began /\ cached.jwksAt = now
        BY <2>2, <2>4, Zenon
      <4> QED
        BY <2>b, <4>1
    <3>2. cached.metadataAt = state.metadataAt /\ new.began = call[c].began
      BY <2>2, <2>4, Zenon
    <3>3. \/ new.pc = "refreshed" /\ new.stage = "retry"
          \/ new.pc = "readMetadata" /\ new.stage # "retry"
      BY <2>4, Zenon
    <3>4. new.steady => Published(new.kid, served) /\ Finds(new.kid, new.got.keys)
      <4>1. call[c].steady => Published(call[c].kid, served) /\ Finds(call[c].kid, call[c].got.keys)
        BY <1>0, <2>a, Zenon DEF GoodCall, Ended
      <4> QED
        BY <2>4, <4>1, Zenon
    <3>5. new.stage # "retry" /\ Discovery /\ MetadataInterval > 0 =>
             cached.metadataAt + MetadataInterval > new.began
      BY <1>0, <2>4, <2>a, <3>2, Zenon DEF GoodCall, Checked
    <3> QED
      BY <2>4, <3>1, <3>3, <3>4, <3>5, Zenon DEF GoodCall, Retrying
  <2> QED BY <2>0, <2>1, <2>2, <2>3, <2>5, OneCall, Zenon
<1>9. CASE FetchFails(c)
  <2>1. GoodCall(NewCall("answered", "verify", NoKid, FALSE, 0), served, state)
    BY NewCallIsGood, Zenon DEF Stages
  <2> QED BY <1>9, <2>1, OneCall, Zenon DEF FetchFails, End
<1>10. CASE ReadMetadata(c)
  <2> DEFINE new == [call[c] EXCEPT !.pc = "ready", !.got = state.metadata]
  <2>1. call' = [call EXCEPT ![c] = new] /\ UNCHANGED <<now, providerVars, state>>
    BY <1>10, <1>s, Zenon DEF ReadMetadata
  <2>2. new \in CallRecords
    BY <1>0, <1>s, Zenon DEF CallRecords
  <2>3. GoodCall(new, served, state)
    BY <1>0, <1>10, <2>2, Zenon DEF GoodCall, ReadMetadata, At, Checked, Retrying, CallRecords, Ended
  <2> HIDE DEF new
  <2> QED BY <2>1, <2>3, OneCall, Zenon
<1> QED BY <1>1, <1>2, <1>3, <1>4, <1>5, <1>6, <1>7, <1>8, <1>9, <1>10, Zenon DEF RuntimeStep

(* Every step of the system keeps the invariant.                           *)
LEMMA VerifierNextIInv == VerifierIInv /\ [VerifierNext]_runtimeVars => VerifierIInv'
<1> SUFFICES ASSUME VerifierIInv, [VerifierNext]_runtimeVars PROVE VerifierIInv'
  BY Zenon
<1>1. ASSUME NEW c \in Calls, NEW kid \in Kids \cup {NoKid}, VerifyToken(c, kid) PROVE VerifierIInv'
  <2>1. GoodCall(NewCall("checkMetadata", "verify", kid, Published(kid, served), now), served, state)
    BY NewCallIsGood, Zenon DEF Stages, Published
  <2> QED BY <1>1, <2>1, OneCall, CallsAreGood, Zenon DEF VerifyToken
<1>2. ASSUME NEW c \in Calls, VerifyOpaqueToken(c) PROVE VerifierIInv'
  <2>1. GoodCall(NewCall("checkMetadata", "opaque", NoKid, FALSE, now), served, state)
    BY NewCallIsGood, Zenon DEF Stages
  <2> QED BY <1>2, <2>1, OneCall, CallsAreGood, Zenon DEF VerifyOpaqueToken
<1>a. ASSUME NEW c \in Calls, NEW stage \in Stages \ {"retry"}, AskMetadata(c, stage),
             UNCHANGED <<now, providerVars, state>> PROVE VerifierIInv'
  <2>1. GoodCall(NewCall("checkMetadata", stage, NoKid, FALSE, now), served, state)
    BY NewCallIsGood, Zenon
  <2> QED BY <1>a, <2>1, OneCall, CallsAreGood, Zenon DEF AskMetadata
<1>b. ASSUME NEW c \in Calls, NEW outcome \in Ended, NEW steady \in BOOLEAN, ~steady,
             End(c, outcome, steady), UNCHANGED <<now, providerVars, state>> PROVE VerifierIInv'
  <2>1. GoodCall(NewCall(outcome, "verify", NoKid, steady, 0), served, state)
    BY Zenon, <1>b, NewCallIsGood DEF Stages, Ended
  <2> QED BY <1>b, <2>1, OneCall, CallsAreGood, Zenon DEF End
<1>3. ASSUME NEW c \in Calls, VerifyWithCurrentJwks(c) PROVE VerifierIInv'
  <2>1. CASE Finds(call[c].kid, call[c].got.keys)
    BY Zenon, <1>3, <1>a, <2>1 DEF VerifyWithCurrentJwks, Stages
  <2>2. CASE ~Finds(call[c].kid, call[c].got.keys)
    <3> DEFINE new == [call[c] EXCEPT !.pc = "readUri", !.stage = "retry"]
    <3>1. call' = [call EXCEPT ![c] = new] /\ UNCHANGED <<now, providerVars, state>>
      BY <1>3, <2>2, Zenon DEF VerifyWithCurrentJwks, VerifierIInv, VerifierTypeOK
    <3>2. new \in CallRecords
      BY CallsAreGood, Zenon DEF GoodCall, CallRecords, Inside, Stages
    <3>3. GoodCall(new, served, state)
      BY <1>3, <3>2, CallsAreGood, Zenon
      DEF GoodCall, VerifyWithCurrentJwks, At, Retrying, CallRecords, Ended
    <3> HIDE DEF new
    <3> QED BY <3>1, <3>3, OneCall, CallsAreGood, Zenon
  <2> QED BY Zenon, <2>1, <2>2
<1>4. ASSUME NEW c \in Calls, VerifyWithRefreshedJwks(c) PROVE VerifierIInv'
  <2>1. CASE Finds(call[c].kid, call[c].got.keys)
    BY Zenon, <1>4, <1>a, <2>1 DEF VerifyWithRefreshedJwks, Stages
  <2>2. CASE ~Finds(call[c].kid, call[c].got.keys)
    <3>1. call[c].steady = FALSE
      BY <1>4, <2>2, CallsAreGood, Zenon DEF GoodCall, VerifyWithRefreshedJwks, At, CallRecords
    <3> QED BY <1>4, <1>b, <2>2, <3>1, ZenonT(60) DEF VerifyWithRefreshedJwks, Ended
  <2> QED BY Zenon, <2>1, <2>2
<1>5. ASSUME NEW c \in Calls, VerificationFails(c) PROVE VerifierIInv'
  BY <1>5, <1>b, Zenon DEF VerificationFails, Ended
<1>6. ASSUME NEW c \in Calls, Answer(c) PROVE VerifierIInv'
  BY <1>6, <1>b, Zenon DEF Answer, Ended
<1>7. ASSUME NEW c \in Calls, Introspect(c) PROVE VerifierIInv'
  BY Zenon, <1>7, <1>a DEF Introspect, Stages
<1>8. ASSUME NEW c \in Calls, IntrospectionAnswered(c) PROVE VerifierIInv'
  BY <1>8, <1>b, Zenon DEF IntrospectionAnswered, Ended
<1>9. ASSUME NEW us \in (SUBSET Uris) \ {{}}, NEW keys \in KeySets, RotateKeys(us, keys) PROVE VerifierIInv'
  <2> DEFINE kept(c) == call[c].steady /\ (call[c].pc \in Ended \/ Published(call[c].kid, served'))
  <2>1. call' = [c \in Calls |-> [call[c] EXCEPT !.steady = kept(c)]]
    BY Zenon, <1>9 DEF RotateKeys, StillSteady
  <2>2. \A c \in Calls :
          /\ call'[c].steady = kept(c) /\ call'[c].pc = call[c].pc /\ call'[c].stage = call[c].stage
          /\ call'[c].kid = call[c].kid /\ call'[c].got = call[c].got
          /\ call'[c].began = call[c].began
    BY <2>1 DEF VerifierIInv, VerifierTypeOK, CallRecords
  <2>3. VerifierTypeOK'
    <3>1. \A c \in Calls : kept(c) \in BOOLEAN
      BY Zenon DEF VerifierIInv, VerifierTypeOK, CallRecords
    <3>2. \A c \in Calls : [call[c] EXCEPT !.steady = kept(c)] \in CallRecords
      BY <3>1, ZenonT(60) DEF VerifierIInv, VerifierTypeOK, CallRecords
    <3>3. call' \in [Calls -> CallRecords]
      BY Zenon, <2>1, <3>2
    <3>4. served' \in [Uris -> SUBSET Kids] /\ changes' \in Nat
      BY <1>9, ProviderAssumption, SMTT(30) DEF RotateKeys, VerifierIInv, VerifierTypeOK
    <3> QED BY <1>9, <3>3, <3>4, Zenon DEF RotateKeys, VerifierIInv, VerifierTypeOK, CallRecords
  <2>4. SteadyInv'
    <3>1. \A c \in Calls : call'[c].steady =>
            call[c].steady /\ (call[c].pc \in Ended \/ Published(call[c].kid, served'))
      BY <2>2, Zenon
    <3>2. \A c \in Calls : Published(call'[c].kid, served') = Published(call[c].kid, served')
      BY Zenon, <2>2 DEF Published
    <3> HIDE DEF kept
    <3> QED BY <2>2, <3>1, <3>2, ZenonT(60) DEF VerifierIInv, SteadyInv, Published
  <2>5. StageInv' /\ AgeInv'
    BY <1>9, <2>2, ZenonT(60) DEF RotateKeys, VerifierIInv, StageInv, AgeInv, MetadataFreshFor, JwksFreshFor
  <2> QED BY Zenon, <2>3, <2>4, <2>5 DEF VerifierIInv
<1>10. ASSUME NEW u \in Uris, MoveKeys(u) PROVE VerifierIInv'
  BY <1>10, ProviderAssumption, SMTT(30)
  DEF MoveKeys, VerifierIInv, VerifierTypeOK, CallRecords, SteadyInv, StageInv, AgeInv, Published,
      MetadataFreshFor, JwksFreshFor
<1>11. CASE Tick
  <2>1. VerifierTypeOK'
    <3>1. now \in Nat /\ now' = now + 1 /\ call' = call /\ state' = state
      BY Zenon, <1>11 DEF Tick, VerifierIInv, VerifierTypeOK
    <3>2. 0 .. now \subseteq 0 .. now'
      BY <3>1
    <3>3. \A r \in CallRecords : r \in CallRecords'
      BY Zenon, <3>1, <3>2 DEF CallRecords
    <3> QED BY <1>11, <3>1, <3>2, <3>3 DEF Tick, providerVars, VerifierIInv, VerifierTypeOK
  <2>2. SteadyInv' /\ StageInv' /\ AgeInv'
    BY <1>11, Zenon DEF Tick, providerVars, VerifierIInv, SteadyInv, StageInv, AgeInv, Published,
                 MetadataFreshFor, JwksFreshFor
  <2> QED BY Zenon, <2>1, <2>2 DEF VerifierIInv
<1>12. CASE UNCHANGED runtimeVars
  BY <1>12, Zenon DEF runtimeVars, providerVars, VerifierIInv, VerifierTypeOK, CallRecords, SteadyInv, StageInv,
               AgeInv, Published, MetadataFreshFor, JwksFreshFor
<1> QED BY Zenon, <1>1, <1>2, <1>3, <1>4, <1>5, <1>6, <1>7, <1>8, <1>9, <1>10, <1>11, <1>12,
           RuntimeStepKeeps DEF VerifierNext

(* For any calls, keys, places and intervals: a token whose key stays      *)
(* published is not refused for want of it, and what `metadata` returns    *)
(* was stored less than an interval before it was asked for.               *)
THEOREM VerifierCorrect == VerifierSpec => [](VerifierTypeOK /\ VerifierFindsAndRefreshes)
<1>1. VerifierIInv => VerifierTypeOK /\ VerifierFindsAndRefreshes
  BY Zenon DEF VerifierIInv, VerifierFindsAndRefreshes, SteadyInv, StageInv, AgeInv, PublishedKeyIsFound, MetadataIsFresh, At,
         MetadataFreshFor, JwksFreshFor, Checked, Retrying
<1> QED BY <1>1, VerifierInitIInv, VerifierNextIInv, PTL DEF VerifierSpec

-----------------------------------------------------------------------------
(* Propagation.                                                            *)

(* What both validations leave true of a target and a principal, whatever  *)
(* resolver is installed later.                                            *)
PolicyAllows(principal, target) ==
    /\ RequiredScopes # {} => principal # Absent
    /\ target.host # Absent /\ DenySensitive /\ target.host \in SensitiveHosts =>
         \E rule \in AllowedTargets : rule.kind = "cidr" /\ target.host \in rule.covers

Asking == [pc : {"validating", "validated"}, principal : Principals \cup {Absent}, target : RequestTargets]

GoodForward(w) ==
    \/ w = Waiting
    \/ w \in Asking /\ (w.pc = "validated" => PolicyAllows(w.principal, w.target))
    \/ /\ w.pc = "proxying" /\ PolicyAllows(w.principal, w.target)
       /\ w.target.host # Absent => w.origin.host = w.target.host

ForwardIInv == DOMAIN forward = Forwards /\ \A f \in Forwards : GoodForward(forward[f])

(* One propagation moves.                                                  *)
LEMMA OneForward ==
    ASSUME ForwardIInv, NEW f \in Forwards, NEW w, GoodForward(w), forward' = [forward EXCEPT ![f] = w]
    PROVE ForwardIInv'
BY Zenon DEF ForwardIInv

(* Both validations hold at one moment, and what they say of a target with *)
(* a host does not depend on the resolver of that moment.                  *)
LEMMA ValidatedMeetsPolicy ==
    ASSUME NEW principal, NEW target,
           validate_destination(target.node, resolve_target(target)), validate_token(principal)
    PROVE PolicyAllows(principal, target)
<1>1. RequiredScopes # {} => principal # Absent
  <2> SUFFICES ASSUME principal = Absent PROVE RequiredScopes = {}
    BY Zenon
  <2>1. {RequiredIssuers, AllowedAudiences, RequiredScopes, AllowedAzp} = {{}}
    BY Zenon DEF validate_token
  <2> QED BY Zenon, <2>1
<1>2. ASSUME target.host # Absent, DenySensitive, target.host \in SensitiveHosts
      PROVE \E rule \in AllowedTargets : rule.kind = "cidr" /\ target.host \in rule.covers
  <2>1. resolve_target(target).host = target.host
    BY <1>2, ZenonT(60) DEF resolve_target
  <2>2. PICK rule \in AllowedTargets : rule.kind = "cidr" /\ match_allowed_target(rule, resolve_target(target))
    BY <1>2, <2>1, ZenonT(60) DEF validate_destination
  <2>3. target.host \in rule.covers
    BY Zenon, <2>1, <2>2 DEF match_allowed_target
  <2> QED BY Zenon, <2>2, <2>3
<1> QED BY Zenon, <1>1, <1>2 DEF PolicyAllows

(* The steps of one propagation, whoever takes them.                       *)
LEMMA ForwardSteps ==
    ASSUME ForwardIInv, NEW f \in Forwards,
           \/ \E principal \in Principals \cup {Absent}, target \in RequestTargets :
                PropagateBearer(f, principal, target)
           \/ AuthorizationHeaderValue(f) \/ ForwardRequest(f) \/ ProxyAnswers(f)
    PROVE ForwardIInv'
<1>0. GoodForward(Waiting) /\ Waiting.pc = "waiting" /\ GoodForward(forward[f]) /\ DOMAIN forward = Forwards
  BY Zenon DEF GoodForward, Waiting, ForwardIInv
<1>1. ASSUME NEW principal \in Principals \cup {Absent}, NEW target \in RequestTargets,
             PropagateBearer(f, principal, target)
      PROVE ForwardIInv'
  <2> DEFINE w == [pc |-> "validating", principal |-> principal, target |-> target]
  <2>1. w \in Asking /\ w.pc = "validating" /\ forward' = [forward EXCEPT ![f] = w]
    BY Zenon, <1>1 DEF Asking, PropagateBearer
  <2> HIDE DEF w
  <2>2. GoodForward(w)
    BY <2>1, Zenon DEF GoodForward
  <2> QED BY <2>1, <2>2, OneForward, Zenon
<1>2. CASE AuthorizationHeaderValue(f)
  <2> DEFINE w == [forward[f] EXCEPT !.pc = "validated"]
  <2>1. forward[f] \in Asking
    BY Zenon, <1>0, <1>2 DEF AuthorizationHeaderValue, GoodForward
  <2>2. /\ w \in Asking /\ w.pc = "validated"
        /\ w.principal = forward[f].principal /\ w.target = forward[f].target
    BY Zenon, <2>1 DEF Asking
  <2>3. CASE /\ validate_destination(forward[f].target.node, resolve_target(forward[f].target))
             /\ validate_token(forward[f].principal) /\ forward' = [forward EXCEPT ![f] = w]
    <3>1. PolicyAllows(forward[f].principal, forward[f].target)
      BY Zenon, <2>3, ValidatedMeetsPolicy
    <3> HIDE DEF w
    <3>2. GoodForward(w)
      BY <2>2, <3>1, ZenonT(60) DEF GoodForward
    <3> QED BY <2>3, <3>2, OneForward, Zenon
  <2>4. CASE forward' = [forward EXCEPT ![f] = Waiting]
    BY <1>0, <2>4, OneForward, ZenonT(60)
  <2> QED BY <1>0, <1>2, <2>3, <2>4, Zenon DEF AuthorizationHeaderValue
<1>3. CASE ForwardRequest(f)
  <2> DEFINE origin == resolve_target(forward[f].target)
             w == [pc |-> "proxying", principal |-> forward[f].principal,
                   target |-> forward[f].target, origin |-> origin]
  <2>1. forward' \in {[forward EXCEPT ![f] = Waiting], [forward EXCEPT ![f] = w]}
    BY <1>3, ZenonT(60) DEF ForwardRequest
  <2>2. PolicyAllows(forward[f].principal, forward[f].target)
    BY <1>0, <1>3, Zenon DEF ForwardRequest, GoodForward
  <2>3. forward[f].target.host # Absent => origin.host = forward[f].target.host
    BY Zenon DEF resolve_target
  <2>4. /\ w.pc = "proxying" /\ w.principal = forward[f].principal /\ w.target = forward[f].target
        /\ w.origin = origin
    BY Zenon
  <2> HIDE DEF w, origin
  <2>5. GoodForward(w)
    BY <2>2, <2>3, <2>4, Zenon DEF GoodForward
  <2> QED BY Zenon, <1>0, <2>1, <2>5, OneForward
<1>4. CASE ProxyAnswers(f)
  BY <1>0, <1>4, OneForward, Zenon DEF ProxyAnswers
<1> QED BY Zenon, <1>1, <1>2, <1>3, <1>4

(* The invariant says what the property does.                              *)
LEMMA ForwardIsUnderPolicy == ForwardIInv => ForwardsUnderPolicy
<1> SUFFICES ASSUME ForwardIInv, NEW f \in Forwards, forward[f].pc = "proxying"
             PROVE /\ forward[f].target.host # Absent =>
                        /\ forward[f].origin.host = forward[f].target.host
                        /\ DenySensitive /\ forward[f].origin.host \in SensitiveHosts =>
                             \E rule \in AllowedTargets :
                                rule.kind = "cidr" /\ forward[f].origin.host \in rule.covers
                   /\ RequiredScopes # {} => forward[f].principal # Absent
  BY Zenon DEF ForwardsUnderPolicy
<1>1. /\ PolicyAllows(forward[f].principal, forward[f].target)
      /\ forward[f].target.host # Absent => forward[f].origin.host = forward[f].target.host
  BY DEF ForwardIInv, GoodForward, Waiting, Asking
<1> QED BY <1>1, Zenon DEF PolicyAllows

(* A target that names its host is sent where the policy allows, a         *)
(* sensitive address only under a network rule, and no token without the   *)
(* facts the policy asks for: for any policy, any number of propagations   *)
(* and any replacement of the node resolver while they run.                *)
THEOREM ForwardsFollowPolicy == PropagationSpec => []ForwardsUnderPolicy
<1>1. PropagationInit => ForwardIInv
  BY Zenon DEF PropagationInit, ForwardIInv, GoodForward
<1>2. ForwardIInv /\ [PropagationNext]_propagationVars => ForwardIInv'
  <2> SUFFICES ASSUME ForwardIInv, [PropagationNext]_propagationVars PROVE ForwardIInv'
    BY Zenon
  <2>1. CASE UNCHANGED forward
    BY Zenon, <2>1 DEF ForwardIInv
  <2> QED BY Zenon, <2>1, ForwardSteps DEF PropagationNext, SetNodeTargetResolver, propagationVars
<1> QED BY <1>1, <1>2, ForwardIsUnderPolicy, PTL DEF PropagationSpec

-----------------------------------------------------------------------------
(* RequestAuth.                                                            *)

RequestRecords ==
    [pc : {"group", "basics", "tokens", "deciding", "bearer", "session", "basic", "admitted", "propagating"},
     in : Incoming, by : {"none", "bearer", "session", "basic"}, group : GroupIds \cup {None},
     basics : SUBSET EntryIds, tokens : SUBSET EntryIds]

(* Some snapshot of the request's time names the group, or has the entry   *)
(* in it.                                                                  *)
Named(g, name, snaps) == g \in GroupIds /\ \E before \in snaps : before.groups[g] = name
Member(e, g, snaps) == \E later \in snaps : e \in Entries(later) /\ g \in later.entries[e].group_ids

(* A forward-auth request in flight: what it has read was so at some       *)
(* moment since it arrived.                                                *)
GoodForwardAuth(q, snaps, cur) ==
    /\ cur \in snaps
    /\ q.pc \in {"group", "basics", "tokens", "deciding", "admitted"}
    /\ q.pc # "group" => Named(q.group, q.in.asks.group, snaps)
    /\ \A e \in q.basics \cup q.tokens : Member(e, q.group, snaps)
    /\ q.pc = "group" => q.basics = {} /\ q.tokens = {}
    /\ q.pc = "admitted" => q.in.asks.entry \in q.basics \cup q.tokens

(* Any other request in flight: one that carries a directive is let        *)
(* through for a bearer only.                                              *)
GoodOther(q) ==
    /\ q.pc \in {"bearer", "session", "basic", "admitted", "propagating"}
    /\ q.in.directive # Malformed
    /\ q.pc \in {"admitted", "propagating"} /\ q.in.directive # Absent => q.by = "bearer"

GoodRequest(q, snaps, cur) ==
    \/ q = NoRequest \/ q = Answered
    \/ q \in RequestRecords /\ q.in.route = "forward_auth" /\ GoodForwardAuth(q, snaps, cur)
    \/ q \in RequestRecords /\ q.in.route # "forward_auth" /\ GoodOther(q)

RequestIInv ==
    /\ DOMAIN request = Slots /\ DOMAIN seen = Slots
    /\ \A r \in Slots : GoodRequest(request[r], seen[r], snapshot)
    /\ ForwardIInv

(* One request moves; the data file stays.                                 *)
LEMMA OneRequest ==
    ASSUME RequestIInv, NEW r \in Slots, NEW q, GoodRequest(q, seen'[r], snapshot'),
           request' = [request EXCEPT ![r] = q], UNCHANGED snapshot, ForwardIInv',
           DOMAIN seen' = Slots, \A p \in Slots : p # r => seen'[p] = seen[p]
    PROVE RequestIInv'
<1>1. /\ DOMAIN request' = Slots /\ request'[r] = q
      /\ \A p \in Slots : p # r => request'[p] = request[p]
  BY Zenon DEF RequestIInv
<1>2. ASSUME NEW p \in Slots PROVE GoodRequest(request'[p], seen'[p], snapshot')
  <2>1. CASE p = r
    BY Zenon, <1>1, <2>1
  <2>2. CASE p # r
    <3>1. GoodRequest(request[p], seen[p], snapshot)
      BY Zenon DEF RequestIInv
    <3>2. request'[p] = request[p] /\ seen'[p] = seen[p]
      BY Zenon, <1>1, <2>2
    <3> QED BY Zenon, <3>1, <3>2
  <2> QED BY Zenon, <2>1, <2>2
<1> QED BY <1>1, <1>2, ZenonT(60) DEF RequestIInv

(* The same when nothing else moves at all.                                *)
LEMMA RequestMoves ==
    ASSUME RequestIInv, NEW r \in Slots, NEW q, GoodRequest(q, seen[r], snapshot),
           request' = [request EXCEPT ![r] = q], UNCHANGED <<snapshot, seen>>, UNCHANGED forward
    PROVE RequestIInv'
<1>1. ForwardIInv'
  BY Zenon DEF RequestIInv, ForwardIInv
<1>2. GoodRequest(q, seen'[r], snapshot')
  BY Zenon
<1> QED BY Zenon, <1>1, <1>2, OneRequest DEF RequestIInv

(* An answer that is made asks nothing more.                               *)
LEMMA RequestRefused ==
    ASSUME RequestIInv, NEW r \in Slots, Refuse(r), UNCHANGED <<snapshot, seen>>, UNCHANGED forward
    PROVE RequestIInv'
<1>1. GoodRequest(Answered, seen[r], snapshot)
  BY Zenon DEF GoodRequest
<1>2. request' = [request EXCEPT ![r] = Answered]
  BY Zenon DEF Refuse
<1> QED BY <1>1, <1>2, RequestMoves, Zenon

(* Where a request in flight is, by where it can be.                       *)
LEMMA InFlight ==
    ASSUME RequestIInv, NEW r \in Slots, request[r].pc \notin {"none", "answered"}
    PROVE /\ request[r] \in RequestRecords /\ In(r) \in Incoming /\ DOMAIN request = Slots
          /\ In(r).route = "forward_auth" => GoodForwardAuth(request[r], seen[r], snapshot)
          /\ In(r).route # "forward_auth" => GoodOther(request[r])
BY SMTT(30) DEF RequestIInv, GoodRequest, NoRequest, Answered, RequestRecords, In

(* A credential is accepted: with a directive it was the bearer.           *)
LEMMA RequestAccepted ==
    ASSUME RequestIInv, NEW r \in Slots, NEW by \in {"bearer", "session", "basic"},
           request[r].pc \in {"bearer", "session", "basic"}, Accepted(r, by),
           UNCHANGED <<snapshot, seen>>, UNCHANGED forward
    PROVE RequestIInv'
<1>1. CASE Refuse(r)
  BY <1>1, RequestRefused, Zenon
<1>2. CASE (In(r).directive # Absent => by = "bearer")
           /\ request' = [request EXCEPT ![r].pc = "admitted", ![r].by = by]
  <2> DEFINE q == [request[r] EXCEPT !.pc = "admitted", !.by = by]
  <2>1. request[r] \in RequestRecords /\ In(r).route # "forward_auth" /\ GoodOther(request[r]) /\ DOMAIN request = Slots
    BY InFlight, Zenon DEF GoodForwardAuth
  <2>2. q \in RequestRecords /\ q.pc = "admitted" /\ q.by = by /\ q.in = In(r)
    BY <2>1, Zenon DEF RequestRecords, In
  <2>3. request' = [request EXCEPT ![r] = q]
    BY <1>2, <2>1, Zenon
  <2> HIDE DEF q
  <2>4. GoodRequest(q, seen[r], snapshot)
    BY <1>2, <2>1, <2>2, Zenon DEF GoodRequest, GoodOther, In
  <2> QED BY <2>3, <2>4, RequestMoves, Zenon
<1> QED BY Zenon, <1>1, <1>2 DEF Accepted

(* A request goes on to the next credential or to its propagation.         *)
LEMMA RequestGoes ==
    ASSUME RequestIInv, NEW r \in Slots, NEW pc \in {"basic", "propagating"},
           request[r].pc \notin {"none", "answered"}, In(r).route # "forward_auth",
           pc = "propagating" => request[r].pc = "admitted", Goes(r, pc),
           UNCHANGED <<snapshot, seen>>, ForwardIInv'
    PROVE RequestIInv'
<1> DEFINE q == [request[r] EXCEPT !.pc = pc]
<1>1. request[r] \in RequestRecords /\ GoodOther(request[r]) /\ DOMAIN request = Slots
  BY InFlight, Zenon
<1>2. q \in RequestRecords /\ q.pc = pc /\ q.by = request[r].by /\ q.in = In(r)
  BY Zenon, <1>1 DEF RequestRecords, In
<1>3. request' = [request EXCEPT ![r] = q]
  BY Zenon, <1>1 DEF Goes
<1> HIDE DEF q
<1>4. GoodRequest(q, seen'[r], snapshot')
  BY <1>1, <1>2, ZenonT(60) DEF GoodRequest, GoodOther, In
<1> QED BY <1>3, <1>4, OneRequest, ZenonT(60) DEF RequestIInv

(* Arrive: the first step of a request, by its route and its directive.    *)
LEMMA ArrivalIsGood ==
    ASSUME RequestIInv, NEW r \in Slots, NEW in \in Incoming, Arrive(r, in)
    PROVE RequestIInv'
<1> DEFINE q == [pc |-> FirstStep(in), in |-> in, by |-> "none", group |-> None, basics |-> {}, tokens |-> {}]
<1>0. /\ in.route \in {"api", "basic_api", "propagation", "forward_auth"}
      /\ in.authorization \in {"none", "basic", "bearer", "other"}
  BY Zenon, IncomingAssumption
<1>1. /\ seen' = [seen EXCEPT ![r] = IF in.route = "forward_auth" THEN {snapshot} ELSE {}]
      /\ UNCHANGED <<snapshot, forward>>
      /\ request' \in {[request EXCEPT ![r] = Answered], [request EXCEPT ![r] = q]}
      /\ FirstStep(in) = "refused" => request' = [request EXCEPT ![r] = Answered]
  BY ZenonT(60) DEF Arrive, propagationVars
<1>2. DOMAIN seen' = Slots /\ \A p \in Slots : p # r => seen'[p] = seen[p]
  BY Zenon, <1>1 DEF RequestIInv
<1>3. ForwardIInv'
  BY Zenon, <1>1 DEF RequestIInv, ForwardIInv
<1>4. CASE request' = [request EXCEPT ![r] = Answered]
  BY <1>1, <1>2, <1>3, <1>4, OneRequest, Zenon DEF GoodRequest
<1>5. CASE FirstStep(in) # "refused" /\ request' = [request EXCEPT ![r] = q]
  <2>1. FirstCredential(in) \in {"bearer", "session", "basic", "refused"}
    BY Zenon, <1>0 DEF FirstCredential
  <2>2. CASE in.route = "forward_auth"
    <3>1. FirstStep(in) = "group"
      BY Zenon, <2>2 DEF FirstStep
    <3>2. q \in RequestRecords /\ q.pc = "group" /\ q.in = in /\ q.basics = {} /\ q.tokens = {}
      BY <3>1, Zenon DEF RequestRecords
    <3>3. snapshot' \in seen'[r]
      BY Zenon, <1>1, <2>2 DEF RequestIInv
    <3> HIDE DEF q
    <3>4. GoodRequest(q, seen'[r], snapshot')
      BY <2>2, <3>2, <3>3, Zenon DEF GoodRequest, GoodForwardAuth
    <3> QED BY <1>1, <1>2, <1>3, <1>5, <3>4, OneRequest, ZenonT(60)
  <2>3. CASE in.route # "forward_auth"
    <3>1. in.directive # Malformed /\ FirstStep(in) \in {"bearer", "session", "basic"}
      <4>1. in.directive # Malformed
        BY Zenon, <1>0, <1>5, <2>3 DEF FirstStep
      <4>2. CASE in.route = "basic_api"
        BY Zenon, <1>5, <4>1, <4>2 DEF FirstStep
      <4>3. CASE in.route \in {"api", "propagation"}
        BY <1>5, <2>1, <4>1, <4>3, Zenon DEF FirstStep
      <4> QED BY Zenon, <1>0, <2>3, <4>1, <4>2, <4>3
    <3>2. q \in RequestRecords /\ q.pc = FirstStep(in) /\ q.in = in
      BY <3>1, ZenonT(60) DEF RequestRecords
    <3> HIDE DEF q
    <3>4. GoodRequest(q, seen'[r], snapshot')
      BY <2>3, <3>1, <3>2, Zenon DEF GoodRequest, GoodOther
    <3> QED BY <1>1, <1>2, <1>3, <1>5, <3>4, OneRequest, Zenon
  <2> QED BY Zenon, <2>2, <2>3
<1> QED BY <1>1, <1>4, <1>5, ZenonT(60)

(* find_group_by_name: the group has that name in the current snapshot.    *)
LEMMA GroupIsFound ==
    ASSUME RequestIInv, NEW r \in Slots, FindGroupByName(r)
    PROVE RequestIInv'
<1>0. UNCHANGED <<snapshot, seen>> /\ UNCHANGED forward /\ request[r].pc = "group"
  BY Zenon DEF FindGroupByName, propagationVars
<1>1. CASE Refuse(r)
  BY <1>0, <1>1, RequestRefused, Zenon
<1>2. ASSUME NEW g \in Groups(snapshot), snapshot.groups[g] = In(r).asks.group,
             request' = [request EXCEPT ![r].pc = "basics", ![r].group = g]
      PROVE RequestIInv'
  <2> DEFINE q == [request[r] EXCEPT !.pc = "basics", !.group = g]
  <2>1. /\ request[r] \in RequestRecords /\ DOMAIN request = Slots
        /\ In(r).route = "forward_auth" /\ GoodForwardAuth(request[r], seen[r], snapshot)
    BY <1>0, InFlight, Zenon DEF GoodOther
  <2>2. g \in GroupIds
    BY Zenon DEF Groups
  <2>3. /\ q \in RequestRecords /\ q.pc = "basics" /\ q.in = In(r) /\ q.group = g
        /\ q.basics = request[r].basics /\ q.tokens = request[r].tokens
    BY <2>1, <2>2, Zenon DEF RequestRecords, In
  <2>4. request' = [request EXCEPT ![r] = q]
    BY <1>2, <2>1, ZenonT(60)
  <2> HIDE DEF q
  <2>5. Named(g, In(r).asks.group, seen[r])
    BY <1>2, <2>1, <2>2, Zenon DEF Named, GoodForwardAuth
  <2>6. GoodRequest(q, seen[r], snapshot)
    BY <1>0, <2>1, <2>3, <2>5, Zenon DEF GoodRequest, GoodForwardAuth
  <2> QED BY <1>0, <2>4, <2>6, RequestMoves, Zenon
<1> QED BY Zenon, <1>1, <1>2 DEF FindGroupByName

(* The entries of a group are read: they are in it in the current snapshot.*)
LEMMA EntriesAreRead ==
    ASSUME RequestIInv, NEW r \in Slots, BasicEntriesByGroupId(r) \/ TokenEntriesByGroupId(r)
    PROVE RequestIInv'
<1> DEFINE basics == EntriesByGroupId("basic", request[r].group)
           tokens == EntriesByGroupId("token", request[r].group)
           qb == [request[r] EXCEPT !.pc = "tokens", !.basics = basics]
           qt == [request[r] EXCEPT !.pc = "deciding", !.tokens = tokens]
<1>0. UNCHANGED <<snapshot, seen>> /\ UNCHANGED forward /\ request[r].pc \in {"basics", "tokens"}
  BY Zenon DEF BasicEntriesByGroupId, TokenEntriesByGroupId, propagationVars
<1>1. /\ request[r] \in RequestRecords /\ DOMAIN request = Slots
      /\ In(r).route = "forward_auth" /\ GoodForwardAuth(request[r], seen[r], snapshot)
  BY <1>0, InFlight, ZenonT(60) DEF GoodOther
<1>2. /\ basics \subseteq EntryIds /\ tokens \subseteq EntryIds
      /\ \A e \in basics \cup tokens : Member(e, request[r].group, seen[r])
  <2>1. \A e \in basics \cup tokens : e \in Entries(snapshot) /\ request[r].group \in snapshot.entries[e].group_ids
    BY Zenon DEF EntriesByGroupId
  <2>2. snapshot \in seen[r]
    BY <1>1, Zenon DEF GoodForwardAuth
  <2> QED BY <2>1, <2>2, Zenon DEF Member, Entries
<1> HIDE DEF basics, tokens
<1>3. \/ request[r].pc = "basics" /\ request' = [request EXCEPT ![r] = qb]
      \/ request[r].pc = "tokens" /\ request' = [request EXCEPT ![r] = qt]
  BY <1>1, Zenon DEF BasicEntriesByGroupId, TokenEntriesByGroupId, basics, tokens
<1>4. /\ qb \in RequestRecords /\ qb.pc = "tokens" /\ qb.in = In(r) /\ qb.group = request[r].group
      /\ qb.basics = basics /\ qb.tokens = request[r].tokens
  BY <1>1, <1>2, Zenon DEF RequestRecords, In
<1>5. /\ qt \in RequestRecords /\ qt.pc = "deciding" /\ qt.in = In(r) /\ qt.group = request[r].group
      /\ qt.basics = request[r].basics /\ qt.tokens = tokens
  BY <1>1, <1>2, Zenon DEF RequestRecords, In
<1> HIDE DEF qb, qt
<1>6. GoodRequest(qb, seen[r], snapshot) /\ GoodRequest(qt, seen[r], snapshot)
  BY <1>0, <1>1, <1>2, <1>4, <1>5, ZenonT(60) DEF GoodRequest, GoodForwardAuth, In
<1> QED BY Zenon, <1>0, <1>3, <1>6, RequestMoves

(* check_forward_auth lets a request through for an entry that it has read.*)
LEMMA ForwardAuthIsDecided ==
    ASSUME RequestIInv, NEW r \in Slots, ForwardAuthDecides(r)
    PROVE RequestIInv'
<1>0. UNCHANGED <<snapshot, seen>> /\ UNCHANGED forward /\ request[r].pc = "deciding"
  BY Zenon DEF ForwardAuthDecides, propagationVars
<1>1. CASE Refuse(r)
  BY Zenon, <1>0, <1>1, RequestRefused
<1>2. CASE Admit(r) /\ In(r).asks.entry \in request[r].basics \cup request[r].tokens
  <2> DEFINE q == [request[r] EXCEPT !.pc = "admitted"]
  <2>1. /\ request[r] \in RequestRecords /\ DOMAIN request = Slots
        /\ In(r).route = "forward_auth" /\ GoodForwardAuth(request[r], seen[r], snapshot)
    BY <1>0, InFlight, Zenon DEF GoodOther
  <2>2. /\ q \in RequestRecords /\ q.pc = "admitted" /\ q.in = In(r) /\ q.group = request[r].group
        /\ q.basics = request[r].basics /\ q.tokens = request[r].tokens
    BY Zenon, <2>1 DEF RequestRecords, In
  <2>3. request' = [request EXCEPT ![r] = q]
    BY Zenon, <1>2, <2>1 DEF Admit, Goes
  <2> HIDE DEF q
  <2>4. GoodRequest(q, seen[r], snapshot)
    BY <1>0, <1>2, <2>1, <2>2, ZenonT(60) DEF GoodRequest, GoodForwardAuth, In
  <2> QED BY <1>0, <2>3, <2>4, RequestMoves, Zenon
<1> QED BY <1>1, <1>2, ZenonT(60) DEF ForwardAuthDecides

(* The data file is changed under every request in flight: what they have  *)
(* read was so, and the new snapshot is one of their time.                 *)
LEMMA FileIsManaged ==
    ASSUME RequestIInv, NEW r \in Slots, Manage(r)
    PROVE RequestIInv'
<1>1. /\ seen' = [q \in Slots |-> IF seen[q] = {} THEN {} ELSE seen[q] \cup {snapshot'}]
      /\ request' = [request EXCEPT ![r] = Answered] /\ UNCHANGED forward
  BY ZenonT(60) DEF Manage, propagationVars
<1>2. ASSUME NEW p \in Slots PROVE GoodRequest(request'[p], seen'[p], snapshot')
  <2>1. CASE p = r
    BY <1>1, <2>1, ZenonT(60) DEF RequestIInv, GoodRequest
  <2>2. CASE p # r
    <3>1. request'[p] = request[p] /\ GoodRequest(request[p], seen[p], snapshot)
      BY <1>1, <2>2, ZenonT(60) DEF RequestIInv
    <3>2. CASE GoodForwardAuth(request[p], seen[p], snapshot) /\ request[p] \in RequestRecords
               /\ request[p].in.route = "forward_auth"
      <4>1. seen[p] # {}
        BY <3>2, ZenonT(60) DEF GoodForwardAuth
      <4>2. seen'[p] = seen[p] \cup {snapshot'}
        BY <1>1, <4>1, Zenon
      <4>3. snapshot' \in seen'[p] /\ seen[p] \subseteq seen'[p]
        BY Zenon, <4>2
      <4>4. \A g, n : Named(g, n, seen[p]) => Named(g, n, seen'[p])
        BY Zenon, <4>3 DEF Named
      <4>5. \A e, g : Member(e, g, seen[p]) => Member(e, g, seen'[p])
        BY Zenon, <4>3 DEF Member
      <4>6. GoodForwardAuth(request[p], seen'[p], snapshot')
        BY <3>2, <4>3, <4>4, <4>5, ZenonT(60) DEF GoodForwardAuth
      <4> QED BY <3>1, <3>2, <4>6, ZenonT(60) DEF GoodRequest
    <3> QED BY <3>1, <3>2, ZenonT(60) DEF GoodRequest
  <2> QED BY <2>1, <2>2, ZenonT(60)
<1>3. DOMAIN request' = Slots /\ DOMAIN seen' = Slots
  BY <1>1, ZenonT(60) DEF RequestIInv
<1>4. ForwardIInv'
  BY Zenon, <1>1 DEF RequestIInv, ForwardIInv
<1> QED BY <1>2, <1>3, <1>4, ZenonT(60) DEF RequestIInv

(* propagation_forward hands over a directive that parsed.                 *)
LEMMA RequestPropagates ==
    ASSUME RequestIInv, NEW r \in Slots, NEW verified \in BOOLEAN, NEW principal \in Principals,
           PropagateRequest(r, verified, principal)
    PROVE RequestIInv'
<1>0. /\ UNCHANGED <<snapshot, seen>> /\ request[r].pc = "admitted" /\ In(r).route = "propagation"
  BY Zenon DEF PropagateRequest
<1>1. CASE Refuse(r) /\ UNCHANGED propagationVars
  BY <1>0, <1>1, RequestRefused, ZenonT(60) DEF propagationVars
<1>2. CASE PropagateBearer(r, principal, In(r).directive) /\ Goes(r, "propagating") /\ In(r).directive # Absent
  <2>1. In(r) \in Incoming /\ In(r).directive # Malformed
    BY <1>0, InFlight, ZenonT(60) DEF GoodOther, In
  <2>2. In(r).directive \in RequestTargets
    BY <1>2, <2>1, IncomingAssumption, Zenon
  <2>3. r \in Forwards
    BY Zenon, ServerAssumption
  <2>4. ForwardIInv'
    BY <1>2, <2>2, <2>3, ForwardSteps, Zenon DEF RequestIInv
  <2> QED BY <1>0, <1>2, <2>4, RequestGoes, ZenonT(60)
<1> QED BY Zenon, <1>1, <1>2 DEF PropagateRequest

(* The answer leaves.                                                      *)
LEMMA RequestResponds ==
    ASSUME RequestIInv, NEW r \in Slots, Respond(r)
    PROVE RequestIInv'
<1>1. /\ request' = [request EXCEPT ![r] = NoRequest] /\ seen' = [seen EXCEPT ![r] = {}]
      /\ UNCHANGED <<snapshot, forward>>
  BY Zenon DEF Respond, propagationVars
<1>2. DOMAIN seen' = Slots /\ \A p \in Slots : p # r => seen'[p] = seen[p]
  BY Zenon, <1>1 DEF RequestIInv
<1>3. ForwardIInv' /\ GoodRequest(NoRequest, seen'[r], snapshot')
  BY <1>1, Zenon DEF RequestIInv, ForwardIInv, GoodRequest
<1> QED BY <1>1, <1>2, <1>3, OneRequest, ZenonT(60)

(* One step of the server.                                                 *)
LEMMA RequestStep ==
    ASSUME RequestIInv, [RequestNext]_requestVars
    PROVE RequestIInv'
<1>1. ASSUME UNCHANGED <<snapshot, request, seen, forward>> PROVE RequestIInv'
  BY <1>1, Zenon DEF RequestIInv, ForwardIInv
<1>2. CASE UNCHANGED requestVars \/ \E c \in Cookies : SessionOpens(c) \/ SessionEnds(c)
  BY Zenon, <1>1, <1>2 DEF SessionOpens, SessionEnds, requestVars, propagationVars
<1>3. ASSUME NEW r \in Slots, NEW verified \in BOOLEAN, BearerAnswers(r, verified) PROVE RequestIInv'
  BY Zenon, <1>3, RequestAccepted, RequestRefused DEF BearerAnswers, propagationVars
<1>4. ASSUME NEW r \in Slots, SessionAnswers(r) \/ SessionFails(r) PROVE RequestIInv'
  <2>1. UNCHANGED <<snapshot, seen>> /\ UNCHANGED forward /\ request[r].pc = "session"
    BY <1>4, ZenonT(60) DEF SessionAnswers, SessionFails, propagationVars
  <2>2. In(r).route # "forward_auth"
    BY <2>1, InFlight, ZenonT(60) DEF GoodForwardAuth
  <2>3. ForwardIInv'
    BY Zenon, <2>1 DEF RequestIInv, ForwardIInv
  <2> QED BY <1>4, <2>1, <2>2, <2>3, RequestAccepted, RequestRefused, RequestGoes, ZenonT(60) DEF SessionAnswers, SessionFails
<1>5. ASSUME NEW r \in Slots, NEW address, NEW correct, BasicAnswers(r, address, correct) PROVE RequestIInv'
  BY Zenon, <1>5, RequestAccepted, RequestRefused DEF BasicAnswers, propagationVars
<1>6. ASSUME NEW r \in Slots, ManageEntries(r) \/ ManageGroups(r) PROVE RequestIInv'
  BY Zenon, <1>6, FileIsManaged DEF ManageEntries, ManageGroups
<1>7. ASSUME NEW r \in Slots, PropagationStep(r) PROVE RequestIInv'
  <2>1. r \in Forwards
    BY Zenon, ServerAssumption
  <2>2. ForwardIInv'
    BY <1>7, <2>1, ForwardSteps, ZenonT(60) DEF PropagationStep, RequestIInv
  <2> QED BY Zenon, <1>7, <2>2 DEF PropagationStep, RequestIInv
<1>8. ASSUME NEW r \in Slots, PropagationEnds(r) PROVE RequestIInv'
  BY <1>8, RequestRefused, ZenonT(60) DEF PropagationEnds, Refuse, propagationVars
<1>9. ASSUME NEW r \in Slots,
             \/ \E in \in Incoming : Arrive(r, in)
             \/ \E verified \in BOOLEAN : BearerAnswers(r, verified)
             \/ SessionAnswers(r) \/ SessionFails(r)
             \/ \E address \in {"allowed", "denied", "unresolved"}, correct \in BOOLEAN :
                  BasicAnswers(r, address, correct)
      PROVE RequestIInv'
  BY <1>3, <1>4, <1>5, <1>9, ArrivalIsGood, Zenon
<1>10. ASSUME NEW r \in Slots,
              \/ ManageEntries(r) \/ ManageGroups(r)
              \/ \E verified \in BOOLEAN, principal \in Principals :
                   PropagateRequest(r, verified, principal)
              \/ PropagationStep(r) \/ PropagationEnds(r)
       PROVE RequestIInv'
  BY <1>6, <1>7, <1>8, <1>10, RequestPropagates, Zenon
<1>11. ASSUME NEW r \in Slots,
              \/ FindGroupByName(r) \/ BasicEntriesByGroupId(r) \/ TokenEntriesByGroupId(r)
              \/ ForwardAuthDecides(r)
              \/ Respond(r)
       PROVE RequestIInv'
  BY <1>11, GroupIsFound, EntriesAreRead, ForwardAuthIsDecided, RequestResponds, Zenon
<1> QED BY <1>2, <1>9, <1>10, <1>11, Zenon DEF RequestNext

(* Nothing is in flight at first.                                          *)
LEMMA RequestsStart == RequestInit => RequestIInv
BY ServerAssumption, Zenon DEF RequestInit, RequestIInv, GoodRequest, PropagationInit, ForwardIInv, GoodForward

(* A forward-auth request that is let through named a group and showed an  *)
(* entry of that group, and a request with a directive is let through for  *)
(* a bearer only: for any requests in flight, and however the data file    *)
(* changes between the three reads.                                        *)
THEOREM RequestsJustified == RequestSpec => []RequestsAreJustified
<1>1. RequestIInv => RequestsAreJustified
  <2> SUFFICES ASSUME RequestIInv PROVE RequestsAreJustified
    BY Zenon
  <2>1. ForwardAuthMembership
    <3> SUFFICES ASSUME NEW r \in Slots, request[r].pc = "admitted", In(r).route = "forward_auth"
                 PROVE \E g \in GroupIds : \E before, later \in seen[r] :
                         /\ before.groups[g] = In(r).asks.group
                         /\ In(r).asks.entry \in Entries(later)
                         /\ g \in later.entries[In(r).asks.entry].group_ids
      BY Zenon DEF ForwardAuthMembership
    <3>1. /\ Named(request[r].group, In(r).asks.group, seen[r])
          /\ Member(In(r).asks.entry, request[r].group, seen[r])
      BY InFlight, ZenonT(60) DEF GoodForwardAuth, In
    <3> QED BY <3>1, Zenon DEF Named, Member
  <2>2. DirectiveNeedsBearer
    BY Zenon, InFlight DEF DirectiveNeedsBearer, GoodOther, In
  <2> QED BY Zenon, <2>1, <2>2 DEF RequestsAreJustified
<1> QED BY <1>1, RequestsStart, RequestStep, PTL DEF RequestSpec

(* The server's own propagation, which begins where a request's directive  *)
(* says, keeps the policy of the library as well.                          *)
THEOREM RequestsForwardUnderPolicy == RequestSpec => []ForwardsUnderPolicy
<1>1. RequestIInv => ForwardsUnderPolicy
  BY Zenon, ForwardIsUnderPolicy DEF RequestIInv
<1> QED BY <1>1, RequestsStart, RequestStep, PTL DEF RequestSpec
=============================================================================
