--------------------------- MODULE SessionContext ---------------------------
(***************************************************************************)
(* The cookie-session SDK of one page: SessionContextClient (the requests  *)
(* to the server and the redirect remembered over a login) under the       *)
(* SessionContextController that the React provider and the Angular        *)
(* service mirror.  Every request is sent, served and answered in separate *)
(* steps, so a refresh, several logouts, a dispose and the end of the      *)
(* session at the server interleave.                                       *)
(***************************************************************************)
EXTENDS Naturals

CONSTANTS
    Logouts,           \* the logout() calls of the page
    Uris,              \* pages a login may return to
    InitialRefresh     \* the adapters' option of that name

VARIABLES
    cookie,            \* the server holds a live session for the browser's cookie
    pendingLogin,   \* the ephemeral flow store: {} or {uri}
    controller,        \* SessionContextController.stateSignal
    refreshPromise,    \* the one refresh in flight: "none", "sent", or the answer
    logouts,           \* [Logouts -> phase]
    controllerDisposed,
    left               \* {} or {uri}: the page went to the server's login for uri

sessionVars == <<cookie, pendingLogin, controller, refreshPromise, logouts, controllerDisposed, left>>

Statuses == {"idle", "loading", "authenticated", "unauthenticated", "error"}

State(status, session) == [status |-> status, session |-> session]

(* What the adapters show of the controller's state: useSessionContext and *)
(* the signals of SessionContextService.                                   *)
useSessionContext == [session |-> controller.session,
    loading |-> controller.status = "loading" \/ (InitialRefresh /\ controller.status = "idle")]

SessionContextService == [session |-> controller.session,
                          loading |-> controller.status = "loading",
                          error |-> controller.status = "error"]

(* The answers of GET /auth/session/user-info: a session's principal, 401  *)
(* or 403, a payload neither schema accepts, another status or no answer.  *)
UserInfoAnswers == (IF cookie THEN {"principal"} ELSE {"unauthorized"})
                   \cup {"malformed", "failed"}

(* fetchUserInfo: null for 401 and 403, a session for a valid payload;     *)
(* everything else throws.                                                 *)
normalizeSessionInfo(answer) == answer = "principal"

fetchUserInfo(answer) ==
    IF answer = "unauthorized" THEN "null"
    ELSE IF normalizeSessionInfo(answer) THEN "session" ELSE "throws"

-----------------------------------------------------------------------------
(* The page is loaded; the first refresh is provideSessionContext's, or    *)
(* the mount effect's of SessionContextProvider.                           *)
Loaded == State("idle", FALSE)

SessionInit ==
    /\ cookie \in BOOLEAN
    /\ pendingLogin = {}
    /\ controller = Loaded
    /\ refreshPromise = "none"
    /\ logouts = [l \in Logouts |-> "idle"]
    /\ controllerDisposed = FALSE
    /\ left = {}

OnPage == left = {}

(* refresh(): a disposed controller answers what it has, a second caller   *)
(* joins the refresh in flight.                                            *)
refresh ==
    /\ OnPage /\ ~controllerDisposed /\ refreshPromise = "none"
    /\ refreshPromise' = "sent"
    /\ controller' = State("loading", controller.session)
    /\ UNCHANGED <<cookie, pendingLogin, logouts, controllerDisposed, left>>

ServeUserInfo ==
    /\ refreshPromise = "sent"
    /\ refreshPromise' \in UserInfoAnswers
    /\ UNCHANGED <<cookie, pendingLogin, controller, logouts, controllerDisposed, left>>

RefreshOutcome ==
    LET result == fetchUserInfo(refreshPromise)
    IN CASE result = "session" -> State("authenticated", TRUE)
         [] result = "null"    -> State("unauthenticated", FALSE)
         [] OTHER              -> State("error", FALSE)

(* The continuation of the refresh: then, catch and finally.               *)
UserInfoArrives ==
    /\ OnPage /\ refreshPromise \notin {"none", "sent"}
    /\ controller' = IF controllerDisposed THEN controller ELSE RefreshOutcome
    /\ refreshPromise' = "none"
    /\ UNCHANGED <<cookie, pendingLogin, logouts, controllerDisposed, left>>

(* logout(): not guarded by disposed, and not joined.                      *)
logout(l) ==
    /\ OnPage /\ logouts[l] = "idle"
    /\ logouts' = [logouts EXCEPT ![l] = "sent"]
    /\ controller' = State("loading", controller.session)
    /\ UNCHANGED <<cookie, pendingLogin, refreshPromise, controllerDisposed, left>>

(* POST /auth/session/logout ends the session; the answer may be lost.     *)
ServeLogout(l) ==
    /\ logouts[l] = "sent"
    /\ \/ cookie' = FALSE /\ \E a \in {"ok", "failed"} : logouts' = [logouts EXCEPT ![l] = a]
       \/ cookie' = cookie /\ logouts' = [logouts EXCEPT ![l] = "failed"]
    /\ UNCHANGED <<pendingLogin, controller, refreshPromise, controllerDisposed, left>>

(* logoutAndClearPendingLoginRedirect: a failed logout throws before the   *)
(* redirect is cleared.                                                    *)
logoutAndClearPendingLoginRedirect(l) ==
    /\ OnPage /\ logouts[l] = "ok"
    /\ pendingLogin' = {}
    /\ logouts' = [logouts EXCEPT ![l] = "cleared"]
    /\ UNCHANGED <<cookie, controller, refreshPromise, controllerDisposed, left>>

LogoutOutcome_KeepsLoading(l) ==
    IF logouts[l] = "cleared" THEN State("unauthenticated", FALSE) ELSE controller

LogoutOutcome(l) ==
    IF logouts[l] = "cleared" THEN State("unauthenticated", FALSE) ELSE State("error", FALSE)

LogoutReturns(l) ==
    /\ OnPage /\ logouts[l] \in {"cleared", "failed"}
    /\ controller' = IF controllerDisposed THEN controller ELSE LogoutOutcome(l)
    /\ logouts' = [logouts EXCEPT ![l] = "idle"]
    /\ UNCHANGED <<cookie, pendingLogin, refreshPromise, controllerDisposed, left>>

disposeController ==
    /\ OnPage /\ ~controllerDisposed
    /\ controllerDisposed' = TRUE
    /\ UNCHANGED <<cookie, pendingLogin, controller, refreshPromise, logouts, left>>

-----------------------------------------------------------------------------
(* The redirect remembered over a login.                                   *)
savePendingLoginRedirect(uri) ==
    /\ OnPage
    /\ pendingLogin' = {uri}
    /\ UNCHANGED <<cookie, controller, refreshPromise, logouts, controllerDisposed, left>>

clearPendingLoginRedirect ==
    /\ OnPage /\ pendingLogin # {}
    /\ pendingLogin' = {}
    /\ UNCHANGED <<cookie, controller, refreshPromise, logouts, controllerDisposed, left>>

(* resolveLoginUrl consumes the redirect, and the host sends the browser   *)
(* to the login URL that carries it.                                       *)
resolveLoginUrl ==
    /\ OnPage /\ pendingLogin # {}
    /\ left' = pendingLogin
    /\ pendingLogin' = {}
    /\ UNCHANGED <<cookie, controller, refreshPromise, logouts, controllerDisposed>>

(* loginWithRedirect saves the page and leaves for its login URL, which    *)
(* carries the page as well: the saved copy stays.                         *)
loginWithRedirect(uri) ==
    /\ OnPage
    /\ pendingLogin' = {uri}
    /\ left' = {uri}
    /\ UNCHANGED <<cookie, controller, refreshPromise, logouts, controllerDisposed>>

(* The server's login ends, with or without a session, and the page is     *)
(* loaded anew: nothing of the old page's controller remains.              *)
ReturnFromLogin ==
    /\ ~OnPage
    /\ cookie' \in {cookie, TRUE}
    /\ controller' = Loaded
    /\ refreshPromise' = "none"
    /\ logouts' = [l \in Logouts |-> "idle"]
    /\ controllerDisposed' = FALSE /\ left' = {}
    /\ UNCHANGED pendingLogin

SessionExpires ==
    /\ cookie /\ cookie' = FALSE
    /\ UNCHANGED <<pendingLogin, controller, refreshPromise, logouts, controllerDisposed, left>>

SessionNext ==
    \/ refresh \/ ServeUserInfo \/ UserInfoArrives \/ disposeController
    \/ \E l \in Logouts : \/ logout(l) \/ ServeLogout(l) \/ LogoutReturns(l)
                          \/ logoutAndClearPendingLoginRedirect(l)
    \/ \E uri \in Uris : savePendingLoginRedirect(uri) \/ loginWithRedirect(uri)
    \/ clearPendingLoginRedirect \/ resolveLoginUrl
    \/ ReturnFromLogin \/ SessionExpires

SessionSpec == SessionInit /\ [][SessionNext]_sessionVars

-----------------------------------------------------------------------------
(* Whatever the order in which a refresh and the logouts of a page end,    *)
(* the controller is left in a state a host can act on: the adapters show  *)
(* "loading" only before the first refresh or while a call is still in     *)
(* flight, and a session is shown neither signed out nor with an error.    *)
(* A disposed controller is frozen and exempt.                             *)
NeverLeftLoading ==
    OnPage /\ ~controllerDisposed =>
        /\ useSessionContext.loading \/ SessionContextService.loading =>
              \/ controller.status = "idle"
              \/ refreshPromise # "none" \/ \E l \in Logouts : logouts[l] # "idle"
        /\ controller.session => /\ controller.status \in {"authenticated", "loading"}
                                 /\ ~SessionContextService.error
=============================================================================
