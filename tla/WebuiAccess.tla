---------------------------- MODULE WebuiAccess ----------------------------
(***************************************************************************)
(* How one tab of the reference web UI lets a person in: the context mode  *)
(* kept in localStorage, the authenticated layout route whose beforeLoad   *)
(* asks the context of that mode and keeps the answer in a module          *)
(* variable, the login chooser that consumes the remembered page, the      *)
(* playground pages and the four ways to sign out.  Navigations overlap    *)
(* (the router drops the outcome of all but the latest), and other tabs    *)
(* and the servers change the mode and the credentials at any time.        *)
(***************************************************************************)
EXTENDS Naturals, FiniteSets

CONSTANTS
    Contexts,       \* authentication contexts, "session" and "basic" among them
    Protected,      \* the children of the authenticated layout route
    Home,           \* the page "/", a protected one
    Navigations     \* navigations that may be under way at once

ASSUME AccessAssumption ==
    /\ {"session", "basic"} \subseteq Contexts /\ Home \in Protected
    /\ {"login", "blank", "away"} \cap Protected = {}

VARIABLES
    mode,                     \* localStorage's mode: {} or {context}
    held,                     \* the contexts whose credentials work
    at,                       \* what the tab shows: a page, "blank" or "away"
    leaving,                  \* {} or {<<context, return page>>}: a login elsewhere
    dashboardAuthenticated,   \* App.tsx's module variable
    navs,                     \* [Navigations -> navigation]
    latest,                   \* {} or {n}: the router's latest navigation
    pendingRedirect,          \* the session client's flow store: {} or {page}
    chooser,                  \* LoginPage: its effect's phase and the session link
    refused,                  \* history: {} or {page}, refused on the way to the chooser
    crossed                   \* history: navigations overlapped since the page loaded

accessVars == <<mode, held, at, leaving, dashboardAuthenticated, navs, latest,
                pendingRedirect, chooser, refused, crossed>>
memory == <<dashboardAuthenticated, navs, latest, chooser, refused, crossed>>

(* The playground page of a context goes by the context's name.            *)
Pages == Protected \cup Contexts \cup {"login"}

NoNavigation == [to |-> "none", context |-> "none"]
Underway(n) == navs[n] # NoNavigation
Closed == [phase |-> "none", link |-> {}]

AccessInit ==
    /\ mode \in {{}} \cup {{c} : c \in Contexts}
    /\ held \in SUBSET Contexts
    /\ at = "blank" /\ leaving = {} /\ pendingRedirect = {}
    /\ dashboardAuthenticated = FALSE
    /\ navs = [n \in Navigations |-> NoNavigation] /\ latest = {}
    /\ chooser = Closed /\ refused = {} /\ crossed = FALSE

ContextOf(m) == IF m = {} THEN "session" ELSE CHOOSE c \in Contexts : m = {c}

resolveAuthContextMode == ContextOf(mode)

(* The mount of LoginPage starts its effect, resolveLoginUrl().            *)
Shown(page) == IF page = "login" THEN [phase |-> "resolving", link |-> {}] ELSE Closed

(* window.location.href = page, a reload or a return from a login: nothing *)
(* of the page's memory is left, and the router starts over.               *)
Load(page, m) ==
    /\ dashboardAuthenticated' = FALSE /\ crossed' = FALSE /\ refused' = {}
    /\ IF page \in Protected
       THEN LET n == CHOOSE n \in Navigations : TRUE
            IN /\ navs' = [[k \in Navigations |-> NoNavigation] EXCEPT ![n] = [to |-> page, context |-> ContextOf(m)]]
               /\ latest' = {n} /\ at' = "blank" /\ chooser' = Closed
       ELSE /\ navs' = [n \in Navigations |-> NoNavigation] /\ latest' = {}
            /\ at' = page /\ chooser' = Shown(page)

Open(page) ==
    /\ at # "away"
    /\ Load(page, mode)
    /\ UNCHANGED <<mode, held, leaving, pendingRedirect>>

-----------------------------------------------------------------------------
(* A link inside the page.  beforeLoad reads the mode at once and asks     *)
(* that context; a public page is shown without a question.                *)
Follow(page) ==
    /\ at \notin {"blank", "away"} /\ page # at
    /\ IF page \in Protected
       THEN \E n \in Navigations :
              /\ ~Underway(n)
              /\ navs' = [navs EXCEPT ![n] = [to |-> page, context |-> resolveAuthContextMode]]
              /\ latest' = {n}
              /\ crossed' = (crossed \/ \E m \in Navigations : Underway(m))
              /\ UNCHANGED <<at, chooser, refused>>
       ELSE at' = page /\ chooser' = Shown(page) /\ latest' = {} /\ refused' = {}
            /\ crossed' = (crossed \/ \E m \in Navigations : Underway(m)) /\ UNCHANGED navs
    /\ UNCHANGED <<mode, held, leaving, dashboardAuthenticated, pendingRedirect>>

(* The answer of a context: the credentials work, they do not, no answer.  *)
(* Only the basic probe catches its failure; the other checks throw.       *)
GuardAnswers(n) == {IF navs[n].context \in held THEN "in" ELSE "out", "failed"}

Throws(n, answer) == answer = "failed" /\ navs[n].context # "basic"

(* The session client remembers the page it refuses and forgets it when    *)
(* somebody is signed in.                                                  *)
RememberedBy_Never(n, answer) == pendingRedirect

RememberedBy(n, answer) == IF navs[n].context # "session" THEN pendingRedirect
                           ELSE IF answer = "in" THEN {} ELSE {navs[n].to}

(* The context answers, and the rest of beforeLoad runs in one task        *)
(* (sessionStorage answers at once): the flag, the remembered page,        *)
(* securedBeforeLoad's verdict on the flag, and the router's use of it.    *)
beforeLoad(n) == \E answer \in GuardAnswers(n) :
    /\ Underway(n)
    /\ navs' = [navs EXCEPT ![n] = NoNavigation]
    /\ IF Throws(n, answer)
       THEN UNCHANGED <<at, dashboardAuthenticated, latest, pendingRedirect, chooser, refused>>
       ELSE /\ dashboardAuthenticated' = (answer = "in")
            /\ pendingRedirect' = RememberedBy(n, answer)
            /\ IF latest # {n}
               THEN UNCHANGED <<at, latest, chooser, refused>>
               ELSE IF dashboardAuthenticated'
               THEN at' = navs[n].to /\ latest' = {} /\ chooser' = Closed /\ refused' = {}
               ELSE /\ at' = "login" /\ latest' = {} /\ chooser' = Shown("login")
                    /\ refused' = IF navs[n].context = "session" THEN {navs[n].to} ELSE {}
    /\ UNCHANGED <<mode, held, leaving, crossed>>

-----------------------------------------------------------------------------
(* LoginPage's effect: the remembered page moves into the session link.    *)
ResolveLoginUrl ==
    /\ at = "login" /\ chooser.phase = "resolving"
    /\ chooser' = [phase |-> "resolved", link |-> pendingRedirect]
    /\ pendingRedirect' = {}
    /\ UNCHANGED <<mode, held, at, leaving, dashboardAuthenticated, navs, latest, refused, crossed>>

(* The chooser's entries, and the start buttons of the playgrounds.        *)
ReturnPage(c) ==
    IF at = c THEN c
    ELSE IF c = "session" /\ chooser.link # {} THEN CHOOSE p \in Protected : chooser.link = {p}
    ELSE Home

StartLogin(c) ==
    /\ at \in {"login", c}
    /\ mode' = {c}
    /\ leaving' = {<<c, ReturnPage(c)>>}
    /\ at' = "away"
    /\ dashboardAuthenticated' = FALSE /\ crossed' = FALSE /\ refused' = {}
    /\ navs' = [n \in Navigations |-> NoNavigation] /\ latest' = {} /\ chooser' = Closed
    /\ UNCHANGED <<held, pendingRedirect>>

LoginEnds ==
    /\ at = "away"
    /\ \E c \in Contexts, p \in Pages :
         /\ leaving = {<<c, p>>}
         /\ \/ held' = held \cup {c} /\ Load(p, mode)
            \/ held' = held /\ Load("login", mode)
    /\ leaving' = {} /\ UNCHANGED <<mode, pendingRedirect>>

(* The button of PlaygroundAccessBoundary on the page of another context   *)
(* forgets the mode, not the credentials.                                  *)
LeavePlayground ==
    /\ at \in Contexts /\ mode \notin {{}, {at}}
    /\ mode' = {} /\ Load("login", {})
    /\ UNCHANGED <<held, leaving, pendingRedirect>>

(* useDashboardLogout and the playgrounds' logout buttons: the session's   *)
(* ends at the server (a failure leaves everything), the token sets are    *)
(* cleared, the browser keeps its basic credentials.                       *)
DashboardLogout ==
    /\ at \in Protected \cup {resolveAuthContextMode}
    /\ mode' = {}
    /\ held' = held \ ({resolveAuthContextMode} \ {"basic"})
    /\ pendingRedirect' = IF resolveAuthContextMode = "session" THEN {} ELSE pendingRedirect
    /\ Load(IF at \in Protected THEN "login" ELSE at, {})
    /\ UNCHANGED leaving

(* Other tabs share localStorage; the servers and the clients drop         *)
(* credentials on their own.                                               *)
OtherTabSetsMode(m) ==
    /\ mode # m /\ mode' = m
    /\ UNCHANGED <<held, at, leaving, pendingRedirect, memory>>

CredentialsEnd(c) ==
    /\ c \in held /\ held' = held \ {c}
    /\ UNCHANGED <<mode, at, leaving, pendingRedirect, memory>>

AccessNext ==
    \/ \E p \in Pages : Open(p) \/ Follow(p)
    \/ \E n \in Navigations : beforeLoad(n)
    \/ ResolveLoginUrl \/ LoginEnds \/ LeavePlayground \/ DashboardLogout
    \/ \E c \in Contexts : StartLogin(c) \/ CredentialsEnd(c)
    \/ \E m \in {{}} \cup {{c} : c \in Contexts} : OtherTabSetsMode(m)

AccessSpec == AccessInit /\ [][AccessNext]_accessVars

-----------------------------------------------------------------------------
(* A person refused at a page of the session context gets there after the  *)
(* login: the chooser that the refusal opened offers exactly that page as  *)
(* the return of its session link (App.tsx saves it, LoginPage's effect    *)
(* consumes it), whatever other tabs and the servers do meanwhile, as long *)
(* as no second navigation crossed the refused one; and a protected page   *)
(* is never on screen with the module flag left by a refusal.              *)
LoginReturnsToRefusedPage ==
    /\ chooser.phase = "resolved" /\ refused # {} /\ ~crossed => chooser.link = refused
    /\ at \in Protected /\ ~crossed => dashboardAuthenticated
=============================================================================
