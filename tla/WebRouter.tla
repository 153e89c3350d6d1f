----------------------------- MODULE WebRouter -----------------------------
(***************************************************************************)
(* The web router of the client SDK over its two navigation adapters: the  *)
(* guard that asks the planner host about the requirements of the matched  *)
(* route, and the navigations that wait for their guards together.         *)
(*                                                                         *)
(* The browser's session history is external and seen only through the URL *)
(* of the page, so a traversal may go anywhere.  Under the History adapter *)
(* a navigation changes it when it commits, and a traversal has changed it *)
(* before its guard runs.  Under the Navigation adapter the browser        *)
(* changes it when the event is intercepted, before any guard.             *)
(***************************************************************************)
EXTENDS Naturals, Sequences

CONSTANTS
    Navs,      \* the navigations that may be in flight together
    Pages,     \* URLs of the application
    Routes,    \* for each URL the chain of route segments that it matches
    Clients,   \* the clients that requirements ask
    Adapters,  \* the adapters to be considered
    NoMatch

(* An option is a requirement id and the client that checks it.  A segment *)
(* has a set of them, for nothing here depends on their order, and does    *)
(* not list an id twice.                                                   *)
ASSUME RoutesAssumption ==
    /\ NoMatch \notin Pages
    /\ Adapters \subseteq {"history", "navigation-api"}
    /\ \A u \in Pages :
         /\ Routes[u] \in Seq({Routes[u][i] : i \in DOMAIN Routes[u]})
         /\ \A i \in DOMAIN Routes[u] :
              /\ Routes[u][i].composition \in {"inherit", "merge", "replace"}
              /\ \A o, p \in Routes[u][i].requirements :
                   o.client \in Clients /\ (o.id = p.id => o = p)

VARIABLES
    adapter,         \* which adapter was created
    mounted,         \* the URLs that a registered route matches
    authenticated,   \* the clients that are signed in
    location,        \* the URL of the page
    navs,            \* the navigations in flight
    lastMatch,       \* the match of the last commit
    destroyed        \* the listeners are gone

routerVars == <<adapter, mounted, authenticated, location, navs, lastMatch, destroyed>>

NoNav == [pc |-> "none"]

matchUrl(url) == IF url \in mounted THEN url ELSE NoMatch

OptionIds(options) == {o.id : o \in options}

resolveEffectiveClientSet_ParentWins(parent, child) ==
    CASE child.composition = "inherit" -> parent
      [] child.composition = "replace" -> child.requirements
      [] child.composition = "merge" ->
            parent \cup {o \in child.requirements : o.id \notin OptionIds(parent)}

(* Merging, a child's option takes the place of the parent's with its id.  *)
resolveEffectiveClientSet(parent, child) ==
    CASE child.composition = "inherit" -> parent
      [] child.composition = "replace" -> child.requirements
      [] child.composition = "merge" ->
            {o \in parent : o.id \notin OptionIds(child.requirements)} \cup child.requirements

extractFullRouteRequirements(chain) ==
    LET effective[i \in 0..Len(chain)] ==
            IF i = 0 THEN {} ELSE resolveEffectiveClientSet(effective[i - 1], chain[i])
    IN  effective[Len(chain)]

(* evaluate up to its await: the candidates that are not authenticated.    *)
Unauthenticated(url) ==
    {o \in extractFullRouteRequirements(Routes[url]) : o.client \notin authenticated}

(* The before-listener up to its first await.  Without a match, or once    *)
(* the router is destroyed, there is no guard.  `by` tells why a navigation*)
(* may commit, `signedIn` who was signed in when the guard let it by.      *)
Guarded(url, cause) ==
    IF destroyed \/ matchUrl(url) = NoMatch
    THEN [pc |-> "allowed", url |-> url, cause |-> cause, by |-> "nobody", signedIn |-> {}]
    ELSE IF Unauthenticated(url) = {}
    THEN [pc |-> "allowed", url |-> url, cause |-> cause, by |-> "guard", signedIn |-> authenticated]
    ELSE [pc |-> "choosing", url |-> url, cause |-> cause, by |-> "handler", signedIn |-> {}]

RouterInit ==
    /\ adapter \in Adapters
    /\ mounted = Pages
    /\ authenticated = {}
    /\ location \in Pages
    /\ lastMatch = location
    /\ navs = [n \in Navs |-> NoNav]
    /\ destroyed = FALSE

-----------------------------------------------------------------------------
(* The application: clients sign in and out, routes come and go; the match *)
(* of the current page is not computed again.                              *)

SignIn(c) ==
    /\ c \notin authenticated
    /\ authenticated' = authenticated \cup {c}
    /\ UNCHANGED <<adapter, mounted, location, navs, lastMatch, destroyed>>

SignOut(c) ==
    /\ c \in authenticated
    /\ authenticated' = authenticated \ {c}
    /\ UNCHANGED <<adapter, mounted, location, navs, lastMatch, destroyed>>

AddRoute(u) ==
    /\ u \notin mounted
    /\ mounted' = mounted \cup {u}
    /\ UNCHANGED <<adapter, authenticated, location, navs, lastMatch, destroyed>>

RemoveRoute(u) ==
    /\ u \in mounted
    /\ mounted' = mounted \ {u}
    /\ UNCHANGED <<adapter, authenticated, location, navs, lastMatch, destroyed>>

-----------------------------------------------------------------------------
(* navigate, or a click on a link; under the Navigation adapter any        *)
(* navigate event, traversals included.                                    *)
Navigate(n, url) ==
    /\ navs[n] = NoNav
    /\ navs' = [navs EXCEPT ![n] = Guarded(url, "push")]
    /\ location' = IF adapter = "history" THEN location ELSE url
    /\ UNCHANGED <<adapter, mounted, authenticated, lastMatch, destroyed>>

(* popstate: back or forward under the History adapter.                    *)
Popstate(n, url) ==
    /\ adapter = "history" /\ ~destroyed
    /\ navs[n] = NoNav
    /\ navs' = [navs EXCEPT ![n] = Guarded(url, "traverse")]
    /\ location' = url
    /\ UNCHANGED <<adapter, mounted, authenticated, lastMatch, destroyed>>

(* The selector has chosen a candidate, whose onUnauthenticated is called. *)
SelectCandidate(n) ==
    /\ navs[n].pc = "choosing"
    /\ navs' = [navs EXCEPT ![n].pc = "asking"]
    /\ UNCHANGED <<adapter, mounted, authenticated, location, lastMatch, destroyed>>

(* It answers true, or a URL to go to instead.                             *)
OnUnauthenticated(n, outcome) ==
    /\ navs[n].pc = "asking"
    /\ navs' = [navs EXCEPT
         ![n].pc = IF outcome \in Pages THEN "redirected" ELSE "allowed",
         ![n].url = IF outcome \in Pages THEN outcome ELSE @,
         ![n].cause = IF outcome \in Pages THEN "push" ELSE @]
    /\ UNCHANGED <<adapter, mounted, authenticated, location, lastMatch, destroyed>>

Ends(n) == navs' = [navs EXCEPT ![n] = NoNav]

(* It answers false, or it or the selector throws.  Nothing is undone: a   *)
(* traversal, or an intercepted event, has moved the page already.         *)
Prevented(n) ==
    /\ navs[n].pc \in {"choosing", "asking"}
    /\ Ends(n)
    /\ UNCHANGED <<adapter, mounted, authenticated, location, lastMatch, destroyed>>

-----------------------------------------------------------------------------
(* The guard is done.                                                      *)

(* The commit listener, while there is one.                                *)
Commit(url) == lastMatch' = IF destroyed THEN lastMatch ELSE matchUrl(url)

(* The History adapter commits the navigation, or the target it was        *)
(* redirected to, whose own guard is not asked.                            *)
HistoryCommits(n) ==
    /\ adapter = "history" /\ navs[n].pc \in {"allowed", "redirected"}
    /\ location' = IF navs[n].cause = "traverse" THEN location ELSE navs[n].url
    /\ Commit(navs[n].url)
    /\ Ends(n)
    /\ UNCHANGED <<adapter, mounted, authenticated, destroyed>>

(* The handler of the Navigation adapter reports the URL of its own event, *)
(* whatever the browser has gone to since.                                 *)
InterceptedCommits(n) ==
    /\ adapter = "navigation-api" /\ navs[n].pc = "allowed"
    /\ Commit(navs[n].url)
    /\ Ends(n)
    /\ UNCHANGED <<adapter, mounted, authenticated, location, destroyed>>

(* navigation.navigate raises a new event, with a guard of its own.        *)
InterceptedRedirects(n) ==
    /\ adapter = "navigation-api" /\ navs[n].pc = "redirected"
    /\ location' = navs[n].url
    /\ navs' = [navs EXCEPT ![n] = Guarded(navs[n].url, "push")]
    /\ UNCHANGED <<adapter, mounted, authenticated, lastMatch, destroyed>>

(* navigatesuccess reports the URL of the page once more.                  *)
HandleSuccess ==
    /\ adapter = "navigation-api" /\ ~destroyed
    /\ Commit(location)
    /\ UNCHANGED <<adapter, mounted, authenticated, location, navs, destroyed>>

(* destroy: guards in flight are not stopped, and later navigations have   *)
(* none.                                                                   *)
Destroy ==
    /\ ~destroyed
    /\ destroyed' = TRUE
    /\ UNCHANGED <<adapter, mounted, authenticated, location, navs, lastMatch>>

RouterNext ==
    \/ \E c \in Clients : SignIn(c) \/ SignOut(c)
    \/ \E u \in Pages : AddRoute(u) \/ RemoveRoute(u)
    \/ \E n \in Navs :
         \/ \E u \in Pages : Navigate(n, u) \/ Popstate(n, u)
         \/ SelectCandidate(n)
         \/ \E outcome \in {"true"} \cup Pages : OnUnauthenticated(n, outcome)
         \/ Prevented(n)
         \/ HistoryCommits(n) \/ InterceptedCommits(n) \/ InterceptedRedirects(n)
    \/ HandleSuccess
    \/ Destroy

RouterSpec == RouterInit /\ [][RouterNext]_routerVars

-----------------------------------------------------------------------------
(* Properties                                                              *)

(* What the composition of segments promises, without the fold: an id is   *)
(* required when a segment that counts declares it, and its deepest such   *)
(* segment says which client is asked.  Segments above the last "replace"  *)
(* and segments that only inherit do not count.                            *)
Counts(chain, i) ==
    /\ chain[i].composition # "inherit"
    /\ \A j \in DOMAIN chain : j > i => chain[j].composition # "replace"

Required(chain) ==
    {o \in UNION {chain[i].requirements : i \in DOMAIN chain} :
        \E i \in DOMAIN chain :
            /\ Counts(chain, i) /\ o \in chain[i].requirements
            /\ \A j \in DOMAIN chain :
                 j > i /\ Counts(chain, j) => o.id \notin OptionIds(chain[j].requirements)}

(* A navigation that its guard allows unasked goes to a URL all of whose   *)
(* requirements, as the whole chain of segments composes them, were met    *)
(* when the guard looked, however sign-ins, sign-outs and route changes    *)
(* fall around it.                                                         *)
GuardCoversChain ==
    \A n \in Navs :
        navs[n].pc = "allowed" /\ navs[n].by = "guard" =>
            \A o \in Required(Routes[navs[n].url]) : o.client \in navs[n].signedIn
=============================================================================
