------------------------- MODULE BackendModeProofs -------------------------
(***************************************************************************)
(* Proofs about the parts of the web interface's backend mode: its guarded *)
(* pages, the tokens its requests carry, the callback fragments its pages  *)
(* capture, its playground page and the queries of its dashboard.  Each    *)
(* property is an invariant of its component for every value of the        *)
(* component's constants.                                                  *)
(***************************************************************************)
EXTENDS BackendBrowser, TokenUse, BackendPlayground, WebuiAccess, DashboardData, TLAPS

-----------------------------------------------------------------------------
(* The guarded pages of the web interface                                  *)

(* While no navigation crossed another, the only one under way is the      *)
(* router's latest; the page of a refusal is remembered until the chooser  *)
(* has it in its link; and a protected page is shown after a check that    *)
(* let the person in.                                                      *)
AccessIInv ==
    /\ DOMAIN navs = Navigations
    /\ ~crossed =>
         /\ \A n \in Navigations : Underway(n) => latest = {n}
         /\ refused # {} => /\ chooser.phase = "resolving" => pendingRedirect = refused
                            /\ chooser.phase = "resolved" => chooser.link = refused
         /\ at \in Protected => dashboardAuthenticated

(* A page load forgets everything and starts at most one navigation.       *)
LEMMA LoadGood ==
    ASSUME NEW p, NEW m, Load(p, m)
    PROVE AccessIInv'
<1>1. DOMAIN navs' = Navigations /\ refused' = {}
  BY Zenon DEF Load
<1>2. \A n \in Navigations : navs'[n] # NoNavigation => latest' = {n}
  BY Zenon DEF Load
<1>3. at' \notin Protected
  BY Zenon, AccessAssumption DEF Load
<1> QED BY Zenon, <1>1, <1>2, <1>3 DEF AccessIInv, Underway

(* One step of the tab.                                                    *)
LEMMA AccessStep ==
    ASSUME AccessIInv, [AccessNext]_accessVars
    PROVE AccessIInv'
<1>1. "login" \notin Protected /\ "blank" \notin Protected /\ "away" \notin Protected
  BY Zenon, AccessAssumption
<1>2. ASSUME NEW p \in Pages, Open(p) PROVE AccessIInv'
  BY Zenon, <1>2, LoadGood DEF Open
<1>3. ASSUME NEW p \in Pages, Follow(p) PROVE AccessIInv'
  <2>1. CASE p \in Protected
    <3>1. PICK n \in Navigations :
            /\ navs' = [navs EXCEPT ![n] = [to |-> p, context |-> resolveAuthContextMode]]
            /\ latest' = {n}
            /\ crossed' = (crossed \/ \E k \in Navigations : Underway(k))
            /\ UNCHANGED <<at, chooser, refused>>
      BY Zenon, <1>3, <2>1 DEF Follow
    <3>2. UNCHANGED <<dashboardAuthenticated, pendingRedirect>>
      BY Zenon, <1>3 DEF Follow
    <3>3. ASSUME ~crossed' PROVE ~crossed /\ \A k \in Navigations : navs[k] = NoNavigation
      BY <3>1, <3>3, Zenon DEF Underway
    <3>4. ~crossed' => \A k \in Navigations : navs'[k] # NoNavigation => latest' = {k}
      BY Zenon, <3>1, <3>3 DEF AccessIInv
    <3>5. DOMAIN navs' = Navigations
      BY Zenon, <3>1 DEF AccessIInv
    <3> QED BY Zenon, <3>1, <3>2, <3>3, <3>4, <3>5 DEF AccessIInv, Underway
  <2>2. CASE p \notin Protected
    <3>1. /\ at' = p /\ refused' = {} /\ navs' = navs
          /\ crossed' = (crossed \/ \E k \in Navigations : Underway(k))
      BY Zenon, <1>3, <2>2 DEF Follow
    <3> QED BY <2>2, <3>1, Zenon DEF AccessIInv, Underway
  <2> QED BY Zenon, <2>1, <2>2
<1>4. ASSUME NEW n \in Navigations, beforeLoad(n) PROVE AccessIInv'
  <2>1. PICK answer \in GuardAnswers(n) :
           /\ Underway(n) /\ navs' = [navs EXCEPT ![n] = NoNavigation] /\ crossed' = crossed
           /\ IF Throws(n, answer)
              THEN UNCHANGED <<at, dashboardAuthenticated, latest, pendingRedirect, chooser, refused>>
              ELSE /\ dashboardAuthenticated' = (answer = "in")
                   /\ pendingRedirect' = RememberedBy(n, answer)
                   /\ IF latest # {n}
                      THEN UNCHANGED <<at, latest, chooser, refused>>
                      ELSE IF dashboardAuthenticated'
                      THEN at' = navs[n].to /\ latest' = {} /\ chooser' = Closed /\ refused' = {}
                      ELSE /\ at' = "login" /\ latest' = {} /\ chooser' = Shown("login")
                           /\ refused' = IF navs[n].context = "session" THEN {navs[n].to} ELSE {}
    BY Zenon, <1>4 DEF beforeLoad
  <2>2. DOMAIN navs' = Navigations
    BY Zenon, <2>1 DEF AccessIInv
  <2>3. ASSUME ~crossed
        PROVE latest = {n} /\ \A k \in Navigations : navs'[k] = NoNavigation
    <3>1. latest = {n}
      BY Zenon, <2>1, <2>3 DEF AccessIInv
    <3>2. ASSUME NEW k \in Navigations PROVE navs'[k] = NoNavigation
      <4>1. CASE k = n
        BY Zenon, <2>1, <4>1 DEF AccessIInv
      <4>2. CASE k # n
        BY Zenon, <2>1, <2>3, <3>1, <4>2 DEF AccessIInv, Underway
      <4> QED BY Zenon, <4>1, <4>2
    <3> QED BY Zenon, <3>1, <3>2
  <2>4. CASE Throws(n, answer)
    BY Zenon, <2>1, <2>2, <2>3, <2>4 DEF AccessIInv, Underway
  <2>5. CASE ~Throws(n, answer) /\ answer = "in"
    BY <2>1, <2>2, <2>3, <2>5, Zenon DEF AccessIInv, Underway
  <2>6. CASE ~Throws(n, answer) /\ answer # "in"
    <3>1. ~crossed /\ navs[n].context = "session" => pendingRedirect' = {navs[n].to}
      BY Zenon, <2>1, <2>6 DEF RememberedBy
    <3>2. ~crossed => /\ at' = "login" /\ chooser'.phase = "resolving"
                      /\ refused' = IF navs[n].context = "session" THEN {navs[n].to} ELSE {}
      <4> SUFFICES ASSUME ~crossed
                   PROVE /\ at' = "login" /\ chooser'.phase = "resolving"
                         /\ refused' = IF navs[n].context = "session" THEN {navs[n].to} ELSE {}
        BY Zenon
      <4>1. latest = {n} /\ ~dashboardAuthenticated'
        BY <2>1, <2>3, <2>6, Zenon
      <4>2. at' = "login" /\ chooser' = Shown("login")
            /\ refused' = IF navs[n].context = "session" THEN {navs[n].to} ELSE {}
        BY Zenon, <2>1, <2>6, <4>1
      <4> QED BY Zenon, <4>2 DEF Shown
    <3> QED BY <1>1, <2>1, <2>2, <2>3, <3>1, <3>2, Zenon DEF AccessIInv, Underway
  <2> QED BY Zenon, <2>4, <2>5, <2>6
<1>5. ASSUME ResolveLoginUrl PROVE AccessIInv'
  <2>1. /\ chooser.phase = "resolving" /\ chooser' = [phase |-> "resolved", link |-> pendingRedirect]
        /\ UNCHANGED <<at, dashboardAuthenticated, navs, latest, refused, crossed>>
    BY Zenon, <1>5 DEF ResolveLoginUrl
  <2>2. chooser'.phase = "resolved" /\ chooser'.link = pendingRedirect
    BY Zenon, <2>1
  <2> QED BY Zenon, <2>1, <2>2 DEF AccessIInv, Underway
<1>6. ASSUME LoginEnds PROVE AccessIInv'
  BY Zenon, <1>1, <1>6, LoadGood DEF LoginEnds
<1>7. ASSUME LeavePlayground PROVE AccessIInv'
  BY Zenon, <1>1, <1>7, LoadGood DEF LeavePlayground
<1>8. ASSUME DashboardLogout PROVE AccessIInv'
  BY Zenon, <1>8, LoadGood DEF DashboardLogout
<1>9. ASSUME NEW c \in Contexts, StartLogin(c) PROVE AccessIInv'
  <2>1. at' = "away" /\ refused' = {} /\ navs' = [n \in Navigations |-> NoNavigation]
    BY Zenon, <1>9 DEF StartLogin
  <2> QED BY Zenon, <1>1, <2>1 DEF AccessIInv, Underway
<1>10. ASSUME NEW c \in Contexts, CredentialsEnd(c) PROVE AccessIInv'
  BY Zenon, <1>10 DEF CredentialsEnd, memory, AccessIInv, Underway
<1>11. ASSUME NEW m, OtherTabSetsMode(m) PROVE AccessIInv'
  BY Zenon, <1>11 DEF OtherTabSetsMode, memory, AccessIInv, Underway
<1>12. CASE UNCHANGED accessVars
  BY Zenon, <1>12 DEF accessVars, AccessIInv, Underway
<1> QED BY Zenon, <1>2, <1>3, <1>4, <1>5, <1>6, <1>7, <1>8, <1>9, <1>10, <1>11, <1>12 DEF AccessNext

(* A person refused at a page of the session context is offered exactly    *)
(* that page by the chooser, and a protected page is shown only with the   *)
(* flag of a check that let the person in, unless navigations crossed.     *)
THEOREM RefusedPageIsOffered == AccessSpec => []LoginReturnsToRefusedPage
<1>1. AccessInit => AccessIInv
  BY Zenon, AccessAssumption DEF AccessInit, AccessIInv, Underway
<1>2. AccessIInv /\ [AccessNext]_accessVars => AccessIInv'
  BY Zenon, AccessStep
<1>3. AccessIInv => LoginReturnsToRefusedPage
  BY Zenon DEF AccessIInv, LoginReturnsToRefusedPage
<1> QED BY <1>1, <1>2, <1>3, PTL DEF AccessSpec

-----------------------------------------------------------------------------
(* The callback fragments of the backend mode                              *)

BootPcs == {"none", "waiting", "captured", "loading", "restoring", "handling", "redeeming",
            "userinfo", "applying", "rejected", "clearing"}
Held == {"handling", "redeeming", "userinfo", "applying", "rejected", "clearing"}

BrowserTypes ==
    /\ boots \in [BootCalls -> [pc : BootPcs, fragment : Fragments \cup {NoFragment}]]
    /\ hash \in Fragments \cup {NoFragment} /\ fragmentStore \in Fragments \cup {NoFragment}
    /\ arrived \subseteq Fragments

(* What a call b knows: a fragment in the URL is one that every page       *)
(* bootstrap has just saved, and the store holds the fragment a call works *)
(* on or nothing, so that clearing it loses no other one.                  *)
BootGood(b, c, h, kept, dealt) ==
    /\ b \in PageBoots /\ h # NoFragment => c.pc = "none" \/ (c.pc = "captured" /\ kept = h)
    /\ b \in PopupLogins => c.pc # "captured"
    /\ c.pc \in Held => c.fragment # NoFragment /\ kept \in {NoFragment, c.fragment}
    /\ c.pc \in {"redeeming", "userinfo", "applying"} => c.fragment \in WellFormed
    /\ c.pc = "clearing" => c.fragment \in dealt

BrowserIInv ==
    /\ BrowserTypes
    /\ CapturedCallbackSurvives
    /\ \A b \in BootCalls : BootGood(b, boots[b], hash, fragmentStore, dealtWith)
    /\ \A p \in PopupLogins : boots[p].pc # "none" =>
          \A b \in BootCalls : b # p => boots[b].pc = "none"

BootRecords == [pc : BootPcs, fragment : Fragments \cup {NoFragment}]

(* Popup logins run alone when call b comes to c.                          *)
Alone(b, c) ==
    /\ b \in PopupLogins /\ c.pc # "none" => \A o \in BootCalls : o # b => boots[o].pc = "none"
    /\ c.pc # "none" => \A o \in PopupLogins : o # b => boots[o].pc = "none"

(* A call that is running may go on.                                       *)
LEMMA RunningAlone ==
    ASSUME BrowserIInv, NEW b \in BootCalls, boots[b].pc # "none", NEW c
    PROVE Alone(b, c)
BY Zenon DEF BrowserIInv, Alone, BootCalls

(* One call comes to c, and leaves the URL and the store alone.            *)
LEMMA BootMoves ==
    ASSUME BrowserIInv, NEW b \in BootCalls, NEW c \in BootRecords, Alone(b, c),
           boots' = [boots EXCEPT ![b] = c], UNCHANGED <<hash, fragmentStore, arrived>>,
           dealtWith \subseteq dealtWith', BootGood(b, c, hash, fragmentStore, dealtWith'),
           session' \in {session, NoFragment} \cup (WellFormed \cap dealtWith')
    PROVE BrowserIInv'
<1>1. /\ boots \in [BootCalls -> BootRecords] /\ \A o \in PopupLogins : o \in BootCalls
      /\ \A o \in BootCalls : BootGood(o, boots[o], hash, fragmentStore, dealtWith)
  BY Zenon DEF BrowserIInv, BrowserTypes, BootRecords, BootCalls
<1>2. /\ boots' \in [BootCalls -> BootRecords] /\ boots'[b] = c
      /\ \A o \in BootCalls : o # b => boots'[o] = boots[o]
  BY Zenon, <1>1
<1>3. BrowserTypes'
  BY Zenon, <1>2 DEF BrowserIInv, BrowserTypes, BootRecords
<1>4. CapturedCallbackSurvives'
  BY Zenon DEF BrowserIInv, CapturedCallbackSurvives
<1>5. ASSUME NEW o \in BootCalls PROVE BootGood(o, boots'[o], hash', fragmentStore', dealtWith')
  BY Zenon, <1>1, <1>2 DEF BootGood
<1>6. ASSUME NEW o \in PopupLogins, boots'[o].pc # "none", NEW x \in BootCalls, x # o
      PROVE boots'[x].pc = "none"
  BY Zenon, <1>1, <1>2, <1>6 DEF BrowserIInv, Alone
<1> QED BY Zenon, <1>3, <1>4, <1>5, <1>6 DEF BrowserIInv

(* One step of the browser side of the backend mode, with a host that does *)
(* not start a popup login, or reset, while another call runs.             *)
LEMMA BrowserStep ==
    ASSUME ~CallsOverlap, BrowserIInv, [BrowserNext]_browserVars
    PROVE BrowserIInv'
<1>1. /\ boots \in [BootCalls -> BootRecords] /\ CapturedCallbackSurvives
      /\ hash \in Fragments \cup {NoFragment} /\ fragmentStore \in Fragments \cup {NoFragment}
      /\ \A o \in BootCalls : BootGood(o, boots[o], hash, fragmentStore, dealtWith)
      /\ arrived \subseteq Fragments /\ NoFragment \notin Fragments
      /\ \A b \in PageBoots : b \in BootCalls /\ b \notin PopupLogins
      /\ \A b \in PopupLogins : b \in BootCalls /\ b \notin PageBoots
      /\ \A b \in BootCalls : b \in PageBoots \/ b \in PopupLogins
  BY Zenon, BrowserAssumption DEF BrowserIInv, BrowserTypes, BootRecords, BootCalls
<1>2. NoBoot \in BootRecords /\ NoBoot.pc = "none"
  BY Zenon DEF NoBoot, BootRecords, BootPcs
<1>3. ASSUME boots' = [b \in BootCalls |-> NoBoot], hash' \in Fragments \cup {NoFragment},
             fragmentStore' \in Fragments \cup {NoFragment}, arrived' \subseteq Fragments,
             CapturedCallbackSurvives'
      PROVE BrowserIInv'
  <2>1. boots' \in [BootCalls -> BootRecords] /\ \A b \in BootCalls : boots'[b] = NoBoot
    BY Zenon, <1>2, <1>3
  <2>2. \A b \in BootCalls : BootGood(b, boots'[b], hash', fragmentStore', dealtWith')
    BY Zenon, <1>2, <2>1 DEF BootGood, Held
  <2> QED BY <1>1, <1>2, <1>3, <2>1, <2>2, Zenon DEF BrowserIInv, BrowserTypes, BootRecords
<1>4. ASSUME NEW f \in Fragments, loginWithBackendOidcRedirect(f) PROVE BrowserIInv'
  BY <1>1, <1>3, <1>4, Zenon DEF loginWithBackendOidcRedirect, CapturedCallbackSurvives
<1>5. ASSUME BrowserReload PROVE BrowserIInv'
  BY Zenon, <1>1, <1>3, <1>5 DEF BrowserReload, CapturedCallbackSurvives
<1>6. ASSUME resetBackendOidcModeBrowserState PROVE BrowserIInv'
  <2>1. /\ NoCallRuns /\ dealtWith' = dealtWith \cup ({fragmentStore} \ {NoFragment})
        /\ fragmentStore' = NoFragment /\ session' = NoFragment /\ UNCHANGED <<hash, boots, arrived>>
    BY Zenon, <1>6 DEF resetBackendOidcModeBrowserState
  <2>2. CapturedCallbackSurvives'
    BY Zenon, <1>1, <2>1, BrowserAssumption DEF CapturedCallbackSurvives
  <2>3. \A b \in BootCalls : boots[b].pc = "none" /\ BootGood(b, boots'[b], hash', fragmentStore', dealtWith')
    BY Zenon, <2>1 DEF NoCallRuns, Boot, BootGood, Held
  <2> QED BY <1>1, <2>1, <2>2, <2>3, Zenon DEF BrowserIInv, BrowserTypes, BootRecords
<1>7. ASSUME NEW b \in PageBoots, captureBackendOidcModeCallbackFragment(b) PROVE BrowserIInv'
  <2>1. b \in BootCalls /\ MayStart(b) /\ UNCHANGED <<hash, session, arrived>>
    BY Zenon, <1>1, <1>7 DEF captureBackendOidcModeCallbackFragment
  <2>2. boots[b].pc = "none" /\ \A p \in PopupLogins : boots[p].pc = "none"
    BY Zenon, <1>1, <2>1 DEF MayStart, NoCallRuns, Boot
  <2>3. \A c : Alone(b, c)
    BY Zenon, <1>1, <2>2 DEF Alone
  <2>4. CASE hash = NoFragment
    <3> DEFINE c == [boots[b] EXCEPT !.pc = "loading"]
    <3>1. boots' = [boots EXCEPT ![b] = c] /\ UNCHANGED <<fragmentStore, dealtWith>>
      BY Zenon, <1>1, <1>7, <2>4 DEF captureBackendOidcModeCallbackFragment, BootGoes
    <3>2. c \in BootRecords /\ c.pc = "loading"
      BY Zenon, <1>1, <2>1 DEF BootRecords, BootPcs
    <3>3. BootGood(b, c, hash, fragmentStore, dealtWith')
      BY Zenon, <2>4, <3>2 DEF BootGood, Held
    <3> QED BY <2>1, <2>3, <3>1, <3>2, <3>3, BootMoves, Zenon
  <2>5. CASE hash # NoFragment
    <3> DEFINE c == [boots[b] EXCEPT !.pc = "captured"]
    <3>1. /\ boots' = [boots EXCEPT ![b] = c] /\ fragmentStore' = hash
          /\ dealtWith' = dealtWith \cup ({fragmentStore} \ {hash, NoFragment})
      BY Zenon, <1>1, <1>7, <2>5 DEF captureBackendOidcModeCallbackFragment, BootGoes, SaveFragment
    <3>2. c \in BootRecords /\ c.pc = "captured"
      BY Zenon, <1>1, <2>1 DEF BootRecords, BootPcs
    <3> HIDE DEF c
    <3>3. /\ boots' \in [BootCalls -> BootRecords] /\ boots'[b] = c
          /\ \A o \in BootCalls : o # b => boots'[o] = boots[o]
      BY Zenon, <1>1, <2>1, <3>1, <3>2
    <3>4. CapturedCallbackSurvives'
      BY Zenon, <1>1, <2>1, <3>1 DEF CapturedCallbackSurvives
    <3>5. ASSUME NEW o \in BootCalls PROVE BootGood(o, boots'[o], hash', fragmentStore', dealtWith')
      <4>1. CASE o = b
        BY <1>1, <2>1, <3>1, <3>2, <3>3, <4>1, Zenon DEF BootGood, Held
      <4>2. CASE o # b
        <5>1. boots'[o].pc \in {"none", "captured"} /\ (o \in PopupLogins => boots'[o].pc = "none")
          BY <1>1, <2>2, <2>5, <3>3, <4>2, Zenon DEF BootGood
        <5> QED BY Zenon, <2>1, <3>1, <5>1 DEF BootGood, Held
      <4> QED BY Zenon, <4>1, <4>2
    <3>6. \A o \in PopupLogins : boots'[o].pc = "none"
      BY Zenon, <1>1, <2>2, <3>3
    <3> QED BY <1>1, <2>1, <3>1, <3>3, <3>4, <3>5, <3>6, Zenon DEF BrowserIInv, BrowserTypes, BootRecords
  <2> QED BY Zenon, <2>4, <2>5
<1>8. ASSUME NEW b \in PopupLogins, loginWithBackendOidcPopup(b) PROVE BrowserIInv'
  <2> DEFINE c == [boots[b] EXCEPT !.pc = "waiting"]
  <2>1. /\ b \in BootCalls /\ MayStart(b) /\ UNCHANGED <<hash, fragmentStore, session, arrived, dealtWith>>
        /\ boots' = [boots EXCEPT ![b] = c]
    BY Zenon, <1>1, <1>8 DEF loginWithBackendOidcPopup, BootGoes
  <2>2. \A o \in BootCalls : boots[o].pc = "none"
    BY Zenon, <1>1, <2>1 DEF MayStart, NoCallRuns, Boot
  <2>3. Alone(b, c)
    BY Zenon, <1>1, <2>2 DEF Alone
  <2>4. c \in BootRecords /\ c.pc = "waiting"
    BY Zenon, <1>1, <2>1 DEF BootRecords, BootPcs
  <2>5. BootGood(b, c, hash, fragmentStore, dealtWith')
    BY Zenon, <1>1, <2>4 DEF BootGood, Held
  <2> QED BY <2>1, <2>3, <2>4, <2>5, BootMoves, Zenon
<1>9. ASSUME NEW b \in PopupLogins, NEW f \in Fragments, PopupRelays(b, f) PROVE BrowserIInv'
  <2> DEFINE c == [boots[b] EXCEPT !.pc = "loading"]
  <2>1. /\ b \in BootCalls /\ boots[b].pc = "waiting" /\ arrived' = arrived \cup {f}
        /\ boots' = [boots EXCEPT ![b] = c] /\ fragmentStore' = f
        /\ dealtWith' = dealtWith \cup ({fragmentStore} \ {f, NoFragment})
        /\ UNCHANGED <<hash, session>>
    BY Zenon, <1>1, <1>9 DEF PopupRelays, BootGoes, SaveFragment, Boot
  <2>2. c \in BootRecords /\ c.pc = "loading"
    BY Zenon, <1>1, <2>1 DEF BootRecords, BootPcs
  <2> HIDE DEF c
  <2>3. /\ boots' \in [BootCalls -> BootRecords] /\ boots'[b] = c
        /\ \A o \in BootCalls : o # b => boots'[o] = boots[o] /\ boots[o].pc = "none"
    BY Zenon, <1>1, <2>1, <2>2 DEF BrowserIInv
  <2>4. CapturedCallbackSurvives'
    BY Zenon, <1>1, <2>1 DEF CapturedCallbackSurvives
  <2>5. ASSUME NEW o \in BootCalls PROVE BootGood(o, boots'[o], hash', fragmentStore', dealtWith')
    BY <1>1, <2>2, <2>3, Zenon DEF BootGood, Held
  <2> QED BY Zenon, <1>1, <2>1, <2>3, <2>4, <2>5 DEF BrowserIInv, BrowserTypes, BootRecords
<1>10. ASSUME NEW b \in BootCalls, BootStep(b) PROVE BrowserIInv'
  <2> DEFINE Goes(pc) == [boots[b] EXCEPT !.pc = pc]
             g == boots[b].fragment
  <2>1. /\ boots[b] \in BootRecords /\ BootGood(b, boots[b], hash, fragmentStore, dealtWith)
        /\ g \in Fragments \cup {NoFragment}
    BY Zenon, <1>1 DEF BootRecords
  <2>2. \A pc \in BootPcs : Goes(pc) \in BootRecords /\ Goes(pc).pc = pc /\ Goes(pc).fragment = g
    BY Zenon, <2>1 DEF BootRecords
  <2>3. boots[b].pc # "none" => \A c : Alone(b, c)
    BY Zenon, RunningAlone
  <2>4. \A pc : BootGoes(b, pc) => boots' = [boots EXCEPT ![b] = Goes(pc)]
    BY Zenon, <1>1 DEF BootGoes
  <2> HIDE DEF Goes, g
  <2>5. boots[b].pc \notin {"none", "captured"} /\ b \in PageBoots => hash = NoFragment
    BY Zenon, <2>1 DEF BootGood
  <2>6. ASSUME boots[b].pc # "none", NEW pc \in BootPcs, BootGoes(b, pc),
               UNCHANGED <<hash, fragmentStore, arrived>>, dealtWith \subseteq dealtWith',
               boots[b].pc # "captured", pc # "captured",
               pc \in Held => boots[b].pc \in Held,
               pc \in {"redeeming", "userinfo", "applying"} => g \in WellFormed,
               pc = "clearing" => g \in dealtWith',
               session' \in {session, NoFragment} \cup (WellFormed \cap dealtWith')
        PROVE BrowserIInv'
    <3>1. BootGood(b, Goes(pc), hash, fragmentStore, dealtWith')
      BY <2>1, <2>2, <2>5, <2>6, Zenon DEF BootGood, g
    <3>2. /\ Goes(pc) \in BootRecords /\ Alone(b, Goes(pc)) /\ boots' = [boots EXCEPT ![b] = Goes(pc)]
      BY Zenon, <2>2, <2>3, <2>4, <2>6
    <3> QED BY <2>6, <3>1, <3>2, BootMoves, Zenon
  <2>7. ASSUME boots' = [boots EXCEPT ![b] = NoBoot], UNCHANGED <<hash, fragmentStore, arrived, dealtWith, session>>
        PROVE BrowserIInv'
    <3>1. BootGood(b, NoBoot, hash, fragmentStore, dealtWith') /\ Alone(b, NoBoot)
      BY Zenon, <1>2 DEF BootGood, Alone, Held
    <3> QED BY <1>2, <2>7, <3>1, BootMoves, Zenon
  <2>8. CASE ReplaceState(b)
    <3>1. /\ boots[b].pc = "captured" /\ hash' = NoFragment /\ boots' = [boots EXCEPT ![b] = Goes("loading")]
          /\ UNCHANGED <<fragmentStore, session, arrived, dealtWith>>
      BY Zenon, <2>4, <2>8 DEF ReplaceState, Boot
    <3>2. b \in PageBoots /\ hash \in {NoFragment, fragmentStore}
      BY <1>1, <2>1, <3>1, Zenon DEF BootGood
    <3>3. Goes("loading") \in BootRecords /\ Goes("loading").pc = "loading"
      BY Zenon, <2>2 DEF BootPcs
    <3>4. /\ boots' \in [BootCalls -> BootRecords] /\ boots'[b].pc = "loading"
          /\ \A o \in BootCalls : o # b => boots'[o] = boots[o]
      BY Zenon, <1>1, <3>1, <3>3
    <3>5. ASSUME NEW o \in BootCalls PROVE BootGood(o, boots'[o], hash', fragmentStore', dealtWith')
      <4>1. CASE o = b
        BY Zenon, <3>1, <3>4, <4>1 DEF BootGood, Held
      <4>2. CASE o # b
        <5>1. BootGood(o, boots[o], hash, fragmentStore, dealtWith)
          BY Zenon, <1>1
        <5> QED BY <3>1, <3>4, <4>2, <5>1, Zenon DEF BootGood
      <4> QED BY Zenon, <4>1, <4>2
    <3>6. CapturedCallbackSurvives'
      BY Zenon, <1>1, <3>1, <3>2 DEF CapturedCallbackSurvives
    <3>7. \A o \in PopupLogins : boots'[o].pc = "none"
      BY <1>1, <3>1, <3>2, <3>4, Zenon DEF BrowserIInv
    <3> QED BY <1>1, <3>1, <3>4, <3>5, <3>6, <3>7, Zenon DEF BrowserIInv, BrowserTypes, BootRecords
  <2>9. CASE bootstrapBackendOidcModeFromCallbackStore(b)
    <3> DEFINE c == [fragment |-> fragmentStore,
                     pc |-> IF fragmentStore = NoFragment THEN "restoring" ELSE "handling"]
    <3>1. /\ boots[b].pc = "loading" /\ boots' = [boots EXCEPT ![b] = c]
          /\ UNCHANGED <<hash, fragmentStore, session, arrived, dealtWith>>
      BY Zenon, <2>9 DEF bootstrapBackendOidcModeFromCallbackStore, Boot
    <3>2. c \in BootRecords
      BY Zenon, <1>1 DEF BootRecords, BootPcs
    <3>3. BootGood(b, c, hash, fragmentStore, dealtWith')
      BY Zenon, <2>5, <3>1 DEF BootGood, Held
    <3> QED BY <2>3, <3>1, <3>2, <3>3, BootMoves, Zenon
  <2>10. CASE restoreBackendOidcModeClient(b)
    BY Zenon, <2>7, <2>10 DEF restoreBackendOidcModeClient
  <2>11. CASE PopupFails(b)
    BY Zenon, <2>7, <2>11 DEF PopupFails
  <2>12. CASE HandleFragment(b)
    <3>1. /\ boots[b].pc = "handling" /\ UNCHANGED <<hash, fragmentStore, session, arrived, dealtWith>>
          /\ \/ BootGoes(b, "rejected")
             \/ BootGoes(b, "redeeming") /\ g \in WellFormed
             \/ BootGoes(b, "userinfo") /\ g \in WellFormed
      BY Zenon, <2>12 DEF HandleFragment, Boot, parseBackendOidcModeCallbackFragment, g
    <3> QED BY Zenon, <2>6, <3>1 DEF BootPcs, Held
  <2>13. CASE _redeemMetadata(b)
    <3>1. /\ boots[b].pc = "redeeming" /\ UNCHANGED <<hash, fragmentStore, session, arrived, dealtWith>>
          /\ BootGoes(b, "userinfo") \/ BootGoes(b, "applying")
      BY Zenon, <2>13 DEF _redeemMetadata, Boot
    <3>2. g \in WellFormed
      BY Zenon, <2>1, <3>1 DEF BootGood, g
    <3> QED BY Zenon, <2>6, <3>1, <3>2 DEF BootPcs, Held
  <2>14. CASE _resolveMetadata(b)
    <3>1. /\ boots[b].pc = "userinfo" /\ UNCHANGED <<hash, fragmentStore, session, arrived, dealtWith>>
          /\ BootGoes(b, "applying")
      BY Zenon, <2>14 DEF _resolveMetadata, Boot
    <3>2. g \in WellFormed
      BY Zenon, <2>1, <3>1 DEF BootGood, g
    <3> QED BY Zenon, <2>6, <3>1, <3>2 DEF BootPcs, Held
  <2>15. CASE \E honoured, retryable \in BOOLEAN : RedemptionFails(b, honoured, retryable)
    <3>1. /\ boots[b].pc = "redeeming" /\ UNCHANGED <<hash, fragmentStore, session, arrived, dealtWith>>
          /\ boots' = [boots EXCEPT ![b] = NoBoot] \/ BootGoes(b, "rejected")
      BY Zenon, <2>15 DEF RedemptionFails, Boot
    <3> QED BY Zenon, <2>6, <2>7, <3>1 DEF BootPcs, Held
  <2>16. CASE HandlingCancelled(b)
    BY Zenon, <2>7, <2>16 DEF HandlingCancelled
  <2>17. CASE FragmentApplied(b)
    <3>1. /\ boots[b].pc = "applying" /\ UNCHANGED <<hash, fragmentStore, arrived>>
          /\ session' = g /\ dealtWith' = dealtWith \cup {g} /\ BootGoes(b, "clearing")
      BY Zenon, <2>17 DEF FragmentApplied, Boot, g
    <3>2. g \in WellFormed
      BY Zenon, <2>1, <3>1 DEF BootGood, g
    <3> QED BY Zenon, <2>6, <3>1, <3>2 DEF BootPcs, Held
  <2>18. CASE FragmentRejected(b)
    <3>1. /\ boots[b].pc = "rejected" /\ UNCHANGED <<hash, fragmentStore, arrived, session>>
          /\ dealtWith' = dealtWith \cup {g} /\ BootGoes(b, "clearing")
      BY Zenon, <2>18 DEF FragmentRejected, Boot, g
    <3> QED BY Zenon, <2>6, <3>1 DEF BootPcs, Held
  <2>19. CASE ClearFragment(b)
    <3>1. /\ boots[b].pc = "clearing" /\ fragmentStore' = NoFragment /\ boots' = [boots EXCEPT ![b] = NoBoot]
          /\ UNCHANGED <<hash, session, arrived, dealtWith>>
      BY Zenon, <2>19 DEF ClearFragment, Boot
    <3>2. fragmentStore \in dealtWith \cup {NoFragment} /\ (b \in PageBoots => hash = NoFragment)
      BY Zenon, <2>1, <2>5, <3>1 DEF BootGood, Held
    <3>3. /\ boots' \in [BootCalls -> BootRecords] /\ boots'[b].pc = "none"
          /\ \A o \in BootCalls : o # b => boots'[o] = boots[o]
      BY Zenon, <1>1, <1>2, <3>1
    <3>4. ASSUME NEW o \in BootCalls PROVE BootGood(o, boots'[o], hash', fragmentStore', dealtWith')
      <4>1. CASE o = b
        BY Zenon, <3>3, <4>1 DEF BootGood, Held
      <4>2. CASE o # b
        <5>1. BootGood(o, boots[o], hash, fragmentStore, dealtWith) /\ boots'[o] = boots[o]
          BY Zenon, <1>1, <3>3, <4>2
        <5>2. hash = NoFragment \/ boots[o].pc = "none"
          BY <1>1, <3>1, <3>2, <4>2, Zenon DEF BrowserIInv
        <5> QED BY <3>1, <5>1, <5>2 DEF BootGood, Held
      <4> QED BY Zenon, <4>1, <4>2
    <3>5. CapturedCallbackSurvives'
      BY Zenon, <1>1, <3>1, <3>2 DEF CapturedCallbackSurvives
    <3>6. ASSUME NEW o \in PopupLogins, boots'[o].pc # "none", NEW x \in BootCalls, x # o
          PROVE boots'[x].pc = "none"
      BY Zenon, <1>1, <3>3, <3>6 DEF BrowserIInv
    <3> QED BY <1>1, <3>1, <3>3, <3>4, <3>5, <3>6, Zenon DEF BrowserIInv, BrowserTypes, BootRecords
  <2> QED BY <1>10, <2>8, <2>9, <2>10, <2>11, <2>12, <2>13, <2>14, <2>15, <2>16, <2>17, <2>18, <2>19, Zenon DEF BootStep
<1>11. CASE UNCHANGED browserVars
  BY <1>11, Zenon DEF browserVars, BrowserIInv, BrowserTypes, CapturedCallbackSurvives, BootGood
<1> QED BY Zenon, <1>4, <1>5, <1>6, <1>7, <1>8, <1>9, <1>10, <1>11 DEF BrowserNext

(* A callback that has reached the page is applied, rejected, replaced or  *)
(* reset, or is still in the URL or in the store, and the session comes    *)
(* from a well-formed one: for any number of fragments, overlapping page   *)
(* bootstraps and popup logins, if the host starts no popup login and no   *)
(* reset during another call.                                              *)
THEOREM CallbackSurvives ==
    ASSUME ~CallsOverlap PROVE BrowserSpec => []CapturedCallbackSurvives
<1>1. BrowserInit => BrowserIInv
  BY DEF BrowserInit, BrowserIInv, BrowserTypes, CapturedCallbackSurvives, BootGood, Held, NoBoot,
         BootPcs, BootCalls
<1>2. BrowserIInv /\ [BrowserNext]_browserVars => BrowserIInv'
  BY Zenon, BrowserStep
<1>3. BrowserIInv => CapturedCallbackSurvives
  BY Zenon DEF BrowserIInv
<1> QED BY <1>1, <1>2, <1>3, PTL DEF BrowserSpec

-----------------------------------------------------------------------------
(* The bearer headers and the handles of the tokens given out              *)

(* A key that request q was given: one that its URL matches, or the only   *)
(* one there was.                                                          *)
KeyFits(q, strict) == q.by = "interceptor" => q.key \in Matches[q.url] \/ (~strict /\ q.alone = TRUE)

UseGood(q, strict) ==
    /\ q.at = "sent" /\ q.token # 0 => q.live = TRUE /\ KeyFits(q, strict)
    /\ q.at = "refreshing" => q.key \in UseKeys /\ KeyFits(q, strict)

(* A token is given to one client only, so what ends the session of one    *)
(* client does not end the handles of another.                             *)
TokensGood ==
    /\ nextToken \in Nat \ {0}
    /\ \A k \in UseKeys : tokenOf[k].token \in 0 .. nextToken - 1
    /\ \A h \in handles : h.key \in UseKeys /\ h.token \in 1 .. nextToken - 1
    /\ ended \subseteq 0 .. nextToken - 1
    /\ \A k \in UseKeys : tokenOf[k].token # 0 => tokenOf[k].token \notin ended
    /\ \A h \in handles : h.token \notin ended
    /\ \A j, k \in UseKeys : tokenOf[j].token = tokenOf[k].token /\ tokenOf[k].token # 0 => j = k
    /\ \A h \in handles, k \in UseKeys : h.token = tokenOf[k].token => h.key = k
    /\ \A g, h \in handles : g.token = h.token => g.key = h.key

UseIInv ==
    /\ registered \in Seq(UseKeys)
    /\ DOMAIN tokenOf = UseKeys /\ DOMAIN useRequest = UseRequests
    /\ TokensGood
    /\ \A r \in UseRequests : UseGood(useRequest[r], strictUrlMatch)

(* clearState, dispose and a failed refresh end what client k has.         *)
LEMMA ClearedGood ==
    ASSUME TokensGood, DOMAIN tokenOf = UseKeys, NEW k \in UseKeys, Cleared(k), UNCHANGED nextToken
    PROVE TokensGood' /\ DOMAIN tokenOf' = UseKeys
<1>1. /\ tokenOf' = [tokenOf EXCEPT ![k] = NoMaterial]
      /\ ended' = ended \cup {h.token : h \in handles \ clearByClient(k)} \cup {tokenOf[k].token}
      /\ handles' = clearByClient(k)
  BY Zenon DEF Cleared
<1>2. /\ DOMAIN tokenOf' = UseKeys /\ tokenOf'[k].token = 0
      /\ \A j \in UseKeys : j # k => tokenOf'[j] = tokenOf[j]
  BY Zenon, <1>1 DEF NoMaterial
<1>3. \A h : h \in handles' <=> h \in handles /\ h.key # k
  BY Zenon, <1>1 DEF clearByClient
<1>4. \A t : t \in ended' <=> t \in ended \/ t = tokenOf[k].token \/ \E h \in handles : h.key = k /\ t = h.token
  BY Zenon, <1>1 DEF clearByClient
<1>5. \A j \in UseKeys : tokenOf'[j].token \in 0 .. nextToken - 1
  BY <1>2, SMTT(30) DEF TokensGood
<1>6. \A j \in UseKeys : tokenOf'[j].token # 0 => tokenOf'[j].token \notin ended'
  BY <1>2, <1>4, SMTT(30) DEF TokensGood
<1>7. \A h \in handles' : h.token \notin ended'
  BY <1>3, <1>4 DEF TokensGood
<1>8. ASSUME NEW t \in ended' PROVE t \in 0 .. nextToken - 1
  <2>1. CASE \E h \in handles : h.key = k /\ t = h.token
    BY <2>1, SMTT(30) DEF TokensGood
  <2>2. CASE t \in ended
    BY Zenon, <2>2 DEF TokensGood
  <2>3. CASE t = tokenOf[k].token
    BY Zenon, <2>3 DEF TokensGood
  <2> QED BY Zenon, <1>4, <1>8, <2>1, <2>2, <2>3
<1>9. \A h \in handles', j \in UseKeys : h.token = tokenOf'[j].token => h.key = j
  BY <1>2, <1>3, SMTT(30) DEF TokensGood
<1>10. \A i, j \in UseKeys : tokenOf'[i].token = tokenOf'[j].token /\ tokenOf'[j].token # 0 => i = j
  BY <1>2, SMTT(30) DEF TokensGood
<1> QED BY Zenon, <1>2, <1>3, <1>5, <1>6, <1>7, <1>8, <1>9, <1>10 DEF TokensGood

(* A sign-in, or a refresh that gives a handle with it, takes a new token. *)
LEMMA NewTokenGood ==
    ASSUME TokensGood, DOMAIN tokenOf = UseKeys, NEW k \in UseKeys, NewToken(k), UNCHANGED ended,
           handles \subseteq handles',
           \A h \in handles' : h \in handles \/ (h.key = k /\ h.token = nextToken)
    PROVE TokensGood' /\ DOMAIN tokenOf' = UseKeys
<1>1. /\ nextToken' = nextToken + 1 /\ nextToken \in Nat \ {0}
      /\ tokenOf' = [tokenOf EXCEPT ![k] = [token |-> nextToken, exp |-> useClock + Lifetime]]
  BY Zenon DEF NewToken, TokensGood
<1>2. /\ DOMAIN tokenOf' = UseKeys /\ tokenOf'[k].token = nextToken
      /\ \A j \in UseKeys : j # k => tokenOf'[j] = tokenOf[j]
  BY Zenon, <1>1
<1>3. nextToken \notin ended /\ \A j \in UseKeys : tokenOf[j].token # nextToken
  BY SMTT(30) DEF TokensGood
<1>4. \A h \in handles : h.token # nextToken
  BY SMTT(30) DEF TokensGood
<1>5. \A j \in UseKeys : tokenOf'[j].token \in 0 .. nextToken' - 1
  BY <1>1, <1>2, SMTT(30) DEF TokensGood
<1>6. \A h \in handles' : h.key \in UseKeys /\ h.token \in 1 .. nextToken' - 1 /\ h.token \notin ended'
  BY <1>1, <1>3, SMTT(30) DEF TokensGood
<1>7. ended' \subseteq 0 .. nextToken' - 1
  BY <1>1, SMTT(30) DEF TokensGood
<1>8. \A j \in UseKeys : tokenOf'[j].token # 0 => tokenOf'[j].token \notin ended'
  BY Zenon, <1>2, <1>3 DEF TokensGood
<1>9. \A i, j \in UseKeys : tokenOf'[i].token = tokenOf'[j].token /\ tokenOf'[j].token # 0 => i = j
  BY <1>2, <1>3, SMTT(30) DEF TokensGood
<1>10. \A h \in handles', j \in UseKeys : h.token = tokenOf'[j].token => h.key = j
  BY <1>2, <1>3, <1>4, SMTT(30) DEF TokensGood
<1>11. \A g, h \in handles' : g.token = h.token => g.key = h.key
  BY Zenon, <1>4 DEF TokensGood
<1> QED BY <1>1, <1>2, <1>5, <1>6, <1>7, <1>8, <1>9, <1>10, <1>11, SMTT(30) DEF TokensGood

(* A handle is issued for the token that client k has.                     *)
LEMMA IssuedGood ==
    ASSUME TokensGood, NEW k \in UseKeys, tokenOf[k].token # 0, NEW r, Issue(r, k),
           UNCHANGED <<tokenOf, nextToken, ended>>
    PROVE TokensGood'
<1> DEFINE new == [id |-> r, key |-> k, token |-> tokenOf[k].token, exp |-> tokenOf[k].exp]
<1>1. handles' = handles \cup {new} /\ new.key = k /\ new.token = tokenOf[k].token
  BY Zenon DEF Issue
<1> HIDE DEF new
<1>2. tokenOf[k].token \in 1 .. nextToken - 1 /\ tokenOf[k].token \notin ended
  BY SMTT(30) DEF TokensGood
<1>3. \A h \in handles' : h.key \in UseKeys /\ h.token \in 1 .. nextToken - 1 /\ h.token \notin ended
  BY Zenon, <1>1, <1>2 DEF TokensGood
<1>4. \A h \in handles', j \in UseKeys : h.token = tokenOf[j].token => h.key = j
  BY <1>1, SMTT(30) DEF TokensGood
<1>5. \A g, h \in handles' : g.token = h.token => g.key = h.key
  BY <1>1, SMTT(30) DEF TokensGood
<1> QED BY Zenon, <1>3, <1>4, <1>5 DEF TokensGood

(* Request r comes to q.                                                   *)
LEMMA UseMoves ==
    ASSUME UseIInv, NEW r \in UseRequests, NEW q, useRequest' = [useRequest EXCEPT ![r] = q],
           UseGood(q, strictUrlMatch), UNCHANGED <<strictUrlMatch, registered>>,
           TokensGood', DOMAIN tokenOf' = UseKeys
    PROVE UseIInv'
<1>1. DOMAIN useRequest' = UseRequests /\ \A x \in UseRequests : useRequest'[x] = IF x = r THEN q ELSE useRequest[x]
  BY Zenon DEF UseIInv
<1> QED BY Zenon, <1>1 DEF UseIInv

(* A request that goes without a header, or not at all.                    *)
LEMMA UnauthorizedGood ==
    ASSUME UseIInv, NEW r \in UseRequests, NEW by, NEW url, Unauthorized(r, by, url),
           UNCHANGED <<strictUrlMatch, registered>>, TokensGood', DOMAIN tokenOf' = UseKeys
    PROVE UseIInv'
<1> DEFINE q == IF by = "transport" THEN Dropped(r, by, url) ELSE Sent(r, by, url, "none", 0)
<1>1. useRequest' = [useRequest EXCEPT ![r] = q]
  BY Zenon DEF Unauthorized
<1>2. q.token = 0 /\ q.at \in {"failed", "sent"}
  BY Zenon DEF Dropped, Sent, NoRequest
<1> HIDE DEF q
<1>3. UseGood(q, strictUrlMatch)
  BY Zenon, <1>2 DEF UseGood
<1> QED BY <1>1, <1>3, UseMoves, ZenonT(60)

(* ensureAuthForResource of a client that the request may be given.        *)
LEMMA EnsuredGood ==
    ASSUME UseIInv, NEW r \in UseRequests, NEW by, NEW url, NEW k \in UseKeys,
           ensureAuthForResource(r, by, url, k),
           by = "interceptor" => k \in Matches[url] \/ (~strictUrlMatch /\ Registered = {k}),
           UNCHANGED <<strictUrlMatch, registered, tokenOf, nextToken, ended>>
    PROVE UseIInv'
<1>1. TokensGood /\ DOMAIN tokenOf = UseKeys
  BY Zenon DEF UseIInv
<1>2. CASE Fresh(tokenOf[k])
  <2> DEFINE q == Sent(r, by, url, k, tokenOf[k].token)
  <2>1. useRequest' = [useRequest EXCEPT ![r] = q] /\ Issue(r, k)
    BY Zenon, <1>2 DEF ensureAuthForResource
  <2>5. tokenOf[k].token # 0
    BY Zenon, <1>2 DEF Fresh
  <2>2. /\ q.at = "sent" /\ q.by = by /\ q.url = url /\ q.key = k
        /\ q.live = TRUE /\ (Registered = {k} => q.alone = TRUE)
    BY <1>2, Zenon DEF Sent
  <2> HIDE DEF q
  <2>3. UseGood(q, strictUrlMatch)
    BY Zenon, <2>2 DEF UseGood, KeyFits
  <2>4. TokensGood'
    BY <1>1, <2>1, <2>5, IssuedGood, Zenon
  <2> QED BY <1>1, <2>1, <2>3, <2>4, UseMoves, ZenonT(60)
<1>3. CASE ~Fresh(tokenOf[k]) /\ (tokenOf[k] = NoMaterial \/ ~ready[k])
  <2>1. Unauthorized(r, by, url) /\ UNCHANGED handles
    BY Zenon, <1>3 DEF ensureAuthForResource
  <2>2. TokensGood'
    BY Zenon, <1>1, <2>1 DEF TokensGood
  <2> QED BY Zenon, <1>1, <2>1, <2>2, UnauthorizedGood
<1>4. CASE ~Fresh(tokenOf[k]) /\ ~(tokenOf[k] = NoMaterial \/ ~ready[k])
  <2> DEFINE q == [NoRequest EXCEPT !.at = "refreshing", !.by = by, !.url = url, !.key = k,
                                    !.alone = Registered = {k}]
  <2>1. useRequest' = [useRequest EXCEPT ![r] = q] /\ UNCHANGED handles
    BY Zenon, <1>4 DEF ensureAuthForResource
  <2>2. /\ q.at = "refreshing" /\ q.by = by /\ q.url = url /\ q.key = k
        /\ (Registered = {k} => q.alone = TRUE)
    BY ZenonT(60) DEF NoRequest
  <2> HIDE DEF q
  <2>3. UseGood(q, strictUrlMatch)
    BY Zenon, <2>2 DEF UseGood, KeyFits
  <2>4. TokensGood'
    BY <1>1, <2>1, ZenonT(60) DEF TokensGood
  <2> QED BY <1>1, <2>1, <2>3, <2>4, UseMoves, Zenon
<1> QED BY Zenon, <1>2, <1>3, <1>4

(* The key that the interceptor is given is one the URL matches, or the    *)
(* only one registered.                                                    *)
LEMMA ResolvedKeyFits ==
    ASSUME registered \in Seq(UseKeys), NEW url, NEW k \in resolveAuthorizationForRequest(url),
           \A j \in resolveAuthorizationForRequest(url) : j = k
    PROVE k \in UseKeys /\ (k \in Matches[url] \/ (~strictUrlMatch /\ Registered = {k}))
<1>1. Registered \subseteq UseKeys
  BY DEF Registered
<1>2. \A j \in clientKeyForUrl(url) : j \in Matches[url] /\ j \in Registered
  BY Zenon DEF clientKeyForUrl, Registered
<1>3. CASE clientKeyForUrl(url) = {}
  <2>1. ~strictUrlMatch /\ resolveAuthorizationForRequest(url) = Registered
    BY Zenon, <1>3 DEF resolveAuthorizationForRequest, resolveEnsureAuthKey
  <2> QED BY Zenon, <1>1, <2>1
<1>4. CASE clientKeyForUrl(url) # {}
  <2>1. resolveAuthorizationForRequest(url) = clientKeyForUrl(url)
    BY Zenon, <1>4 DEF resolveAuthorizationForRequest, resolveEnsureAuthKey
  <2> QED BY Zenon, <1>1, <1>2, <2>1
<1> QED BY Zenon, <1>3, <1>4

(* One step of the clients and the requests.                               *)
LEMMA UseStep ==
    ASSUME UseIInv, [UseNext]_useVars
    PROVE UseIInv'
<1>1. /\ TokensGood /\ DOMAIN tokenOf = UseKeys /\ DOMAIN useRequest = UseRequests
      /\ registered \in Seq(UseKeys)
      /\ \A r \in UseRequests : UseGood(useRequest[r], strictUrlMatch)
  BY Zenon DEF UseIInv
<1>2. ASSUME UNCHANGED <<strictUrlMatch, useRequest>>, registered' \in Seq(UseKeys), TokensGood',
             DOMAIN tokenOf' = UseKeys
      PROVE UseIInv'
  BY Zenon, <1>1, <1>2 DEF UseIInv
<1>3. ASSUME UNCHANGED <<tokenOf, nextToken, ended>>, handles' \subseteq handles
      PROVE TokensGood' /\ DOMAIN tokenOf' = UseKeys
  BY Zenon, <1>1, <1>3 DEF TokensGood
<1>4. ASSUME UNCHANGED useVars PROVE UseIInv'
  BY Zenon, <1>1, <1>2, <1>3, <1>4 DEF useVars
<1> SUFFICES ASSUME UseNext PROVE UseIInv'
  BY Zenon, <1>4
<1>5. UNCHANGED strictUrlMatch
  BY Zenon DEF UseNext
<1>6. ASSUME NEW k \in UseKeys, Register(k) PROVE UseIInv'
  BY <1>1, <1>2, <1>3, <1>5, <1>6 DEF Register
<1>7. ASSUME NEW k \in UseKeys, ClientReady(k) PROVE UseIInv'
  BY Zenon, <1>1, <1>2, <1>3, <1>5, <1>7 DEF ClientReady
<1>8. ASSUME NEW k \in UseKeys, SignIn(k) PROVE UseIInv'
  <2>1. NewToken(k) /\ UNCHANGED <<registered, handles, ended, useRequest>>
    BY Zenon, <1>8 DEF SignIn
  <2>2. TokensGood' /\ DOMAIN tokenOf' = UseKeys
    BY Zenon, <1>1, <2>1, NewTokenGood
  <2> QED BY Zenon, <1>1, <1>2, <1>5, <2>1, <2>2
<1>9. ASSUME NEW k \in UseKeys, clearState(k) PROVE UseIInv'
  <2>1. Cleared(k) /\ UNCHANGED <<registered, nextToken, useRequest>>
    BY Zenon, <1>9 DEF clearState
  <2>2. TokensGood' /\ DOMAIN tokenOf' = UseKeys
    BY Zenon, <1>1, <2>1, ClearedGood
  <2> QED BY Zenon, <1>1, <1>2, <1>5, <2>1, <2>2
<1>10. ASSUME NEW k \in UseKeys, reset(k) PROVE UseIInv'
  <2>1. /\ Cleared(k) /\ UNCHANGED <<registered, nextToken>>
        /\ useRequest' = [r \in UseRequests |->
             IF useRequest[r].at = "refreshing" /\ useRequest[r].key = k
             THEN [useRequest[r] EXCEPT !.at = "orphaned"] ELSE useRequest[r]]
    BY Zenon, <1>10 DEF reset
  <2>2. TokensGood' /\ DOMAIN tokenOf' = UseKeys
    BY Zenon, <1>1, <2>1, ClearedGood
  <2>3. ASSUME NEW r \in UseRequests PROVE UseGood(useRequest'[r], strictUrlMatch)
    <3>1. CASE useRequest'[r] = useRequest[r]
      BY Zenon, <1>1, <3>1
    <3>2. CASE useRequest'[r] = [useRequest[r] EXCEPT !.at = "orphaned"] /\ useRequest'[r] # useRequest[r]
      <4>1. useRequest'[r].at \notin {"sent", "refreshing"}
        BY <3>2
      <4> QED BY Zenon, <4>1 DEF UseGood
    <3> QED BY Zenon, <2>1, <3>1, <3>2
  <2> QED BY Zenon, <1>1, <1>5, <2>1, <2>2, <2>3 DEF UseIInv
<1>11. ASSUME NEW r \in UseRequests, NEW url, intercept(r, url) PROVE UseIInv'
  <2> DEFINE keys == resolveAuthorizationForRequest(url)
  <2>1. UNCHANGED <<registered, tokenOf, nextToken, ended>>
    BY Zenon, <1>11 DEF intercept
  <2>2. CASE keys = {}
    <3>1. Unauthorized(r, "interceptor", url) /\ UNCHANGED handles
      BY Zenon, <1>11, <2>2 DEF intercept
    <3> QED BY Zenon, <1>1, <1>3, <1>5, <2>1, <3>1, UnauthorizedGood
  <2>3. CASE \E j, k \in keys : j # k
    <3>1. useRequest' = [useRequest EXCEPT ![r] = Dropped(r, "interceptor", url)] /\ UNCHANGED handles
      BY Zenon, <1>11, <2>3 DEF intercept
    <3>2. UseGood(Dropped(r, "interceptor", url), strictUrlMatch)
      BY Zenon DEF UseGood, Dropped, NoRequest
    <3> QED BY <1>1, <1>3, <1>5, <2>1, <3>1, <3>2, UseMoves, Zenon
  <2>4. CASE keys # {} /\ ~\E j, k \in keys : j # k
    <3>1. PICK k \in keys : ensureAuthForResource(r, "interceptor", url, k)
      BY Zenon, <1>11, <2>4 DEF intercept
    <3>2. k \in UseKeys /\ (k \in Matches[url] \/ (~strictUrlMatch /\ Registered = {k}))
      BY Zenon, <1>1, <2>4, ResolvedKeyFits
    <3> QED BY Zenon, <1>5, <2>1, <3>1, <3>2, EnsuredGood
  <2> QED BY Zenon, <2>2, <2>3, <2>4
<1>12. ASSUME NEW r \in UseRequests, NEW url, NEW k \in UseKeys, execute(r, url, k) PROVE UseIInv'
  BY Zenon, <1>5, <1>12, EnsuredGood DEF execute
<1>13. ASSUME NEW r \in UseRequests, RefreshSucceeds(r) PROVE UseIInv'
  <2> DEFINE q == useRequest[r]
             new == [at |-> "sent", by |-> q.by, url |-> q.url, key |-> q.key, token |-> nextToken,
                     alone |-> q.alone, live |-> TRUE]
             h == [id |-> r, key |-> q.key, token |-> nextToken, exp |-> useClock + Lifetime]
  <2>1. /\ q.at = "refreshing" /\ NewToken(q.key) /\ useRequest' = [useRequest EXCEPT ![r] = new]
        /\ handles' = handles \cup {h} /\ UNCHANGED <<registered, ended>>
    BY <1>13, Zenon DEF RefreshSucceeds
  <2>2. q.key \in UseKeys /\ KeyFits(q, strictUrlMatch)
    BY <1>1, <2>1, Zenon DEF UseGood
  <2>3. h.key = q.key /\ h.token = nextToken
    BY Zenon
  <2>4. UseGood(new, strictUrlMatch)
    BY <2>2, ZenonT(60) DEF UseGood, KeyFits
  <2> HIDE DEF new, h
  <2>5. TokensGood' /\ DOMAIN tokenOf' = UseKeys
    BY <1>1, <2>1, <2>2, <2>3, NewTokenGood, ZenonT(60)
  <2> QED BY <1>5, <2>1, <2>4, <2>5, UseMoves, Zenon
<1>14. ASSUME NEW r \in UseRequests, RefreshFails(r) PROVE UseIInv'
  <2> DEFINE q == useRequest[r]
  <2>1. /\ q.at \in {"refreshing", "orphaned"} /\ Unauthorized(r, q.by, q.url)
        /\ IF q.at = "refreshing" THEN Cleared(q.key) ELSE UNCHANGED <<tokenOf, handles, ended>>
        /\ UNCHANGED <<registered, nextToken>>
    BY Zenon, <1>14 DEF RefreshFails
  <2>2. TokensGood' /\ DOMAIN tokenOf' = UseKeys
    <3>1. CASE q.at = "refreshing"
      <4>1. q.key \in UseKeys
        BY Zenon, <1>1, <3>1 DEF UseGood
      <4> QED BY Zenon, <1>1, <2>1, <3>1, <4>1, ClearedGood
    <3>2. CASE q.at # "refreshing"
      BY Zenon, <1>3, <2>1, <3>2
    <3> QED BY Zenon, <3>1, <3>2
  <2> QED BY <1>5, <2>1, <2>2, UnauthorizedGood, Zenon
<1>15. ASSUME NEW h \in handles, consume(h) PROVE UseIInv'
  BY Zenon, <1>1, <1>2, <1>3, <1>5, <1>15 DEF consume
<1>16. ASSUME UseTick PROVE UseIInv'
  BY Zenon, <1>1, <1>2, <1>3, <1>5, <1>16 DEF UseTick
<1> QED BY <1>6, <1>7, <1>8, <1>9, <1>10, <1>11, <1>12, <1>13, <1>14, <1>15, <1>16, Zenon DEF UseNext

(* A header carries a token that was live when the request left, of a      *)
(* client the request may be given, and no handle of a session that has    *)
(* ended resolves: for any number of clients, URLs, requests and tokens.   *)
THEOREM TokensFit == UseSpec => []TokensFitTheirUse
<1>1. UseInit => UseIInv
  BY SMTT(30) DEF UseInit, UseIInv, TokensGood, UseGood, NoMaterial, NoRequest
<1>2. UseIInv /\ [UseNext]_useVars => UseIInv'
  BY Zenon, UseStep
<1>3. UseIInv => TokensFitTheirUse
  BY Zenon DEF UseIInv, TokensFitTheirUse, HeadersFitTheirRequests, EndedHandlesStayDead, UseGood, KeyFits,
         TokensGood
<1> QED BY <1>1, <1>2, <1>3, PTL DEF UseSpec

-----------------------------------------------------------------------------
(* The playground page of the backend mode                                 *)

Operations == {"create_token", "create_basic", "dashboard_bearer", "token_entry", "basic_entry",
               "propagation"}
PageRequests == [op : Operations, group : SUBSET PageGroups, cancelled : BOOLEAN, open : BOOLEAN]

(* No request of family f in rs was issued after r.                        *)
Latest(f, r, rs) == \A i \in DOMAIN rs : FamilyOf[rs[i].op] = f => i <= r

(* A credential is about a request that was not forgotten, in its group.   *)
EntryGood(e, rs, gone) ==
    e # NoEntry => e.by \in DOMAIN rs /\ e.by > gone /\ e.group = rs[e.by].group

(* A ref holds its family's latest request, none that was forgotten or is  *)
(* about to be; a status is about the latest request that counts.          *)
RefGood(f, r, rs, gone, doing, from) ==
    r # 0 => /\ r \in DOMAIN rs /\ Latest(f, r, rs) /\ r > gone
             /\ doing = "clear" => r > from
StatusGood(f, r, rs, gone) == r # 0 => r > gone /\ Latest(f, r, rs)

PageTypes ==
    /\ requests \in Seq(PageRequests)
    /\ refs \in [Families -> Nat] /\ DOMAIN status = Families /\ \A f \in Families : status[f].of \in Nat
    /\ groups \subseteq PageGroups /\ selected \subseteq PageGroups
    /\ generated.group \subseteq PageGroups /\ basicEntry.group \subseteq PageGroups
    /\ forgotten \in 0 .. Len(requests) /\ clearFrom \in 0 .. Len(requests)

PageIInv ==
    /\ PageTypes
    /\ \A f \in Families : /\ RefGood(f, refs[f], requests, forgotten, busy, clearFrom)
                           /\ StatusGood(f, status[f].of, requests, forgotten)
    /\ EntryGood(generated, requests, forgotten) /\ EntryGood(basicEntry, requests, forgotten)

(* Cancelling sources changes neither what the requests are nor how many.  *)
LEMMA CancelKeeps ==
    ASSUME NEW rs \in Seq(PageRequests), NEW ids
    PROVE /\ Cancelled(rs, ids) \in Seq(PageRequests) /\ DOMAIN Cancelled(rs, ids) = DOMAIN rs
          /\ Len(Cancelled(rs, ids)) = Len(rs)
          /\ \A i \in DOMAIN rs : /\ Cancelled(rs, ids)[i].op = rs[i].op
                                  /\ Cancelled(rs, ids)[i].group = rs[i].group
<1>1. \A i \in DOMAIN rs : rs[i] \in PageRequests /\ DOMAIN rs = 1 .. Len(rs) /\ Len(rs) \in Nat
  OBVIOUS
<1>2. ASSUME NEW i \in DOMAIN rs
      PROVE /\ Cancelled(rs, ids)[i] \in PageRequests
            /\ Cancelled(rs, ids)[i].op = rs[i].op /\ Cancelled(rs, ids)[i].group = rs[i].group
  BY <1>1, ZenonT(60) DEF Cancelled, PageRequests
<1>3. Cancelled(rs, ids) \in [1 .. Len(rs) -> PageRequests]
  BY <1>2 DEF Cancelled
<1>4. Cancelled(rs, ids) \in Seq(PageRequests) /\ Len(Cancelled(rs, ids)) = Len(rs)
  BY <1>1, <1>3
<1> QED BY <1>2, <1>3, <1>4

(* The requests stay what they are, and refs are kept or dropped.          *)
LEMMA PageKeeps ==
    ASSUME PageIInv, requests' \in Seq(PageRequests), DOMAIN requests' = DOMAIN requests,
           Len(requests') = Len(requests),
           \A i \in DOMAIN requests : /\ requests'[i].op = requests[i].op
                                      /\ requests'[i].group = requests[i].group,
           refs' \in [Families -> Nat], \A f \in Families : refs'[f] \in {0, refs[f]},
           busy' = "clear" => \/ busy = "clear" /\ clearFrom' = clearFrom
                              \/ \A f \in Families : refs'[f] = 0,
           groups' \subseteq PageGroups, selected' \subseteq PageGroups,
           clearFrom' \in 0 .. Len(requests), UNCHANGED <<status, generated, basicEntry, forgotten>>
    PROVE PageIInv'
<1>1. \A f \in Families : \A r : Latest(f, r, requests) => Latest(f, r, requests')
  BY ZenonT(60) DEF Latest
<1>2. ASSUME NEW f \in Families
      PROVE RefGood(f, refs'[f], requests', forgotten, busy', clearFrom')
  BY <1>1, ZenonT(60) DEF PageIInv, RefGood
<1>3. ASSUME NEW f \in Families PROVE StatusGood(f, status[f].of, requests', forgotten)
  BY <1>1, ZenonT(60) DEF PageIInv, StatusGood
<1>4. \A e : EntryGood(e, requests, forgotten) => EntryGood(e, requests', forgotten)
  BY ZenonT(60) DEF EntryGood
<1>5. PageTypes'
  BY ZenonT(60) DEF PageIInv, PageTypes
<1> QED BY <1>2, <1>3, <1>4, <1>5, Zenon DEF PageIInv

(* A handler issues the request that is its family's latest from now on.   *)
LEMMA BeginGood ==
    ASSUME PageIInv, NEW op \in Operations, NEW group \in SUBSET PageGroups, Begin(op, group)
    PROVE PageIInv'
<1> DEFINE fam == FamilyOf[op]
           r == Len(requests) + 1
           rs == Cancelled(requests, {refs[fam]})
           new == [op |-> op, group |-> group, cancelled |-> FALSE, open |-> TRUE]
<1>1. /\ requests' = Append(rs, new) /\ refs' = [refs EXCEPT ![fam] = r]
      /\ status' = [status EXCEPT ![fam] = [kind |-> "loading", of |-> r]]
      /\ UNCHANGED <<busy, groups, selected, generated, basicEntry, clearFrom, forgotten>>
  BY Zenon DEF Begin
<1>2. /\ requests \in Seq(PageRequests) /\ refs \in [Families -> Nat] /\ DOMAIN status = Families
      /\ forgotten \in 0 .. Len(requests) /\ clearFrom \in 0 .. Len(requests)
      /\ Len(requests) \in Nat /\ DOMAIN requests = 1 .. Len(requests) /\ PageTypes
  BY SMTT(30) DEF PageIInv, PageTypes
<1>3. /\ rs \in Seq(PageRequests) /\ DOMAIN rs = DOMAIN requests /\ Len(rs) = Len(requests)
      /\ \A i \in DOMAIN requests : rs[i].op = requests[i].op /\ rs[i].group = requests[i].group
  BY Zenon, <1>2, CancelKeeps
<1>4. fam \in Families /\ new \in PageRequests /\ new.op = op
  BY SMTT(30) DEF FamilyOf, Operations, Families, PageRequests
<1> HIDE DEF rs, new, fam
<1>5. /\ requests' \in Seq(PageRequests) /\ Len(requests') = r /\ DOMAIN requests' = 1 .. r
      /\ requests'[r] = new /\ \A i \in DOMAIN requests : requests'[i] = rs[i]
  BY <1>1, <1>2, <1>3, <1>4, SMTT(30)
<1>6. ASSUME NEW i \in DOMAIN requests' PROVE i \in DOMAIN requests \/ i = r
  BY <1>2, <1>5, SMTT(30)
<1>7. /\ refs' \in [Families -> Nat] /\ DOMAIN status' = Families
      /\ \A f \in Families : /\ refs'[f] = IF f = fam THEN r ELSE refs[f]
                             /\ status'[f].of = IF f = fam THEN r ELSE status[f].of
  BY <1>1, <1>2, <1>4, SMTT(30)
<1>8. Latest(fam, r, requests')
  BY <1>2, <1>5, SMTT(30) DEF Latest
<1>9. ASSUME NEW f \in Families, f # fam, NEW x, Latest(f, x, requests) PROVE Latest(f, x, requests')
  <2>1. ASSUME NEW i \in DOMAIN requests', FamilyOf[requests'[i].op] = f PROVE i <= x
    <3>1. i # r
      BY Zenon, <1>4, <1>5, <1>9, <2>1 DEF fam
    <3>2. i \in DOMAIN requests /\ requests'[i].op = requests[i].op
      BY Zenon, <1>3, <1>5, <1>6, <3>1
    <3> QED BY Zenon, <1>9, <2>1, <3>2 DEF Latest
  <2> QED BY Zenon, <2>1 DEF Latest
<1>10. ASSUME NEW f \in Families
       PROVE /\ RefGood(f, refs'[f], requests', forgotten, busy, clearFrom)
             /\ StatusGood(f, status'[f].of, requests', forgotten)
  <2>1. CASE f = fam
    BY <1>2, <1>5, <1>7, <1>8, <2>1, SMTT(30) DEF RefGood, StatusGood
  <2>2. CASE f # fam
    BY <1>2, <1>5, <1>7, <1>9, <2>2, SMTT(30) DEF PageIInv, RefGood, StatusGood
  <2> QED BY Zenon, <2>1, <2>2
<1>11. ASSUME NEW e, EntryGood(e, requests, forgotten) PROVE EntryGood(e, requests', forgotten)
  BY <1>2, <1>3, <1>5, <1>11, SMTT(30) DEF EntryGood
<1>12. PageTypes'
  BY <1>1, <1>2, <1>5, <1>7 DEF PageTypes
<1> QED BY <1>1, <1>10, <1>11, <1>12, Zenon DEF PageIInv

(* An answer is taken only by the family that still waits for it.          *)
LEMMA SettlesGood ==
    ASSUME PageIInv, NEW r \in DOMAIN requests, RequestSettles(r)
    PROVE PageIInv'
<1> DEFINE fam == FamilyOf[requests[r].op]
           entry == [by |-> r, group |-> requests[r].group]
<1>1. /\ requests \in Seq(PageRequests) /\ refs \in [Families -> Nat] /\ DOMAIN status = Families
      /\ forgotten \in 0 .. Len(requests) /\ clearFrom \in 0 .. Len(requests)
      /\ requests[r] \in PageRequests /\ r \in Nat \ {0} /\ PageTypes
  BY SMTT(30) DEF PageIInv, PageTypes
<1>2. /\ requests' = [requests EXCEPT ![r].open = FALSE]
      /\ UNCHANGED <<busy, groups, selected, clearFrom, forgotten>>
  BY Zenon DEF RequestSettles
<1>3. /\ requests' \in Seq(PageRequests) /\ DOMAIN requests' = DOMAIN requests
      /\ Len(requests') = Len(requests)
      /\ \A i \in DOMAIN requests : requests'[i].op = requests[i].op /\ requests'[i].group = requests[i].group
  <2> DEFINE q == [requests[r] EXCEPT !.open = FALSE]
  <2>1. q \in PageRequests /\ q.op = requests[r].op /\ q.group = requests[r].group
    BY <1>1, Zenon DEF PageRequests
  <2>2. requests' = [requests EXCEPT ![r] = q]
    BY Zenon, <1>2
  <2> HIDE DEF q
  <2> QED BY <1>1, <2>1, <2>2
<1>4. CASE ~StillCurrent(r)
  <2>1. UNCHANGED <<status, refs, generated, basicEntry>>
    BY Zenon, <1>4 DEF RequestSettles
  <2> QED BY <1>1, <1>2, <1>3, <2>1, PageKeeps, Zenon DEF PageTypes
<1>5. CASE StillCurrent(r)
  <2>1. PICK kind \in OutcomesOf(r) :
          /\ status' = [status EXCEPT ![fam] = [kind |-> kind, of |-> r]]
          /\ refs' = [refs EXCEPT ![fam] = IF @ = r THEN 0 ELSE @]
          /\ generated' = IF kind = "created" /\ fam = "token_entry" THEN entry ELSE generated
          /\ basicEntry' = IF kind = "created" /\ fam = "basic_entry" THEN entry ELSE basicEntry
    BY <1>5, Zenon DEF RequestSettles
  <2>2. fam \in Families
    BY <1>1, SMTT(30) DEF PageRequests, Operations, FamilyOf, Families
  <2>3. refs[fam] = r
    BY Zenon, <1>5 DEF StillCurrent
  <2>4. entry.by = r /\ entry.group = requests[r].group /\ requests[r].group \subseteq PageGroups
    BY Zenon, <1>1 DEF PageRequests
  <2> HIDE DEF fam, entry
  <2>5. /\ refs' \in [Families -> Nat] /\ \A f \in Families : refs'[f] \in {0, refs[f]}
    BY Zenon, <1>1, <2>1, <2>2
  <2>6. /\ DOMAIN status' = Families
        /\ \A f \in Families : status'[f].of = IF f = fam THEN r ELSE status[f].of
    BY Zenon, <1>1, <2>1, <2>2
  <2>7. r > forgotten /\ Latest(fam, r, requests)
    BY Zenon, <1>1, <2>2, <2>3 DEF PageIInv, RefGood
  <2>8. \A f \in Families : \A x : Latest(f, x, requests) => Latest(f, x, requests')
    BY <1>3, ZenonT(60) DEF Latest
  <2>9. ASSUME NEW f \in Families
        PROVE /\ RefGood(f, refs'[f], requests', forgotten, busy, clearFrom)
              /\ StatusGood(f, status'[f].of, requests', forgotten)
    BY <1>3, <2>2, <2>5, <2>6, <2>7, <2>8, ZenonT(60) DEF PageIInv, RefGood, StatusGood
  <2>10. \A e : EntryGood(e, requests, forgotten) => EntryGood(e, requests', forgotten)
    BY <1>3, ZenonT(60) DEF EntryGood
  <2>11. EntryGood(entry, requests', forgotten)
    BY Zenon, <1>3, <2>4, <2>7 DEF EntryGood
  <2>12. EntryGood(generated', requests', forgotten) /\ EntryGood(basicEntry', requests', forgotten)
    BY Zenon, <2>1, <2>10, <2>11 DEF PageIInv
  <2>13. PageTypes'
    BY <1>1, <1>2, <1>3, <2>1, <2>4, <2>5, <2>6, Zenon DEF PageTypes
  <2> QED BY <1>2, <2>9, <2>12, <2>13, Zenon DEF PageIInv
<1> QED BY Zenon, <1>4, <1>5

(* One step of the page.                                                   *)
LEMMA PageStep ==
    ASSUME PageIInv, [PlaygroundNext]_pageVars
    PROVE PageIInv'
<1>1. /\ requests \in Seq(PageRequests) /\ refs \in [Families -> Nat]
      /\ selected \subseteq PageGroups /\ groups \subseteq PageGroups /\ PageTypes
      /\ forgotten \in 0 .. Len(requests) /\ clearFrom \in 0 .. Len(requests)
      /\ generated.group \subseteq PageGroups /\ basicEntry.group \subseteq PageGroups
      /\ Len(requests) \in Nat
  BY SMTT(30) DEF PageIInv, PageTypes
<1>2. NoRefs \in [Families -> Nat] /\ \A f \in Families : NoRefs[f] = 0
  BY Zenon DEF NoRefs
<1>3. Detached \in [Families -> Nat] /\ \A f \in Families : Detached[f] \in {0, refs[f]}
  BY Zenon, <1>1 DEF Detached
<1>4. ASSUME UNCHANGED <<requests, status, generated, basicEntry, forgotten, clearFrom, busy>>,
             refs' \in {refs, Detached}, groups' \subseteq PageGroups, selected' \subseteq PageGroups
      PROVE PageIInv'
  BY Zenon, <1>1, <1>3, <1>4, PageKeeps
<1>5. CASE handleCreateTokenEntry \/ handleCreateBasicEntry \/ handleProbeDashboardBearer
  BY Zenon, <1>1, <1>5, BeginGood DEF handleCreateTokenEntry, handleCreateBasicEntry,
     handleProbeDashboardBearer, Operations
<1>6. CASE handleProbeGeneratedEntryToken \/ handleProbeGeneratedBasicEntry
  BY Zenon, <1>1, <1>6, BeginGood DEF handleProbeGeneratedEntryToken, handleProbeGeneratedBasicEntry, Operations
<1>7. CASE handleProbePropagationRoute
  BY Zenon, <1>7, BeginGood DEF handleProbePropagationRoute, Operations
<1>8. ASSUME NEW f \in Families, CancelRequest(f) PROVE PageIInv'
  <2>1. /\ requests' = Cancelled(requests, {refs[f]})
        /\ UNCHANGED <<refs, status, generated, basicEntry, forgotten, clearFrom, busy, groups, selected>>
    BY <1>8, Zenon DEF CancelRequest
  <2> QED BY Zenon, <1>1, <2>1, CancelKeeps, PageKeeps
<1>9. ASSUME NEW r \in DOMAIN requests, RequestSettles(r) PROVE PageIInv'
  BY Zenon, <1>9, SettlesGood
<1>10. CASE RestoreSettles \/ SnapshotChanges \/ handleCreateGroup
  BY <1>1, <1>4, <1>10, Zenon DEF RestoreSettles, SnapshotChanges, handleCreateGroup
<1>11. CASE handleRefresh \/ RefreshReturns
  <2>1. busy' # "clear" /\ UNCHANGED <<requests, status, generated, basicEntry, forgotten, clearFrom, refs, groups, selected>>
    BY Zenon, <1>11 DEF handleRefresh, RefreshReturns
  <2> QED BY <1>1, <2>1, PageKeeps, Zenon
<1>12. CASE handleClear
  <2>1. /\ requests' = Cancelled(requests, {refs[f] : f \in Families}) /\ refs' = NoRefs
        /\ clearFrom' = Len(requests)
        /\ UNCHANGED <<status, generated, basicEntry, forgotten, groups, selected>>
    BY <1>12, Zenon DEF handleClear
  <2> QED BY <1>1, <1>2, <2>1, CancelKeeps, PageKeeps, SMTT(30)
<1>13. CASE ClearReturns
  <2>1. /\ busy = "clear" /\ busy' = "none" /\ clearFrom' = 0 /\ UNCHANGED requests
        /\ \/ /\ refs' \in {refs, Detached} /\ groups' = {} /\ selected' = {}
              /\ status' = IdleStatus /\ generated' = NoEntry /\ basicEntry' = NoEntry
              /\ forgotten' = clearFrom
           \/ UNCHANGED <<refs, groups, selected, status, generated, basicEntry, forgotten>>
    BY Zenon, <1>13 DEF ClearReturns
  <2>2. CASE UNCHANGED <<refs, groups, selected, status, generated, basicEntry, forgotten>>
    BY <1>1, <2>1, <2>2, PageKeeps, SMTT(30)
  <2>3. CASE /\ refs' \in {refs, Detached} /\ groups' = {} /\ selected' = {}
             /\ status' = IdleStatus /\ generated' = NoEntry /\ basicEntry' = NoEntry
             /\ forgotten' = clearFrom
    <3>1. DOMAIN status' = Families /\ \A f \in Families : status'[f].of = 0
      BY Zenon, <2>3 DEF IdleStatus
    <3>2. PageTypes'
      BY <1>1, <1>3, <2>1, <2>3, <3>1, SMTT(30) DEF PageTypes, NoEntry
    <3>3. ASSUME NEW f \in Families PROVE RefGood(f, refs'[f], requests', forgotten', busy', clearFrom')
      BY <1>3, <2>1, <2>3, Zenon DEF PageIInv, RefGood
    <3> QED BY <2>3, <3>1, <3>2, <3>3, Zenon DEF PageIInv, StatusGood, EntryGood
  <2> QED BY Zenon, <2>1, <2>2, <2>3
<1>14. CASE GroupsAnswer \/ SelectGroup
  <2>1. groups' \subseteq PageGroups /\ selected' \subseteq PageGroups
    BY Zenon, <1>1, <1>14 DEF GroupsAnswer, SelectGroup, Reselected
  <2> QED BY Zenon, <1>4, <1>14, <2>1 DEF GroupsAnswer, SelectGroup
<1>15. CASE CreateGroupReturns
  <2>1. groups' \subseteq PageGroups /\ selected' \subseteq PageGroups
    BY Zenon, <1>1, <1>15 DEF CreateGroupReturns, Reselected
  <2> QED BY Zenon, <1>4, <1>15, <2>1 DEF CreateGroupReturns
<1>16. CASE UNCHANGED pageVars
  BY Zenon, <1>1, <1>4, <1>16 DEF pageVars
<1> QED BY <1>5, <1>6, <1>7, <1>8, <1>9, <1>10, <1>11, <1>12, <1>13, <1>14, <1>15, <1>16, Zenon DEF PlaygroundNext

(* Late answers are dropped: what is shown of a family is about its latest *)
(* request, nothing of a forgotten request is shown, and a credential is   *)
(* kept with the group of its request, for any number of requests.         *)
THEOREM LateAnswersDropped == PlaygroundSpec => []LateAnswersAreDropped
<1>1. PlaygroundInit => PageIInv
  BY SMTT(30) DEF PlaygroundInit, PageIInv, PageTypes, NoRefs, IdleStatus, NoEntry, RefGood, StatusGood, EntryGood
<1>2. PageIInv /\ [PlaygroundNext]_pageVars => PageIInv'
  BY Zenon, PageStep
<1>3. PageIInv => LateAnswersAreDropped
  BY Zenon DEF PageIInv, LateAnswersAreDropped, StatusGood, EntryGood, Latest
<1> QED BY <1>1, <1>2, <1>3, PTL DEF PlaygroundSpec

-----------------------------------------------------------------------------
(* The dashboard's queries *)

(* The server's write of `op` may change what query n asks for.            *)
Touches(op, n) == ItemOf(n) = Target(op) \/ Target(op) = "group"

(* A statement of an onSuccess handler that makes query n stale or drops   *)
(* it.                                                                     *)
Reaches(step, n) ==
  IF step.do = "invalidate" THEN n \in UNION {Covered(k) : k \in step.keys}
  ELSE n \in step.keys

(* The news of a write that query n has to hear of: its answer is on the   *)
(* way, or its handler has not come to n yet.                              *)
News(b, n) == b.for = "write" /\ b.says = 200 /\ Touches(writes[b.who].op, n)

Handled(n) ==
  \E w \in Writes : /\ writes[w].at = "settling"
                    /\ \E i \in DOMAIN writes[w].todo : Reaches(writes[w].todo[i], n)

Expected(n) == (\E b \in answers : News(b, n)) \/ Handled(n)

QueryNames == {"groups", "group", "entries", "entry"}
AnswerIds == {"query", "write"} \X (Names \cup Writes)
AnswerRecords == [for : {"query", "write"}, who : Names \cup Writes, says : Nat, after : SUBSET AnswerIds]
QueryRecords == [data : SUBSET Nat, stale : BOOLEAN, fetch : {"none", "sent", "served"}]
StepRecords == [do : {"invalidate", "remove"}, keys : SUBSET QueryNames]
WriteRecords == [op : WriteOps \cup {"none"}, at : {"idle", "sent", "served", "settling"},
                 todo : Seq(StepRecords), waits : SUBSET Names]

DashboardTypes ==
  /\ serverItems \in [Items -> Nat] /\ version \in Nat
  /\ queries \in [Names -> QueryRecords]
  /\ writes \in [Writes -> WriteRecords]
  /\ answers \subseteq AnswerRecords

(* An answer on its way is awaited by its query or its mutation, and is    *)
(* the only one.                                                           *)
AnswerAwaited ==
  /\ \A w \in Writes : writes[w].at \in {"sent", "served"} => writes[w].op \in WriteOps
  /\ \A a \in answers :
       /\ a.for = "query" => a.who \in Names /\ queries[a.who].fetch = "served"
       /\ a.for = "write" => a.who \in Writes /\ writes[a.who].at = "served"
       /\ \A b \in answers : Id(a) = Id(b) => a = b

(* The news of what a query holds, or will hold once its answer arrives,   *)
(* comes after it.                                                         *)
NewsFollows ==
  unreported = {} =>
    \A n \in LookedAfter :
      /\ Outdated(n) => Expected(n)
      /\ \A a \in answers :
           a.for = "query" /\ a.who = n /\ a.says # serverItems[ItemOf(n)] =>
             \E b \in answers : News(b, n) /\ Id(a) \in b.after

DashboardIInv == DashboardTypes /\ AnswerAwaited /\ NewsFollows

(* Every write's handler comes to every query that the write touches.      *)
LEMMA HandlersReach ==
  ASSUME NEW op \in WriteOps
  PROVE  /\ OnSuccess(op) \in Seq(StepRecords)
         /\ \A n \in LookedAfter : Touches(op, n) => \E i \in DOMAIN OnSuccess(op) : Reaches(OnSuccess(op)[i], n)
<1> DEFINE T == isTokenSetAuthContextMode(dashboardMode)
           G == Target(op) = "group"
<1>1. Names \subseteq QueryNames
  BY Zenon, DashboardAssumption DEF QueryNames
<1>2. ASSUME NEW keys \in SUBSET QueryNames
      PROVE Invalidate(keys) \in StepRecords /\ Discard(keys) \in StepRecords
            /\ \A n : Reaches(Invalidate(keys), n) <=> n \in UNION {Covered(k) : k \in keys}
  BY Zenon DEF Invalidate, Discard, StepRecords, Reaches
<1>3. {"groups"} \in SUBSET QueryNames /\ {"entries"} \in SUBSET QueryNames /\ {"group"} \in SUBSET QueryNames
      /\ {"entry"} \in SUBSET QueryNames /\ {"groups", "entries"} \in SUBSET QueryNames
      /\ {"groups", "entries"} \cup {"group"} \in SUBSET QueryNames
  BY Zenon DEF QueryNames
<1>4. ASSUME T, NEW n \in Names
      PROVE /\ ItemOf(n) = "group" => n \in Covered("groups")
            /\ ItemOf(n) # "group" => n \in Covered("entries")
  BY Zenon, <1>1, <1>4 DEF Covered, tokenSetQueryKeys, ItemOf, QueryNames
<1>5. CASE T /\ G
  <2> DEFINE s1 == Invalidate({"groups"})
             s2 == Invalidate({"entries"})
             tail == CASE op = "createGroup" -> <<>>
                       [] op = "updateGroup" -> <<Invalidate({"group"})>>
                       [] op = "deleteGroup" -> <<Discard({"group"})>>
  <2>1. OnSuccess(op) = <<s1, s2>> \o tail
    BY Zenon, <1>5 DEF OnSuccess, TokenSetOnSuccess, TokenSetGroupOnSuccess
  <2>2. op \in {"createGroup", "updateGroup", "deleteGroup"}
    BY Zenon, <1>5 DEF Target
  <2>3. s1 \in StepRecords /\ s2 \in StepRecords
        /\ Invalidate({"group"}) \in StepRecords /\ Discard({"group"}) \in StepRecords
    BY <1>2, <1>3, Zenon
  <2>4. tail \in Seq(StepRecords)
    <3> HIDE DEF s1, s2
    <3> QED
      BY <2>2, <2>3
  <2>5. \A n \in Names : Reaches(s1, n) \/ Reaches(s2, n)
    BY Zenon, <1>2, <1>3, <1>4, <1>5
  <2>6. LookedAfter \subseteq Names
    BY Zenon, <1>5 DEF LookedAfter
  <2> HIDE DEF s1, s2, tail
  <2>7. /\ OnSuccess(op) \in Seq(StepRecords)
        /\ 1 \in DOMAIN OnSuccess(op) /\ 2 \in DOMAIN OnSuccess(op)
        /\ OnSuccess(op)[1] = s1 /\ OnSuccess(op)[2] = s2
    BY <2>1, <2>3, <2>4
  <2> QED
    BY <2>5, <2>6, <2>7, Zenon
<1>6. CASE T /\ ~G
  <2> DEFINE s1 == Invalidate({"entries"})
             tail == CASE op = "createEntry" -> <<>>
                       [] op = "updateEntry" -> <<Invalidate({"entry"})>>
                       [] op = "deleteEntry" -> <<Discard({"entry"})>>
  <2>1. OnSuccess(op) = <<s1>> \o tail
    BY Zenon, <1>6 DEF OnSuccess, TokenSetOnSuccess, TokenSetEntryOnSuccess
  <2>2. op \in {"createEntry", "updateEntry", "deleteEntry"}
    BY Zenon, <1>6 DEF Target, WriteOps
  <2>3. s1 \in StepRecords /\ Invalidate({"entry"}) \in StepRecords /\ Discard({"entry"}) \in StepRecords
    BY <1>2, <1>3, Zenon
  <2>4. tail \in Seq(StepRecords)
    <3> HIDE DEF s1
    <3> QED
      BY <2>2, <2>3
  <2>5. \A n \in Names : Touches(op, n) => Reaches(s1, n)
    <3>1. \A n \in Names : Touches(op, n) => ItemOf(n) # "group"
      BY Zenon, <1>6 DEF Touches
    <3> QED
      BY Zenon, <1>2, <1>3, <1>4, <1>6, <3>1
  <2>6. LookedAfter \subseteq Names
    BY Zenon, <1>6 DEF LookedAfter
  <2> HIDE DEF s1, tail
  <2>7. OnSuccess(op) \in Seq(StepRecords) /\ 1 \in DOMAIN OnSuccess(op) /\ OnSuccess(op)[1] = s1
    BY <2>1, <2>3, <2>4
  <2> QED
    BY <2>5, <2>6, <2>7, Zenon
<1>7. CASE ~T
  <2> DEFINE keys == IF G THEN {"groups", "entries"} \cup IF op = "updateGroup" THEN {"group"} ELSE {}
                     ELSE {"entries"}
             s1 == Invalidate(keys)
  <2>1. OnSuccess(op) = <<s1>>
    BY Zenon, <1>7 DEF OnSuccess, SessionGroupOnSuccess, SessionEntryOnSuccess
  <2>2. keys \in SUBSET QueryNames /\ "entries" \in keys /\ (G => "groups" \in keys)
    BY Zenon, <1>3
  <2>3. \A n \in LookedAfter : n \in Covered(n) /\ n \in {"groups", "entries"}
    BY Zenon, <1>7 DEF LookedAfter, Lists, Covered
  <2>4. \A n \in LookedAfter : Touches(op, n) => n \in keys
    BY Zenon, <2>2, <2>3 DEF Touches, ItemOf
  <2>5. s1 \in StepRecords /\ \A n : Reaches(s1, n) <=> n \in UNION {Covered(k) : k \in keys}
    BY <1>2, <2>2, Zenon
  <2> HIDE DEF s1, keys
  <2>6. \A n \in LookedAfter : Touches(op, n) => Reaches(s1, n)
    BY Zenon, <2>3, <2>4, <2>5
  <2>7. OnSuccess(op) \in Seq(StepRecords) /\ 1 \in DOMAIN OnSuccess(op) /\ OnSuccess(op)[1] = s1
    BY <2>1, <2>5
  <2> QED
    BY <2>6, <2>7, Zenon
<1> QED
  BY <1>5, <1>6, <1>7, Zenon

(* Removing answers leaves the others in their order.                      *)
LEMMA OthersRemain ==
  ASSUME DashboardTypes, NEW gone, answers' = Without(gone)
  PROVE  /\ answers' \subseteq AnswerRecords
         /\ \A a \in answers' : Id(a) \notin gone /\
              \E b \in answers : /\ a.for = b.for /\ a.who = b.who /\ a.says = b.says /\ Id(a) = Id(b)
         /\ \A b \in answers : Id(b) \notin gone =>
              \E a \in answers' : /\ a.for = b.for /\ a.who = b.who /\ a.says = b.says
                                  /\ a.after = b.after \ gone
         /\ (\A a, b \in answers : Id(a) = Id(b) => a = b) => \A a, b \in answers' : Id(a) = Id(b) => a = b
<1> DEFINE Less(b) == [b EXCEPT !.after = @ \ gone]
<1>1. answers \subseteq AnswerRecords
  BY Zenon DEF DashboardTypes
<1>2. \A b \in AnswerRecords : /\ Less(b) \in AnswerRecords
                               /\ Less(b).for = b.for /\ Less(b).who = b.who /\ Less(b).says = b.says
                               /\ Less(b).after = b.after \ gone
  BY Zenon DEF AnswerRecords
<1>3. \A a : a \in answers' <=> \E b \in answers : Id(b) \notin gone /\ a = Less(b)
  BY Zenon DEF Without
<1> HIDE DEF Less
<1>4. \A b \in answers : Id(Less(b)) = Id(b)
  BY Zenon, <1>1, <1>2 DEF Id
<1>5. answers' \subseteq AnswerRecords
  BY <1>1, <1>2, <1>3
<1>6. ASSUME NEW a \in answers'
      PROVE Id(a) \notin gone /\
            \E b \in answers : /\ a.for = b.for /\ a.who = b.who /\ a.says = b.says /\ Id(a) = Id(b)
  <2>1. PICK b \in answers : Id(b) \notin gone /\ a = Less(b)
    BY <1>3, Zenon
  <2> QED
    BY Zenon, <1>1, <1>2, <1>4, <2>1
<1>7. ASSUME NEW b \in answers, Id(b) \notin gone
      PROVE \E a \in answers' : /\ a.for = b.for /\ a.who = b.who /\ a.says = b.says
                                /\ a.after = b.after \ gone
  <2>1. Less(b) \in answers'
    BY <1>3, <1>7, Zenon
  <2> QED
    BY Zenon, <1>1, <1>2, <2>1
<1>8. ASSUME \A a, b \in answers : Id(a) = Id(b) => a = b, NEW a \in answers', NEW b \in answers', Id(a) = Id(b)
      PROVE a = b
  <2>1. PICK a0 \in answers : a = Less(a0)
    BY <1>3, Zenon
  <2>2. PICK b0 \in answers : b = Less(b0)
    BY <1>3, Zenon
  <2>3. a0 = b0
    BY <1>4, <1>8, <2>1, <2>2, Zenon
  <2> QED
    BY <2>1, <2>2, <2>3, Zenon
<1> QED
  BY <1>5, <1>6, <1>7, <1>8, Zenon

(* A step that only takes answers away, where whoever awaited them knows,  *)
(* keeps the invariant if its queries and handlers account for the news    *)
(* that leave.                                                             *)
LEMMA AnswersLeave ==
  ASSUME DashboardIInv, NEW gone, answers' = Without(gone),
         UNCHANGED <<dashboardMode, serverItems, version>>,
         queries' \in [Names -> QueryRecords], writes' \in [Writes -> WriteRecords],
         \A w \in Writes : writes'[w].at \in {"sent", "served"} => writes'[w].op \in WriteOps,
         \A w \in Writes : writes[w].at = "served" /\ <<"write", w>> \notin gone =>
            writes'[w].at = "served" /\ writes'[w].op = writes[w].op,
         \A n \in Names : queries[n].fetch = "served" /\ <<"query", n>> \notin gone =>
            queries'[n].fetch = "served",
         unreported' = {} =>
            /\ unreported = {}
            /\ \A n \in LookedAfter :
                 /\ \A b \in answers : News(b, n) /\ Id(b) \in gone => b.after = {} /\ Handled(n)'
                 /\ Outdated(n)' => (\E b \in answers : News(b, n)) \/ Handled(n)'
  PROVE  DashboardIInv'
<1>0. DashboardTypes /\ AnswerAwaited /\ NewsFollows
  BY Zenon DEF DashboardIInv
<1>1. answers \subseteq AnswerRecords
  BY <1>0, Zenon DEF DashboardTypes
<1>2. \A a \in AnswerRecords : a.for \in {"query", "write"} /\ Id(a) = <<a.for, a.who>>
  BY Zenon DEF Id, AnswerRecords
<1>3. /\ answers' \subseteq AnswerRecords
      /\ \A a \in answers' : Id(a) \notin gone /\
           \E b \in answers : /\ a.for = b.for /\ a.who = b.who /\ a.says = b.says /\ Id(a) = Id(b)
      /\ \A b \in answers : Id(b) \notin gone =>
           \E a \in answers' : /\ a.for = b.for /\ a.who = b.who /\ a.says = b.says
                               /\ a.after = b.after \ gone
      /\ (\A a, b \in answers : Id(a) = Id(b) => a = b) => \A a, b \in answers' : Id(a) = Id(b) => a = b
  BY <1>0, OthersRemain, Zenon
<1>5. dashboardMode' = dashboardMode /\ serverItems' = serverItems /\ version' = version
  BY Zenon
<1>6. DashboardTypes'
  BY <1>0, <1>3, <1>5, Zenon DEF DashboardTypes
<1>7. AnswerAwaited'
  <2>1. ASSUME NEW a \in answers', a.for = "query" PROVE a.who \in Names /\ queries'[a.who].fetch = "served"
    <3>1. PICK b \in answers : a.for = b.for /\ a.who = b.who /\ Id(a) = Id(b)
      BY <1>3, Zenon
    <3>2. a.who \in Names /\ queries[a.who].fetch = "served"
      BY <1>0, <2>1, <3>1, Zenon DEF AnswerAwaited
    <3>3. <<"query", a.who>> \notin gone
      <4>1. Id(a) = <<"query", a.who>>
        BY <2>1, Zenon DEF Id
      <4>2. Id(a) \notin gone
        BY <1>3, Zenon
      <4> QED
        BY Zenon, <4>1, <4>2
    <3> QED
      BY <3>2, <3>3, Zenon
  <2>2. ASSUME NEW a \in answers', a.for = "write" PROVE a.who \in Writes /\ writes'[a.who].at = "served"
    <3>1. PICK b \in answers : a.for = b.for /\ a.who = b.who /\ Id(a) = Id(b)
      BY <1>3, Zenon
    <3>2. a.who \in Writes /\ writes[a.who].at = "served"
      BY <1>0, <2>2, <3>1, Zenon DEF AnswerAwaited
    <3>3. <<"write", a.who>> \notin gone
      <4>1. Id(a) = <<"write", a.who>>
        BY <2>2, Zenon DEF Id
      <4>2. Id(a) \notin gone
        BY <1>3, Zenon
      <4> QED
        BY Zenon, <4>1, <4>2
    <3> QED
      BY <3>2, <3>3, Zenon
  <2>3. \A a, b \in answers' : Id(a) = Id(b) => a = b
    BY <1>0, <1>3, Zenon DEF AnswerAwaited
  <2>4. \A a \in answers' : Id(a)' = Id(a)
    BY Zenon DEF Id
  <2> QED
    BY <2>1, <2>2, <2>3, <2>4, Zenon DEF AnswerAwaited, Id
<1>8. ASSUME NEW n, NEW b \in answers, News(b, n), Id(b) \notin gone
      PROVE \E c \in answers' : News(c, n)' /\ c.after = b.after \ gone
  <2>1. b.for = "write" /\ b.who \in Writes /\ writes[b.who].at = "served"
    BY <1>0, <1>8, Zenon DEF News, AnswerAwaited
  <2>2. PICK c \in answers' : c.for = b.for /\ c.who = b.who /\ c.says = b.says /\ c.after = b.after \ gone
    BY <1>3, <1>8, Zenon
  <2>3. <<"write", b.who>> \notin gone
    BY <1>1, <1>2, <1>8, <2>1, Zenon
  <2>4. writes'[b.who].op = writes[b.who].op
    BY <2>1, <2>3, Zenon
  <2>5. News(c, n)'
    BY <1>8, <2>2, <2>4, Zenon DEF News, Touches
  <2> QED
    BY <2>2, <2>5, Zenon
<1>9. LookedAfter' = LookedAfter
  BY <1>5, Zenon DEF LookedAfter
<1>10. ASSUME unreported' = {}, NEW n \in LookedAfter, Outdated(n)' PROVE Expected(n)'
  BY <1>8, <1>10, Zenon DEF Expected
<1>11. ASSUME unreported' = {}, NEW n \in LookedAfter, NEW a \in answers',
              a.for = "query", a.who = n, a.says # serverItems'[ItemOf(n)]
       PROVE \E b \in answers' : News(b, n)' /\ Id(a) \in b.after
  <2>1. PICK a0 \in answers : a.for = a0.for /\ a.who = a0.who /\ a.says = a0.says /\ Id(a) = Id(a0)
    BY <1>3, Zenon
  <2>2. PICK b \in answers : News(b, n) /\ Id(a0) \in b.after
    BY <1>0, <1>5, <1>11, <2>1, Zenon DEF NewsFollows
  <2>3. b.after # {}
    BY Zenon, <2>2
  <2>4. Id(b) \notin gone
    BY <1>11, <2>2, <2>3, Zenon
  <2>5. PICK c \in answers' : News(c, n)' /\ c.after = b.after \ gone
    BY <1>8, <2>2, <2>4, Zenon
  <2>6. Id(a) \in c.after
    BY Zenon, <1>3, <2>1, <2>2, <2>5
  <2> QED
    BY <2>5, <2>6, Zenon
<1>12. NewsFollows'
  BY <1>9, <1>10, <1>11, Zenon DEF NewsFollows, Id
<1> QED
  BY <1>6, <1>7, <1>12, Zenon DEF DashboardIInv

(* A page's step: it changes the cache but not the writes, and no query    *)
(* becomes outdated.                                                       *)
LEMMA CacheStep ==
  ASSUME DashboardIInv, NEW dropped \in SUBSET Names, answers' = Kept(dropped),
         UNCHANGED <<dashboardMode, serverItems, version, writes, unreported>>,
         queries' \in [Names -> QueryRecords],
         \A n \in Names : /\ queries[n].fetch = "served" /\ n \notin dropped => queries'[n].fetch = "served"
                          /\ Outdated(n)' => Outdated(n)
  PROVE  DashboardIInv'
<1> DEFINE gone == {"query"} \X dropped
<1>0. DashboardTypes /\ AnswerAwaited /\ NewsFollows
  BY Zenon DEF DashboardIInv
<1>1. answers' = Without(gone)
  BY Zenon DEF Kept
<1>2. /\ \A w : <<"write", w>> \notin gone
      /\ \A n : <<"query", n>> \in gone <=> n \in dropped
      /\ \A b \in AnswerRecords : Id(b) \in gone => b.for = "query"
  BY Zenon DEF Id, AnswerRecords
<1> HIDE DEF gone
<1>3. writes' = writes /\ unreported' = unreported /\ dashboardMode' = dashboardMode
  BY Zenon
<1>4. writes' \in [Writes -> WriteRecords] /\ answers \subseteq AnswerRecords
  BY <1>0, <1>3, Zenon DEF DashboardTypes
<1>5. /\ \A w \in Writes : writes'[w].at \in {"sent", "served"} => writes'[w].op \in WriteOps
      /\ \A w \in Writes : writes[w].at = "served" /\ <<"write", w>> \notin gone =>
            writes'[w].at = "served" /\ writes'[w].op = writes[w].op
  BY <1>0, <1>3, Zenon DEF AnswerAwaited
<1>6. \A n \in Names : queries[n].fetch = "served" /\ <<"query", n>> \notin gone => queries'[n].fetch = "served"
  BY <1>2, Zenon
<1>7. \A n \in LookedAfter : \A b \in answers : News(b, n) => Id(b) \notin gone
  BY Zenon, <1>2, <1>4 DEF News
<1>8. ASSUME unreported' = {}, NEW n \in LookedAfter, Outdated(n)'
      PROVE (\E b \in answers : News(b, n)) \/ Handled(n)'
  <2>1. n \in Names
    BY Zenon DEF LookedAfter, Lists
  <2>2. Expected(n)
    BY <1>0, <1>3, <1>8, <2>1, Zenon DEF NewsFollows
  <2>3. Handled(n)' <=> Handled(n)
    <3>1. \A step : Reaches(step, n)' <=> Reaches(step, n)
      BY <1>3, Zenon DEF Reaches, Covered, isTokenSetAuthContextMode
    <3> QED
      BY <1>3, <3>1, Zenon DEF Handled
  <2> QED
    BY <2>2, <2>3, Zenon DEF Expected
<1> QED
  BY <1>1, <1>3, <1>4, <1>5, <1>6, <1>7, <1>8, AnswersLeave, ZenonT(40)

(* Nothing dropped, nothing changes.                                       *)
LEMMA NothingDropped ==
  ASSUME DashboardTypes
  PROVE  answers = Kept({}) /\ answers = Without({})
<1>1. answers \subseteq AnswerRecords
  BY Zenon DEF DashboardTypes
<1>2. \A a \in AnswerRecords : [a EXCEPT !.after = @ \ {}] = a
  BY Zenon DEF AnswerRecords
<1>3. answers = Without({})
  BY Zenon, <1>1, <1>2 DEF Without
<1>4. {"query"} \X {} = {}
  BY Zenon
<1> QED
  BY <1>3, <1>4, Zenon DEF Kept

(* What the cache does to a query.                                         *)
LEMMA CacheUpdates ==
  ASSUME NEW q \in QueryRecords
  PROVE  /\ SentWrite(q) \in QueryRecords /\ SentWrite(q).data = q.data
         /\ SentWrite(q).stale = q.stale /\ SentWrite(q).fetch = "sent"
         /\ [q EXCEPT !.stale = TRUE] \in QueryRecords /\ [q EXCEPT !.stale = TRUE].stale
         /\ [q EXCEPT !.stale = TRUE].fetch = q.fetch
         /\ [q EXCEPT !.fetch = "none"] \in QueryRecords /\ [q EXCEPT !.fetch = "none"].data = q.data
         /\ [q EXCEPT !.fetch = "none"].stale = q.stale
         /\ NoQuery \in QueryRecords /\ NoQuery.data = {}
  BY Zenon DEF QueryRecords, SentWrite, NoQuery

(* Making a query stale leaves its fetch alone.                            *)
LEMMA MadeStale ==
  ASSUME NEW q \in QueryRecords, NEW r, r = [q EXCEPT !.stale = TRUE]
  PROVE  r \in QueryRecords /\ r.stale /\ r.fetch = q.fetch
  BY Zenon DEF QueryRecords

(* A query whose data stay, are dropped or are made stale.                 *)
LEMMA NotMoreOutdated ==
  ASSUME NEW n, serverItems' = serverItems,
         \/ queries'[n].data = queries[n].data /\ (queries[n].stale => queries'[n].stale)
         \/ queries'[n].data = {}
         \/ queries'[n].stale
  PROVE  Outdated(n)' => Outdated(n)
  BY Zenon DEF Outdated

(* Mounting a query sends at most a first fetch.                           *)
LEMMA UseQueryKeeps ==
  ASSUME DashboardIInv, NEW n \in Names, useQuery(n)
  PROVE  DashboardIInv'
<1>1. DashboardTypes /\ queries \in [Names -> QueryRecords]
  BY Zenon DEF DashboardIInv, DashboardTypes
<1>2. /\ UNCHANGED <<dashboardMode, serverItems, version, writes, unreported>> /\ answers' = answers
      /\ queries' = [queries EXCEPT ![n] =
           IF isQueryEnabled /\ @.fetch = "none" /\ (@.data = {} \/ @.stale) THEN SentWrite(@) ELSE @]
  BY Zenon DEF useQuery
<1>3. \A m \in Names :
        queries'[m] = queries[m] \/ (queries[m].fetch = "none" /\ queries'[m] = SentWrite(queries[m]))
  BY Zenon, <1>1, <1>2
<1>4. queries' = [m \in Names |-> queries'[m]]
  BY Zenon, <1>1, <1>2
<1>5. \A m \in Names : queries'[m] \in QueryRecords
  <2> SUFFICES ASSUME NEW m \in Names PROVE queries'[m] \in QueryRecords
    BY Zenon
  <2>1. queries[m] \in QueryRecords /\ SentWrite(queries[m]) \in QueryRecords
    BY <1>1, CacheUpdates, Zenon
  <2> QED
    BY <1>3, <2>1, Zenon
<1>6. queries' \in [Names -> QueryRecords]
  BY Zenon, <1>4, <1>5
<1>7. ASSUME NEW m \in Names
      PROVE /\ queries[m].fetch = "served" /\ m \notin {} => queries'[m].fetch = "served"
            /\ queries'[m].data = queries[m].data /\ queries'[m].stale = queries[m].stale
  <2>1. queries[m] \in QueryRecords
    BY <1>1, Zenon
  <2>2. PICK sent \in QueryRecords : /\ sent = SentWrite(queries[m])
                                     /\ sent.data = queries[m].data /\ sent.stale = queries[m].stale
    BY <2>1, CacheUpdates, Zenon
  <2>3. CASE queries'[m] = queries[m]
    BY <2>3, Zenon
  <2>4. CASE queries[m].fetch = "none" /\ queries'[m] = SentWrite(queries[m])
    BY <2>2, <2>4, Zenon
  <2> QED
    BY <1>3, <2>3, <2>4, Zenon
<1>8. \A m \in Names : Outdated(m)' => Outdated(m)
  BY <1>2, <1>7, NotMoreOutdated, Zenon
<1>9. answers' = Kept({}) /\ {} \in SUBSET Names
  BY Zenon, <1>1, <1>2, NothingDropped
<1> QED
  BY <1>2, <1>6, <1>7, <1>8, <1>9, CacheStep, Zenon

(* Unmounting drops at most the fetch of the query.                        *)
LEMMA UnmountKeeps ==
  ASSUME DashboardIInv, NEW n \in Names, Unmount(n)
  PROVE  DashboardIInv'
<1>1. DashboardTypes /\ queries \in [Names -> QueryRecords]
  BY Zenon DEF DashboardIInv, DashboardTypes
<1>2. UNCHANGED <<dashboardMode, serverItems, version, writes, unreported>>
  BY Zenon DEF Unmount
<1>3. PICK dropped \in SUBSET Names :
         /\ answers' = Kept(dropped)
         /\ \/ dropped = {} /\ queries' = queries
            \/ dropped = {n} /\ queries' = [queries EXCEPT ![n].fetch = "none"]
  <2>1. \/ queries' = queries /\ answers' = answers
        \/ queries' = [queries EXCEPT ![n].fetch = "none"] /\ answers' = Kept({n})
    BY Zenon DEF Unmount
  <2>2. {} \in SUBSET Names /\ {n} \in SUBSET Names
    BY Zenon
  <2> QED
    BY <1>1, <2>1, <2>2, NothingDropped, Zenon
<1>4. /\ queries' = [m \in Names |-> queries'[m]]
      /\ \A m \in Names : \/ queries'[m] = queries[m]
                          \/ m \in dropped /\ queries'[m] = [queries[m] EXCEPT !.fetch = "none"]
  BY Zenon, <1>1, <1>3
<1>5. ASSUME NEW m \in Names
      PROVE  /\ queries'[m] \in QueryRecords
             /\ queries'[m].data = queries[m].data /\ queries'[m].stale = queries[m].stale
  <2>1. queries[m] \in QueryRecords
    BY Zenon, <1>1
  <2>2. CASE queries'[m] = queries[m]
    BY <2>1, <2>2, Zenon
  <2>3. CASE queries'[m] = [queries[m] EXCEPT !.fetch = "none"]
    BY <2>1, <2>3, CacheUpdates, Zenon
  <2> QED
    BY <1>4, <2>2, <2>3, Zenon
<1>6. queries' \in [Names -> QueryRecords]
  BY Zenon, <1>4, <1>5
<1>7. \A m \in Names : queries[m].fetch = "served" /\ m \notin dropped => queries'[m].fetch = "served"
  BY <1>4, Zenon
<1>8. \A m \in Names : Outdated(m)' => Outdated(m)
  BY <1>2, <1>5, NotMoreOutdated, Zenon
<1> QED
  BY <1>2, <1>3, <1>6, <1>7, <1>8, CacheStep, Zenon

(* Growing stale makes no query outdated.                                  *)
LEMMA StaleTimeKeeps ==
  ASSUME DashboardIInv, NEW n \in Names, StaleTime(n)
  PROVE  DashboardIInv'
<1>1. DashboardTypes /\ queries \in [Names -> QueryRecords]
  BY Zenon DEF DashboardIInv, DashboardTypes
<1>2. /\ UNCHANGED <<dashboardMode, serverItems, version, writes, unreported>> /\ answers' = answers
      /\ queries' = [queries EXCEPT ![n].stale = TRUE]
  BY Zenon DEF StaleTime
<1>4. /\ queries' = [m \in Names |-> queries'[m]]
      /\ \A m \in Names : queries'[m] = queries[m] \/ queries'[m] = [queries[m] EXCEPT !.stale = TRUE]
  BY Zenon, <1>1, <1>2
<1>5. ASSUME NEW m \in Names
      PROVE  /\ queries'[m] \in QueryRecords /\ queries'[m].fetch = queries[m].fetch
             /\ (queries'[m] = queries[m] \/ queries'[m].stale)
  <2>1. queries[m] \in QueryRecords
    BY Zenon, <1>1
  <2>2. CASE queries'[m] = queries[m]
    BY <2>1, <2>2, Zenon
  <2>3. CASE queries'[m] = [queries[m] EXCEPT !.stale = TRUE]
    BY <2>1, <2>3, MadeStale, Zenon
  <2> QED
    BY <1>4, <2>2, <2>3, Zenon
<1>6. queries' \in [Names -> QueryRecords]
  BY Zenon, <1>4, <1>5
<1>7. \A m \in Names : queries[m].fetch = "served" /\ m \notin {} => queries'[m].fetch = "served"
  BY <1>5, Zenon
<1>8. \A m \in Names : Outdated(m)' => Outdated(m)
  BY <1>2, <1>5, NotMoreOutdated, Zenon
<1>9. answers' = Kept({}) /\ {} \in SUBSET Names
  BY Zenon, <1>1, <1>2, NothingDropped
<1> QED
  BY <1>2, <1>6, <1>7, <1>8, <1>9, CacheStep, Zenon

(* A new access token sends fetches only.                                  *)
LEMMA HeaderKeeps ==
  ASSUME DashboardIInv, useTokenSetAuthorizationHeader
  PROVE  DashboardIInv'
<1>1. DashboardTypes /\ queries \in [Names -> QueryRecords]
  BY Zenon DEF DashboardIInv, DashboardTypes
<1>2. /\ UNCHANGED <<dashboardMode, serverItems, version, writes, unreported>> /\ answers' = answers
      /\ queries' = [n \in Names |->
           IF authEnabled' /\ n \in mounted /\ queries[n].fetch = "none"
                           /\ (queries[n].data = {} \/ queries[n].stale)
           THEN SentWrite(queries[n]) ELSE queries[n]]
  BY Zenon DEF useTokenSetAuthorizationHeader
<1>3. /\ queries' = [m \in Names |-> queries'[m]]
      /\ \A m \in Names :
           queries'[m] = queries[m] \/ (queries[m].fetch = "none" /\ queries'[m] = SentWrite(queries[m]))
  BY Zenon, <1>2
<1>5. \A m \in Names : queries'[m] \in QueryRecords
  <2> SUFFICES ASSUME NEW m \in Names PROVE queries'[m] \in QueryRecords
    BY Zenon
  <2>1. queries[m] \in QueryRecords /\ SentWrite(queries[m]) \in QueryRecords
    BY <1>1, CacheUpdates, Zenon
  <2> QED
    BY <1>3, <2>1, Zenon
<1>6. queries' \in [Names -> QueryRecords]
  BY Zenon, <1>3, <1>5
<1>7. ASSUME NEW m \in Names
      PROVE /\ queries[m].fetch = "served" /\ m \notin {} => queries'[m].fetch = "served"
            /\ queries'[m].data = queries[m].data /\ queries'[m].stale = queries[m].stale
  <2>1. queries[m] \in QueryRecords
    BY <1>1, Zenon
  <2>2. PICK sent \in QueryRecords : /\ sent = SentWrite(queries[m])
                                     /\ sent.data = queries[m].data /\ sent.stale = queries[m].stale
    BY <2>1, CacheUpdates, Zenon
  <2>3. CASE queries'[m] = queries[m]
    BY <2>3, Zenon
  <2>4. CASE queries[m].fetch = "none" /\ queries'[m] = SentWrite(queries[m])
    BY <2>2, <2>4, Zenon
  <2> QED
    BY <1>3, <2>3, <2>4, Zenon
<1>8. \A m \in Names : Outdated(m)' => Outdated(m)
  BY <1>2, <1>7, NotMoreOutdated, Zenon
<1>9. answers' = Kept({}) /\ {} \in SUBSET Names
  BY Zenon, <1>1, <1>2, NothingDropped
<1> QED
  BY <1>2, <1>6, <1>7, <1>8, <1>9, CacheStep, Zenon

(* Logging out drops what the cache holds, or nothing.                     *)
LEMMA LogoutKeeps ==
  ASSUME DashboardIInv, useDashboardLogout
  PROVE  DashboardIInv'
<1>1. DashboardTypes /\ queries \in [Names -> QueryRecords]
  BY Zenon DEF DashboardIInv, DashboardTypes
<1>2. UNCHANGED <<dashboardMode, serverItems, version, writes, unreported>>
  BY Zenon DEF useDashboardLogout
<1>3. CASE queries' = queries /\ answers' = answers
  <2>1. \A m \in Names : /\ queries[m].fetch = "served" /\ m \notin {} => queries'[m].fetch = "served"
                         /\ Outdated(m)' => Outdated(m)
    BY <1>2, <1>3, NotMoreOutdated, Zenon
  <2>2. answers' = Kept({}) /\ {} \in SUBSET Names
    BY Zenon, <1>1, <1>3, NothingDropped
  <2> QED
    BY <1>1, <1>2, <1>3, <2>1, <2>2, CacheStep, Zenon
<1>4. CASE queries' = [n \in Names |-> NoQuery] /\ answers' = Kept(Names)
  <2>1. \A m \in Names : queries'[m].data = {}
    BY Zenon, <1>4 DEF NoQuery
  <2>2. queries' \in [Names -> QueryRecords]
    BY Zenon, <1>4 DEF NoQuery, QueryRecords
  <2>3. \A m \in Names : /\ queries[m].fetch = "served" /\ m \notin Names => queries'[m].fetch = "served"
                         /\ Outdated(m)' => Outdated(m)
    BY <1>2, <2>1, NotMoreOutdated, Zenon
  <2>4. Names \in SUBSET Names
    BY Zenon
  <2> QED
    BY <1>2, <1>4, <2>2, <2>3, <2>4, CacheStep, Zenon
<1> QED
  BY <1>3, <1>4, Zenon DEF useDashboardLogout

(* A mutation starts or ends: no news are lost.                            *)
LEMMA MutationKeeps ==
  ASSUME DashboardIInv, NEW w \in Writes, NEW write \in WriteRecords,
         writes' = [writes EXCEPT ![w] = write],
         UNCHANGED <<dashboardMode, serverItems, version, queries, answers, unreported>>,
         writes[w].at = "idle" \/ (writes[w].at = "settling" /\ writes[w].todo = <<>>),
         write.at \in {"sent", "served"} => write.op \in WriteOps
  PROVE  DashboardIInv'
<1>0. DashboardTypes /\ AnswerAwaited /\ NewsFollows
  BY Zenon DEF DashboardIInv
<1>1. writes \in [Writes -> WriteRecords] /\ queries \in [Names -> QueryRecords]
  BY <1>0, Zenon DEF DashboardTypes
<1>2. /\ writes' \in [Writes -> WriteRecords]
      /\ \A v \in Writes : writes'[v] = IF v = w THEN write ELSE writes[v]
  BY Zenon, <1>1
<1>3. answers' = Without({}) /\ unreported' = unreported /\ queries' = queries
      /\ dashboardMode' = dashboardMode /\ serverItems' = serverItems /\ version' = version
  BY Zenon, <1>0, NothingDropped
<1>4. /\ \A v \in Writes : writes'[v].at \in {"sent", "served"} => writes'[v].op \in WriteOps
      /\ \A v \in Writes : writes[v].at = "served" /\ <<"write", v>> \notin {} =>
            writes'[v].at = "served" /\ writes'[v].op = writes[v].op
  <2>1. \A v \in Writes : writes[v].at \in {"sent", "served"} => writes[v].op \in WriteOps
    BY <1>0, Zenon DEF AnswerAwaited
  <2>2. \A v \in Writes : v # w => writes'[v] = writes[v]
    BY Zenon, <1>2
  <2>3. writes[w].at # "served"
    BY Zenon
  <2> QED
    BY <1>2, <2>1, <2>2, <2>3, Zenon
<1>5. ASSUME unreported' = {}, NEW n \in LookedAfter, Outdated(n)'
      PROVE (\E b \in answers : News(b, n)) \/ Handled(n)'
  <2>1. Outdated(n)
    BY <1>3, <1>5, NotMoreOutdated, Zenon
  <2>2. Expected(n)
    BY <1>0, <1>3, <1>5, <2>1, Zenon DEF NewsFollows
  <2>3. ASSUME Handled(n) PROVE Handled(n)'
    <3>1. PICK v \in Writes : /\ writes[v].at = "settling"
                              /\ \E i \in DOMAIN writes[v].todo : Reaches(writes[v].todo[i], n)
      BY <2>3, Zenon DEF Handled
    <3>2. v # w
      BY <3>1
    <3>3. writes'[v] = writes[v]
      BY Zenon, <1>2, <3>2
    <3>4. \A step : Reaches(step, n)' <=> Reaches(step, n)
      BY <1>3, Zenon DEF Reaches, Covered
    <3> QED
      BY <3>1, <3>3, <3>4, Zenon DEF Handled
  <2> QED
    BY <2>2, <2>3, Zenon DEF Expected
<1>6. \A b : Id(b) \notin {}
  BY Zenon
<1> QED
  BY <1>1, <1>2, <1>3, <1>4, <1>5, <1>6, AnswersLeave, ZenonT(40)

(* A mutation begins.                                                      *)
LEMMA MutationFnKeeps ==
  ASSUME DashboardIInv, NEW w \in Writes, NEW op \in WriteOps, mutationFn(w, op)
  PROVE  DashboardIInv'
<1> DEFINE write == [NoWrite EXCEPT !.op = op, !.at = "sent"]
<1>1. /\ writes' = [writes EXCEPT ![w] = write] /\ writes[w].at = "idle"
      /\ UNCHANGED <<dashboardMode, serverItems, version, queries, answers, unreported>>
  BY Zenon DEF mutationFn
<1>2. write \in WriteRecords /\ write.op = op
  <2>1. NoWrite \in WriteRecords
    BY DEF NoWrite, WriteRecords
  <2>2. ASSUME NEW x \in WriteRecords
        PROVE  /\ [x EXCEPT !.op = op, !.at = "sent"] \in WriteRecords
               /\ [x EXCEPT !.op = op, !.at = "sent"].op = op
    BY Zenon DEF WriteRecords
  <2> QED
    BY <2>1, <2>2, Zenon
<1> HIDE DEF write
<1> QED
  BY <1>1, <1>2, MutationKeeps, Zenon

(* A mutation whose handler is through settles.                            *)
LEMMA MutationSettlesKeeps ==
  ASSUME DashboardIInv, NEW w \in Writes, MutationSettles(w)
  PROVE  DashboardIInv'
<1>1. /\ writes' = [writes EXCEPT ![w] = NoWrite] /\ writes[w].at = "settling" /\ writes[w].todo = <<>>
      /\ UNCHANGED <<dashboardMode, serverItems, version, queries, answers, unreported>>
  BY Zenon DEF MutationSettles
<1>2. NoWrite \in WriteRecords /\ NoWrite.at \notin {"sent", "served"}
  BY DEF NoWrite, WriteRecords
<1> QED
  BY <1>1, <1>2, MutationKeeps, Zenon

(* A statement of a handler deals with every query that it reaches.        *)
LEMMA StatementReaches ==
  ASSUME DashboardTypes, NEW step \in StepRecords,
         IF step.do = "invalidate" THEN invalidateQueries(step.keys) ELSE removeQueries(step.keys)
  PROVE  /\ queries' \in [Names -> QueryRecords]
         /\ \E dropped : /\ answers' = Kept(dropped)
                         /\ \A n \in Names : queries[n].fetch = "served" /\ n \notin dropped =>
                              queries'[n].fetch = "served"
         /\ \A n \in Names : \/ queries'[n] = queries[n] /\ ~Reaches(step, n)
                             \/ queries'[n].data = {} \/ queries'[n].stale
<1>1. queries \in [Names -> QueryRecords]
  BY Zenon DEF DashboardTypes
<1>2. CASE step.do = "invalidate"
  <2> DEFINE covered == UNION {Covered(k) : k \in step.keys}
             dropped == {n \in covered : Active(n) /\ queries[n].data # {}}
  <2>1. /\ queries' = [n \in Names |->
             IF n \notin covered THEN queries[n]
             ELSE IF Active(n) THEN [Refetched(queries[n]) EXCEPT !.stale = TRUE]
             ELSE [queries[n] EXCEPT !.stale = TRUE]]
        /\ answers' = Kept(dropped)
    BY <1>2, Zenon DEF invalidateQueries
  <2>2. \A n : Reaches(step, n) <=> n \in covered
    BY Zenon, <1>2 DEF Reaches
  <2> HIDE DEF covered
  <2>3. ASSUME NEW n \in Names
        PROVE /\ queries'[n] \in QueryRecords
              /\ n \notin covered => queries'[n] = queries[n]
              /\ n \in covered => queries'[n].stale
              /\ queries[n].fetch = "served" /\ n \notin dropped => queries'[n].fetch = "served"
    <3> DEFINE q == queries[n]
    <3>1. q \in QueryRecords
      BY Zenon, <1>1
    <3>2. CASE n \notin covered
      BY Zenon, <2>1, <3>1, <3>2
    <3>3. CASE n \in covered /\ Active(n)
      <4>1. queries'[n] = [Refetched(q) EXCEPT !.stale = TRUE]
        BY Zenon, <2>1, <3>3
      <4>2. Refetched(q) \in QueryRecords
        BY Zenon, <3>1, CacheUpdates DEF Refetched
      <4>3. q.fetch = "served" /\ n \notin dropped => Refetched(q) = q
        BY Zenon, <3>3 DEF Refetched
      <4> HIDE DEF q
      <4>4. queries'[n] \in QueryRecords /\ queries'[n].stale /\ queries'[n].fetch = Refetched(q).fetch
        BY <4>1, <4>2, MadeStale, Zenon
      <4> HIDE DEF dropped
      <4> QED
        BY Zenon, <3>3, <4>3, <4>4 DEF q
    <3>4. CASE n \in covered /\ ~Active(n)
      <4>1. queries'[n] = [q EXCEPT !.stale = TRUE]
        BY Zenon, <2>1, <3>4
      <4> HIDE DEF dropped
      <4> QED
        BY <3>1, <3>4, <4>1, MadeStale, Zenon
    <3> QED
      BY <3>2, <3>3, <3>4, Zenon
  <2> HIDE DEF dropped
  <2>4. queries' \in [Names -> QueryRecords]
    <3>1. queries' = [n \in Names |-> queries'[n]]
      BY Zenon, <2>1
    <3>2. \A n \in Names : queries'[n] \in QueryRecords
      BY <2>3, Zenon
    <3> QED
      BY Zenon, <3>1, <3>2
  <2> QED
    BY <2>1, <2>2, <2>3, <2>4, Zenon
<1>3. CASE step.do # "invalidate"
  <2>1. /\ queries' = [n \in Names |-> IF n \in step.keys THEN NoQuery ELSE queries[n]]
        /\ answers' = Kept(step.keys)
    BY <1>3, Zenon DEF removeQueries
  <2>2. \A n : Reaches(step, n) <=> n \in step.keys
    BY Zenon, <1>3 DEF Reaches
  <2>3. NoQuery \in QueryRecords /\ NoQuery.data = {}
    BY Zenon DEF NoQuery, QueryRecords
  <2>4. \A n \in Names : queries'[n] = IF n \in step.keys THEN NoQuery ELSE queries[n]
    BY Zenon, <2>1
  <2>5. queries' \in [Names -> QueryRecords]
    BY Zenon, <1>1, <2>1, <2>3
  <2>6. \A n \in Names : queries[n].fetch = "served" /\ n \notin step.keys => queries'[n].fetch = "served"
    BY <2>4, Zenon
  <2>7. \A n \in Names : (queries'[n] = queries[n] /\ ~Reaches(step, n)) \/ queries'[n].data = {}
    BY <2>2, <2>3, <2>4, Zenon
  <2> QED
    BY <2>1, <2>5, <2>6, <2>7, Zenon
<1> QED
  BY <1>2, <1>3, Zenon

(* A statement of a handler: the queries it reaches are stale or gone, the *)
(* others are left to the statements to come.                              *)
LEMMA OnSuccessKeeps ==
  ASSUME DashboardIInv, NEW w \in Writes, onSuccess(w)
  PROVE  DashboardIInv'
<1> DEFINE todo == writes[w].todo
           step == Head(todo)
           waits == IF step.do = "invalidate" THEN UNION {Covered(k) : k \in step.keys} ELSE {}
<1>0. DashboardTypes /\ AnswerAwaited /\ NewsFollows
  BY Zenon DEF DashboardIInv
<1>1. /\ writes[w].at = "settling" /\ todo # <<>>
      /\ writes' = [writes EXCEPT ![w].todo = Tail(@), ![w].waits = waits]
      /\ IF step.do = "invalidate" THEN invalidateQueries(step.keys) ELSE removeQueries(step.keys)
      /\ UNCHANGED <<dashboardMode, serverItems, version, unreported>>
  BY Zenon DEF onSuccess
<1>2. writes \in [Writes -> WriteRecords] /\ writes[w] \in WriteRecords
  BY Zenon, <1>0 DEF DashboardTypes
<1>3. todo \in Seq(StepRecords)
  BY Zenon, <1>2 DEF WriteRecords
<1>4. /\ step \in StepRecords /\ Tail(todo) \in Seq(StepRecords)
      /\ \A i \in DOMAIN todo : i = 1 \/ (i - 1 \in DOMAIN Tail(todo) /\ Tail(todo)[i - 1] = todo[i])
      /\ (1 \in DOMAIN todo => todo[1] = step)
  BY <1>1, <1>3
<1>5. waits \in SUBSET Names
  BY Zenon DEF Covered
<1> HIDE DEF waits, step
<1>6. /\ writes' \in [Writes -> WriteRecords]
      /\ \A v \in Writes : v # w => writes'[v] = writes[v]
      /\ writes'[w].at = "settling" /\ writes'[w].todo = Tail(todo)
  <2>1. writes' = [writes EXCEPT ![w] = [writes[w] EXCEPT !.todo = Tail(todo), !.waits = waits]]
    BY Zenon, <1>1, <1>2
  <2>2. [writes[w] EXCEPT !.todo = Tail(todo), !.waits = waits] \in WriteRecords
        /\ [writes[w] EXCEPT !.todo = Tail(todo), !.waits = waits].at = writes[w].at
        /\ [writes[w] EXCEPT !.todo = Tail(todo), !.waits = waits].todo = Tail(todo)
    BY Zenon, <1>2, <1>4, <1>5 DEF WriteRecords
  <2> HIDE DEF todo
  <2> QED
    BY Zenon, <1>1, <1>2, <2>1, <2>2
<1> HIDE DEF todo
<1>7. dashboardMode' = dashboardMode /\ serverItems' = serverItems /\ unreported' = unreported
  BY Zenon, <1>1
<1>8. queries' \in [Names -> QueryRecords]
      /\ \A n \in Names : \/ queries'[n] = queries[n] /\ ~Reaches(step, n)
                          \/ queries'[n].data = {} \/ queries'[n].stale
  BY <1>0, <1>1, <1>4, StatementReaches, Zenon
<1>9. PICK dropped : /\ answers' = Kept(dropped)
                     /\ \A n \in Names : queries[n].fetch = "served" /\ n \notin dropped =>
                          queries'[n].fetch = "served"
  BY <1>0, <1>1, <1>4, StatementReaches, Zenon
<1> DEFINE gone == {"query"} \X dropped
<1>10. answers' = Without(gone)
  BY <1>9, Zenon DEF Kept
<1>11. /\ \A v : <<"write", v>> \notin gone
       /\ \A n : <<"query", n>> \in gone <=> n \in dropped
       /\ \A b \in AnswerRecords : Id(b) \in gone => b.for = "query"
  BY Zenon DEF Id, AnswerRecords
<1> HIDE DEF gone
<1>12. \A n \in Names : queries[n].fetch = "served" /\ <<"query", n>> \notin gone => queries'[n].fetch = "served"
  BY <1>9, <1>11, Zenon
<1>13. /\ \A v \in Writes : writes'[v].at \in {"sent", "served"} => writes'[v].op \in WriteOps
       /\ \A v \in Writes : writes[v].at = "served" /\ <<"write", v>> \notin gone =>
             writes'[v].at = "served" /\ writes'[v].op = writes[v].op
  <2>1. \A v \in Writes : writes[v].at \in {"sent", "served"} => writes[v].op \in WriteOps
    BY <1>0, Zenon DEF AnswerAwaited
  <2>2. writes[w].at # "served" /\ writes'[w].at \notin {"sent", "served"}
    BY Zenon, <1>1, <1>6
  <2> QED
    BY <1>6, <2>1, <2>2, Zenon
<1>14. \A n \in LookedAfter : \A b \in answers : News(b, n) => Id(b) \notin gone
  <2>1. answers \subseteq AnswerRecords
    BY <1>0, Zenon DEF DashboardTypes
  <2> QED
    BY Zenon, <1>11, <2>1 DEF News
<1>15. ASSUME unreported' = {}, NEW n \in LookedAfter, Outdated(n)'
       PROVE (\E b \in answers : News(b, n)) \/ Handled(n)'
  <2>1. n \in Names
    BY Zenon DEF LookedAfter, Lists
  <2>2. queries'[n] = queries[n] /\ ~Reaches(step, n)
    BY <1>8, <1>15, <2>1, Zenon DEF Outdated
  <2>3. Outdated(n)
    BY <1>7, <1>15, <2>2, Zenon DEF Outdated
  <2>4. Expected(n)
    BY <1>0, <1>7, <1>15, <2>3, Zenon DEF NewsFollows
  <2>5. ASSUME Handled(n) PROVE Handled(n)'
    <3>1. PICK v \in Writes : /\ writes[v].at = "settling"
                              /\ \E i \in DOMAIN writes[v].todo : Reaches(writes[v].todo[i], n)
      BY <2>5, Zenon DEF Handled
    <3>2. \A s : Reaches(s, n)' <=> Reaches(s, n)
      BY <1>7, Zenon DEF Reaches, Covered
    <3>3. CASE v # w
      BY <1>6, <3>1, <3>2, <3>3, Zenon DEF Handled
    <3>4. CASE v = w
      <4>1. PICK i \in DOMAIN todo : Reaches(todo[i], n)
        BY <3>1, <3>4, Zenon DEF todo
      <4>2. i # 1
        BY <1>4, <2>2, <4>1, Zenon
      <4>3. i - 1 \in DOMAIN writes'[w].todo /\ writes'[w].todo[i - 1] = todo[i]
        BY <1>4, <1>6, <4>2, Zenon
      <4> QED
        BY <1>6, <3>2, <4>1, <4>3, Zenon DEF Handled
    <3> QED
      BY <3>3, <3>4, Zenon
  <2> QED
    BY <2>4, <2>5, Zenon DEF Expected
<1> QED
  BY <1>1, <1>6, <1>7, <1>8, <1>10, <1>12, <1>13, <1>14, <1>15, AnswersLeave, ZenonT(40)

(* In order, a query's answer is that of the server now, or the news of    *)
(* the change are still to come.                                           *)
LEMMA QueryAnswersKeeps ==
  ASSUME DashboardIInv, NEW a \in answers, QueryAnswers(a)
  PROVE  DashboardIInv'
<1> DEFINE gone == {Id(a)}
           n == a.who
           found == [data |-> {a.says}, stale |-> FALSE, fetch |-> "none"]
<1>0. DashboardTypes /\ AnswerAwaited /\ NewsFollows
  BY Zenon DEF DashboardIInv
<1>1. /\ a.for = "query" /\ answers' = Without(gone)
      /\ queries' = [queries EXCEPT ![n] =
           IF ~ReadSucceeds(n, a.says) THEN [@ EXCEPT !.fetch = "none"] ELSE found]
      /\ UNCHANGED <<dashboardMode, serverItems, version, writes, unreported>>
  BY Zenon DEF QueryAnswers
<1>2. /\ queries \in [Names -> QueryRecords] /\ writes \in [Writes -> WriteRecords]
      /\ answers \subseteq AnswerRecords /\ a \in AnswerRecords
  BY <1>0, Zenon DEF DashboardTypes
<1>3. n \in Names /\ a.says \in Nat /\ Id(a) = <<"query", n>>
  BY Zenon, <1>0, <1>1, <1>2 DEF AnswerAwaited, AnswerRecords, Id
<1>4. found \in QueryRecords /\ found.data = {a.says}
  BY Zenon, <1>3 DEF QueryRecords
<1> HIDE DEF found
<1>5. /\ queries' = [m \in Names |-> queries'[m]]
      /\ \A m \in Names : m # n => queries'[m] = queries[m]
      /\ queries'[n] = found \/ queries'[n] = [queries[n] EXCEPT !.fetch = "none"]
  BY Zenon, <1>1, <1>2, <1>3
<1>6. queries'[n] \in QueryRecords /\ (queries'[n].data = {a.says}
        \/ (queries'[n].data = queries[n].data /\ queries'[n].stale = queries[n].stale))
  <2>1. queries[n] \in QueryRecords
    BY <1>2, <1>3, Zenon
  <2>2. PICK old \in QueryRecords : /\ old = [queries[n] EXCEPT !.fetch = "none"]
                                    /\ old.data = queries[n].data /\ old.stale = queries[n].stale
    BY <2>1, CacheUpdates, Zenon
  <2> QED
    BY <1>4, <1>5, <2>2, Zenon
<1>7. queries' \in [Names -> QueryRecords]
  <2>1. \A m \in Names : queries'[m] \in QueryRecords
    BY Zenon, <1>2, <1>5, <1>6
  <2> QED
    BY Zenon, <1>5, <2>1
<1>8. /\ \A w : <<"write", w>> \notin gone
      /\ \A m \in Names : <<"query", m>> \notin gone => m # n
      /\ \A b \in answers : b.for = "write" => Id(b) \notin gone
  BY Zenon, <1>3 DEF Id
<1>9. writes' = writes /\ unreported' = unreported /\ serverItems' = serverItems /\ dashboardMode' = dashboardMode
  BY Zenon, <1>1
<1> HIDE DEF gone, n
<1>10. /\ \A w \in Writes : writes'[w].at \in {"sent", "served"} => writes'[w].op \in WriteOps
       /\ \A w \in Writes : writes[w].at = "served" /\ <<"write", w>> \notin gone =>
             writes'[w].at = "served" /\ writes'[w].op = writes[w].op
  BY <1>0, <1>9, Zenon DEF AnswerAwaited
<1>11. \A m \in Names : queries[m].fetch = "served" /\ <<"query", m>> \notin gone => queries'[m].fetch = "served"
  BY <1>5, <1>8, Zenon
<1>12. \A m \in LookedAfter : \A b \in answers : News(b, m) => Id(b) \notin gone
  BY <1>8, Zenon DEF News
<1>13. ASSUME unreported' = {}, NEW m \in LookedAfter, Outdated(m)'
       PROVE (\E b \in answers : News(b, m)) \/ Handled(m)'
  <2>1. m \in Names
    BY Zenon DEF LookedAfter, Lists
  <2>2. CASE Outdated(m)
    <3>1. Expected(m)
      BY <1>0, <1>9, <1>13, <2>2, Zenon DEF NewsFollows
    <3>2. \A step : Reaches(step, m)' <=> Reaches(step, m)
      BY <1>9, Zenon DEF Reaches, Covered
    <3>3. Handled(m)' <=> Handled(m)
      BY <1>9, <3>2, Zenon DEF Handled
    <3> QED
      BY <3>1, <3>3, Zenon DEF Expected
  <2>3. CASE ~Outdated(m)
    <3>1. m = n
      BY <1>5, <1>9, <1>13, <2>1, <2>3, Zenon DEF Outdated
    <3>2. queries'[n].data = {a.says}
      BY <1>6, <1>9, <1>13, <2>3, <3>1, Zenon DEF Outdated
    <3>3. a.says # serverItems[ItemOf(m)]
      BY Zenon, <1>9, <1>13, <3>1, <3>2 DEF Outdated
    <3>4. a.who = m
      BY Zenon, <3>1 DEF n
    <3> QED
      BY <1>0, <1>1, <1>9, <1>13, <3>3, <3>4, Zenon DEF NewsFollows
  <2> QED
    BY <2>2, <2>3, Zenon
<1>14. writes' \in [Writes -> WriteRecords]
  BY <1>2, <1>9, Zenon
<1> QED
  BY <1>1, <1>7, <1>9, <1>10, <1>11, <1>12, <1>13, <1>14, AnswersLeave, ZenonT(40)

(* An accepted answer starts the handler, which comes to all that the      *)
(* write touched.                                                          *)
LEMMA WriteAnswersKeeps ==
  ASSUME InOrder, DashboardIInv, NEW a \in answers, WriteAnswers(a)
  PROVE  DashboardIInv'
<1> DEFINE gone == {Id(a)}
           w == a.who
           op == writes[w].op
           settling == [writes[w] EXCEPT !.at = "settling", !.todo = OnSuccess(op)]
<1>0. DashboardTypes /\ AnswerAwaited /\ NewsFollows
  BY Zenon DEF DashboardIInv
<1>1. /\ a.for = "write" /\ a.after = {} /\ answers' = Without(gone)
      /\ UNCHANGED <<dashboardMode, serverItems, version, queries>>
  BY Zenon DEF WriteAnswers, Deliverable
<1>2. \/ writes' = [writes EXCEPT ![w] = settling] /\ unreported' = unreported
      \/ /\ writes' = [writes EXCEPT ![w] = NoWrite]
         /\ unreported' = unreported \cup (IF a.says = 404 THEN {} ELSE {"refused"})
  BY Zenon DEF WriteAnswers
<1>3. /\ queries \in [Names -> QueryRecords] /\ writes \in [Writes -> WriteRecords]
      /\ answers \subseteq AnswerRecords /\ a \in AnswerRecords
  BY <1>0, Zenon DEF DashboardTypes
<1>4. w \in Writes /\ op \in WriteOps /\ Id(a) = <<"write", w>>
  <2>1. w \in Writes /\ writes[w].at = "served"
    BY <1>0, <1>1, Zenon DEF AnswerAwaited
  <2>2. op \in WriteOps
    BY Zenon, <1>0, <2>1 DEF AnswerAwaited
  <2> QED
    BY <1>1, <2>1, <2>2, Zenon DEF Id
<1>5. /\ OnSuccess(op) \in Seq(StepRecords)
      /\ \A n \in LookedAfter : Touches(op, n) => \E i \in DOMAIN OnSuccess(op) : Reaches(OnSuccess(op)[i], n)
  <2> HIDE DEF op
  <2> QED
    BY <1>4, HandlersReach, Zenon
<1>6. settling \in WriteRecords /\ settling.at = "settling" /\ settling.todo = OnSuccess(op)
      /\ NoWrite \in WriteRecords /\ NoWrite.at = "idle"
  <2>1. writes[w] \in WriteRecords
    BY Zenon, <1>3, <1>4
  <2> HIDE DEF op, w
  <2>2. settling \in WriteRecords /\ settling.at = "settling" /\ settling.todo = OnSuccess(op)
    BY Zenon, <1>5, <2>1 DEF WriteRecords
  <2>3. NoWrite \in WriteRecords /\ NoWrite.at = "idle"
    <3>1. << >> \in Seq(StepRecords)
      OBVIOUS
    <3> QED
      BY <3>1, Zenon DEF NoWrite, WriteRecords
  <2> QED
    BY <2>2, <2>3, Zenon
<1>7. /\ dashboardMode' = dashboardMode /\ serverItems' = serverItems /\ version' = version /\ queries' = queries
      /\ (unreported' = {} => unreported = {})
  BY <1>1, <1>2
<1>8. /\ \A v \in Writes : <<"write", v>> \notin gone => v # w
      /\ \A n : <<"query", n>> \notin gone
      /\ \A b \in answers : Id(b) \in gone => b = a
  BY <1>0, <1>4 DEF AnswerAwaited
<1> HIDE DEF gone, settling
<1>9. /\ writes' \in [Writes -> WriteRecords]
      /\ \A v \in Writes : v # w => writes'[v] = writes[v]
      /\ writes'[w].at \notin {"sent", "served"}
      /\ writes'[w] = settling \/ unreported' = unreported \cup (IF a.says = 404 THEN {} ELSE {"refused"})
  <2> HIDE DEF w, op
  <2> QED
    BY <1>2, <1>3, <1>4, <1>6
<1>10. /\ \A v \in Writes : writes'[v].at \in {"sent", "served"} => writes'[v].op \in WriteOps
       /\ \A v \in Writes : writes[v].at = "served" /\ <<"write", v>> \notin gone =>
             writes'[v].at = "served" /\ writes'[v].op = writes[v].op
  <2>1. \A v \in Writes : writes[v].at \in {"sent", "served"} => writes[v].op \in WriteOps
    BY <1>0, Zenon DEF AnswerAwaited
  <2>2. ASSUME NEW v \in Writes, writes'[v].at \in {"sent", "served"} PROVE writes'[v].op \in WriteOps
    <3>1. v # w
      BY <1>9, <2>2, Zenon
    <3>2. writes'[v] = writes[v]
      BY <1>9, <3>1, Zenon
    <3> QED
      BY <2>1, <2>2, <3>2, Zenon
  <2>3. ASSUME NEW v \in Writes, writes[v].at = "served", <<"write", v>> \notin gone
        PROVE  writes'[v].at = "served" /\ writes'[v].op = writes[v].op
    <3>1. v # w
      BY <1>8, <2>3, Zenon
    <3>2. writes'[v] = writes[v]
      BY <1>9, <3>1, Zenon
    <3> QED
      BY <2>3, <3>2, Zenon
  <2> QED
    BY <2>2, <2>3, Zenon
<1>11. \A n \in Names : queries[n].fetch = "served" /\ <<"query", n>> \notin gone => queries'[n].fetch = "served"
  BY <1>7, Zenon
<1>12. \A n : \A step : Reaches(step, n)' <=> Reaches(step, n)
  BY <1>7, Zenon DEF Reaches, Covered
<1>13. ASSUME unreported' = {}, NEW n \in LookedAfter, NEW b \in answers, News(b, n), Id(b) \in gone
       PROVE b.after = {} /\ Handled(n)'
  <2>1. b = a
    BY <1>8, <1>13, Zenon
  <2>2. a.says = 200 /\ Touches(op, n)
    BY <1>13, <2>1, Zenon DEF News
  <2>3. writes'[w] = settling
    BY <1>9, <1>13, <2>2
  <2> HIDE DEF op
  <2>4. PICK i \in DOMAIN OnSuccess(op) : Reaches(OnSuccess(op)[i], n)
    BY <1>5, <2>2, Zenon
  <2>5. Handled(n)'
    BY <1>4, <1>6, <1>12, <2>3, <2>4, Zenon DEF Handled
  <2> QED
    BY <1>1, <2>1, <2>5, Zenon
<1>14. ASSUME unreported' = {}, NEW n \in LookedAfter, Outdated(n)'
       PROVE (\E b \in answers : News(b, n)) \/ Handled(n)'
  <2>1. Outdated(n)
    BY <1>7, <1>14, NotMoreOutdated, Zenon
  <2>2. Expected(n)
    BY <1>0, <1>7, <1>14, <2>1, Zenon DEF NewsFollows
  <2>3. ASSUME Handled(n) PROVE Handled(n)'
    <3>1. PICK v \in Writes : /\ writes[v].at = "settling"
                              /\ \E i \in DOMAIN writes[v].todo : Reaches(writes[v].todo[i], n)
      BY <2>3, Zenon DEF Handled
    <3>2. v # w
      BY Zenon, <1>0, <1>1, <3>1 DEF AnswerAwaited
    <3>3. writes'[v] = writes[v]
      BY <1>9, <3>2, Zenon
    <3> QED
      BY <1>12, <3>1, <3>3, Zenon DEF Handled
  <2> QED
    BY <2>2, <2>3, Zenon DEF Expected
<1>15. queries' \in [Names -> QueryRecords]
  BY <1>3, <1>7, Zenon
<1> QED
  BY <1>1, <1>7, <1>9, <1>10, <1>11, <1>13, <1>14, <1>15, AnswersLeave, ZenonT(40)

(* A lost answer is unreported, or told of no write.                       *)
LEMMA WriteLostKeeps ==
  ASSUME DashboardIInv, NEW a \in answers, WriteLost(a)
  PROVE  DashboardIInv'
<1> DEFINE gone == {Id(a)}
           w == a.who
<1>0. DashboardTypes /\ AnswerAwaited /\ NewsFollows
  BY Zenon DEF DashboardIInv
<1>1. /\ a.for = "write" /\ answers' = Without(gone) /\ writes' = [writes EXCEPT ![w] = NoWrite]
      /\ UNCHANGED <<dashboardMode, serverItems, version, queries>>
      /\ unreported' = unreported \cup (IF a.says = 404 THEN {} ELSE {"lost"})
  BY Zenon DEF WriteLost
<1>2. /\ queries \in [Names -> QueryRecords] /\ writes \in [Writes -> WriteRecords]
      /\ w \in Writes /\ writes[w].at = "served" /\ Id(a) = <<"write", w>>
  BY <1>0, <1>1, Zenon DEF DashboardTypes, AnswerAwaited, Id
<1>3. NoWrite \in WriteRecords /\ NoWrite.at = "idle"
  BY DEF NoWrite, WriteRecords
<1>4. /\ dashboardMode' = dashboardMode /\ serverItems' = serverItems /\ version' = version /\ queries' = queries
      /\ (unreported' = {} => unreported = {} /\ a.says = 404)
  BY <1>1
<1>5. /\ \A v \in Writes : <<"write", v>> \notin gone => v # w
      /\ \A b \in answers : Id(b) \in gone => b = a
  BY Zenon, <1>0, <1>2 DEF AnswerAwaited
<1> HIDE DEF gone, w
<1>6. /\ writes' \in [Writes -> WriteRecords]
      /\ \A v \in Writes : v # w => writes'[v] = writes[v]
      /\ writes'[w].at \notin {"sent", "served"}
  BY Zenon, <1>1, <1>2, <1>3
<1>7. /\ \A v \in Writes : writes'[v].at \in {"sent", "served"} => writes'[v].op \in WriteOps
      /\ \A v \in Writes : writes[v].at = "served" /\ <<"write", v>> \notin gone =>
            writes'[v].at = "served" /\ writes'[v].op = writes[v].op
  <2>1. \A v \in Writes : writes[v].at \in {"sent", "served"} => writes[v].op \in WriteOps
    BY <1>0, Zenon DEF AnswerAwaited
  <2> QED
    BY <1>5, <1>6, <2>1, Zenon
<1>8. ASSUME unreported' = {}, NEW n \in LookedAfter, NEW b \in answers, News(b, n), Id(b) \in gone
      PROVE b.after = {} /\ Handled(n)'
  <2>1. a.says # 200
    BY <1>4, <1>8
  <2>2. b = a /\ b.says = 200
    BY <1>5, <1>8, Zenon DEF News
  <2> QED
    BY <2>1, <2>2, Zenon
<1>9. ASSUME unreported' = {}, NEW n \in LookedAfter, Outdated(n)'
      PROVE (\E b \in answers : News(b, n)) \/ Handled(n)'
  <2>1. Outdated(n)
    BY <1>4, <1>9, NotMoreOutdated, Zenon
  <2>2. Expected(n)
    BY <1>0, <1>4, <1>9, <2>1, Zenon DEF NewsFollows
  <2>3. ASSUME Handled(n) PROVE Handled(n)'
    <3>1. PICK v \in Writes : /\ writes[v].at = "settling"
                              /\ \E i \in DOMAIN writes[v].todo : Reaches(writes[v].todo[i], n)
      BY <2>3, Zenon DEF Handled
    <3>2. v # w
      BY Zenon, <1>2, <3>1
    <3>3. \A step : Reaches(step, n)' <=> Reaches(step, n)
      BY <1>4, Zenon DEF Reaches, Covered
    <3> QED
      BY <1>6, <3>1, <3>2, <3>3, Zenon DEF Handled
  <2> QED
    BY <2>2, <2>3, Zenon DEF Expected
<1>10. queries' \in [Names -> QueryRecords]
       /\ \A n \in Names : queries[n].fetch = "served" /\ <<"query", n>> \notin gone => queries'[n].fetch = "served"
  BY <1>2, <1>4, Zenon
<1> QED
  <2>1. UNCHANGED <<dashboardMode, serverItems, version>>
    BY Zenon, <1>4
  <2>2. unreported' = {} =>
           /\ unreported = {}
           /\ \A n \in LookedAfter :
                /\ \A b \in answers : News(b, n) /\ Id(b) \in gone => b.after = {} /\ Handled(n)'
                /\ Outdated(n)' => (\E b \in answers : News(b, n)) \/ Handled(n)'
    BY <1>4, <1>8, <1>9, Zenon
  <2> QED
    BY <1>1, <1>6, <1>7, <1>10, <2>1, <2>2, AnswersLeave, ZenonT(40)

(* A new answer comes after all that are on their way; if it brings a      *)
(* change of the server, it is the news of it.                             *)
LEMMA AnswerAdded ==
  ASSUME DashboardIInv, NEW new \in AnswerRecords, answers' = answers \cup {new},
         \A a \in answers : Id(a) # Id(new),
         UNCHANGED <<dashboardMode, unreported>>, serverItems' \in [Items -> Nat], version' \in Nat,
         queries' \in [Names -> QueryRecords], writes' \in [Writes -> WriteRecords],
         \A n \in Names : /\ queries[n].fetch = "served" => queries'[n].fetch = "served"
                          /\ queries'[n].data = queries[n].data /\ queries'[n].stale = queries[n].stale,
         \A w \in Writes : /\ writes'[w].op = writes[w].op /\ writes'[w].todo = writes[w].todo
                           /\ writes[w].at \in {"served", "settling"} => writes'[w].at = writes[w].at
                           /\ writes'[w].at \in {"sent", "served"} => writes'[w].op \in WriteOps,
         new.for = "query" => /\ new.who \in Names /\ queries'[new.who].fetch = "served"
                              /\ new.says = serverItems'[ItemOf(new.who)],
         new.for = "write" => new.who \in Writes /\ writes'[new.who].at = "served",
         \A n \in Names : \/ serverItems'[ItemOf(n)] = serverItems[ItemOf(n)]
                          \/ News(new, n)' /\ \A a \in answers : Id(a) \in new.after
  PROVE  DashboardIInv'
<1>0. DashboardTypes /\ AnswerAwaited /\ NewsFollows
  BY Zenon DEF DashboardIInv
<1>1. answers' \subseteq AnswerRecords
  BY Zenon, <1>0 DEF DashboardTypes
<1>2. DashboardTypes'
  BY <1>1, Zenon DEF DashboardTypes
<1>3. AnswerAwaited'
  <2>1. ASSUME NEW a \in answers'
        PROVE /\ a.for = "query" => a.who \in Names /\ queries'[a.who].fetch = "served"
              /\ a.for = "write" => a.who \in Writes /\ writes'[a.who].at = "served"
              /\ \A b \in answers' : Id(a) = Id(b) => a = b
    <3>1. CASE a \in answers
      BY Zenon, <1>0, <3>1 DEF AnswerAwaited
    <3>2. CASE a = new
      BY Zenon, <3>2
    <3> QED
      BY Zenon, <3>1, <3>2
  <2> QED
    BY <2>1, Zenon DEF AnswerAwaited, Id
<1>4. ASSUME NEW n, NEW b \in answers, News(b, n) PROVE News(b, n)' /\ b \in answers'
  <2>1. b.who \in Writes
    BY <1>0, <1>4, Zenon DEF News, AnswerAwaited
  <2>2. writes'[b.who].op = writes[b.who].op
    BY <2>1, Zenon
  <2> QED
    BY Zenon, <1>4, <2>2 DEF News, Touches
<1>5. LookedAfter' = LookedAfter /\ unreported' = unreported /\ dashboardMode' = dashboardMode /\ new \in answers'
  BY Zenon DEF LookedAfter
<1>6. ASSUME NEW n, Handled(n) PROVE Handled(n)'
  <2>1. PICK w \in Writes : /\ writes[w].at = "settling"
                            /\ \E i \in DOMAIN writes[w].todo : Reaches(writes[w].todo[i], n)
    BY <1>6, Zenon DEF Handled
  <2>2. writes'[w].at = "settling" /\ writes'[w].todo = writes[w].todo
    BY Zenon, <2>1
  <2>3. \A step : Reaches(step, n)' <=> Reaches(step, n)
    <3>1. dashboardMode' = dashboardMode
      BY <1>5, Zenon
    <3>2. \A k : Covered(k)' = Covered(k)
      BY <3>1, Zenon DEF Covered, isTokenSetAuthContextMode
    <3> QED
      BY <3>2, Zenon DEF Reaches
  <2> QED
    BY <2>1, <2>2, <2>3, Zenon DEF Handled
<1>7. ASSUME unreported' = {}, NEW n \in LookedAfter
      PROVE /\ Outdated(n)' => Expected(n)'
            /\ \A a \in answers' :
                 a.for = "query" /\ a.who = n /\ a.says # serverItems'[ItemOf(n)] =>
                   \E b \in answers' : News(b, n)' /\ Id(a) \in b.after
  <2>0. n \in Names /\ unreported = {}
    BY Zenon, <1>5, <1>7 DEF LookedAfter, Lists
  <2>1. CASE News(new, n)' /\ \A a \in answers : Id(a) \in new.after
    <3>1. Expected(n)'
      BY <1>5, <2>1, Zenon DEF Expected
    <3>2. ASSUME NEW a \in answers', a.for = "query", a.who = n, a.says # serverItems'[ItemOf(n)]
          PROVE a \in answers
      BY Zenon, <3>2
    <3> QED
      BY <1>5, <2>1, <3>1, <3>2, Zenon
  <2>2. CASE serverItems'[ItemOf(n)] = serverItems[ItemOf(n)]
    <3>1. Outdated(n)' => Outdated(n)
      BY Zenon, <2>0, <2>2 DEF Outdated
    <3>2. Expected(n) => Expected(n)'
      BY <1>4, <1>6, Zenon DEF Expected
    <3>3. ASSUME NEW a \in answers', a.for = "query", a.who = n, a.says # serverItems'[ItemOf(n)]
          PROVE a \in answers /\ a.says # serverItems[ItemOf(n)]
      BY Zenon, <2>2, <3>3
    <3> QED
      BY <1>0, <1>4, <1>7, <2>0, <3>1, <3>2, <3>3, Zenon DEF NewsFollows
  <2> QED
    BY <2>0, <2>1, <2>2, Zenon
<1>8. NewsFollows'
  BY <1>5, <1>7, Zenon DEF NewsFollows, Id
<1> QED
  BY <1>2, <1>3, <1>8, Zenon DEF DashboardIInv

(* The server answers a query with what it holds.                          *)
LEMMA ServeQueryKeeps ==
  ASSUME DashboardIInv, NEW n \in Names, ServeQuery(n)
  PROVE  DashboardIInv'
<1> DEFINE new == Answer("query", n, serverItems[ItemOf(n)])
<1>0. DashboardTypes /\ AnswerAwaited
  BY Zenon DEF DashboardIInv
<1>1. /\ queries[n].fetch = "sent" /\ queries' = [queries EXCEPT ![n].fetch = "served"]
      /\ answers' = answers \cup {new}
      /\ UNCHANGED <<dashboardMode, serverItems, version, writes, unreported>>
  BY Zenon DEF ServeQuery
<1>2. /\ queries \in [Names -> QueryRecords] /\ writes \in [Writes -> WriteRecords]
      /\ serverItems \in [Items -> Nat] /\ version \in Nat /\ answers \subseteq AnswerRecords
  BY <1>0, Zenon DEF DashboardTypes
<1>3. \A a \in answers : Id(a) \in AnswerIds
  BY Zenon, <1>2 DEF AnswerRecords, AnswerIds, Id
<1>4. serverItems[ItemOf(n)] \in Nat
  BY Zenon, <1>2 DEF Items, ItemOf
<1>5. new \in AnswerRecords /\ new.for = "query" /\ new.who = n /\ new.says = serverItems[ItemOf(n)]
      /\ Id(new) = <<"query", n>>
  BY Zenon, <1>3, <1>4 DEF Answer, AnswerRecords, Id
<1> HIDE DEF new
<1>6. \A a \in answers : Id(a) # Id(new)
  BY Zenon, <1>0, <1>1, <1>5 DEF AnswerAwaited, Id
<1>7. /\ queries' \in [Names -> QueryRecords] /\ queries'[n].fetch = "served"
      /\ \A m \in Names : /\ queries[m].fetch = "served" => queries'[m].fetch = "served"
                          /\ queries'[m].data = queries[m].data /\ queries'[m].stale = queries[m].stale
  BY Zenon, <1>1, <1>2 DEF QueryRecords
<1>8. serverItems' = serverItems /\ writes' = writes /\ version' = version
  BY Zenon, <1>1
<1>9. \A w \in Writes : /\ writes'[w].op = writes[w].op /\ writes'[w].todo = writes[w].todo
                        /\ writes[w].at \in {"served", "settling"} => writes'[w].at = writes[w].at
                        /\ writes'[w].at \in {"sent", "served"} => writes'[w].op \in WriteOps
  BY <1>0, <1>8, Zenon DEF AnswerAwaited
<1>10. serverItems' \in [Items -> Nat] /\ version' \in Nat /\ writes' \in [Writes -> WriteRecords]
  BY <1>2, <1>8, Zenon
<1>11. UNCHANGED <<dashboardMode, unreported>> /\ new.for # "write"
  BY Zenon, <1>1, <1>5
<1>12. new.who \in Names /\ queries'[new.who].fetch = "served" /\ new.says = serverItems'[ItemOf(new.who)]
  BY Zenon, <1>5, <1>7, <1>8
<1>13. \A m \in Names : serverItems'[ItemOf(m)] = serverItems[ItemOf(m)]
  BY <1>8, Zenon
<1> QED
  BY <1>1, <1>5, <1>6, <1>7, <1>9, <1>10, <1>11, <1>12, <1>13, AnswerAdded, ZenonT(40)

(* The server writes, and its answer is the news of that.                  *)
LEMMA ServerWritesKeeps ==
  ASSUME DashboardIInv, NEW w \in Writes, ServerWrites(w)
  PROVE  DashboardIInv'
<1> DEFINE op == writes[w].op
           t == Target(op)
           ok == Creates(op) <=> serverItems[t] = 0
           code == IF ok THEN ServerStatus(op) ELSE 404
           sent == Answer("write", w, code)
<1>0. DashboardTypes /\ AnswerAwaited
  BY Zenon DEF DashboardIInv
<1>1. /\ writes[w].at = "sent" /\ writes' = [writes EXCEPT ![w].at = "served"]
      /\ answers' = answers \cup {sent}
      /\ UNCHANGED <<dashboardMode, queries, unreported>>
      /\ IF ok
         THEN /\ version' = version + 1
              /\ serverItems' = [i \in Items |->
                   IF i = t THEN IF Deletes(op) THEN 0 ELSE version + 1
                   ELSE IF t = "group" /\ serverItems[i] # 0 THEN version + 1
                   ELSE serverItems[i]]
         ELSE UNCHANGED <<version, serverItems>>
  BY Zenon DEF ServerWrites
<1>2. /\ queries \in [Names -> QueryRecords] /\ writes \in [Writes -> WriteRecords]
      /\ serverItems \in [Items -> Nat] /\ version \in Nat /\ answers \subseteq AnswerRecords
  BY <1>0, Zenon DEF DashboardTypes
<1>3. \A a \in answers : Id(a) \in AnswerIds
  BY Zenon, <1>2 DEF AnswerRecords, AnswerIds, Id
<1>4. code \in Nat /\ (ok => code = 200)
  BY DEF ServerStatus, ServerDeleteStatus
<1> HIDE DEF ok, code, t
<1>5. PICK new \in AnswerRecords :
         /\ new = sent /\ new.for = "write" /\ new.who = w /\ new.says = code
         /\ Id(new) = <<"write", w>> /\ \A a \in answers : Id(a) \in new.after
  <2>1. sent \in AnswerRecords /\ sent.for = "write" /\ sent.who = w /\ sent.says = code
        /\ Id(sent) = <<"write", w>> /\ \A a \in answers : Id(a) \in sent.after
    <3>1. {Id(a) : a \in answers} \in SUBSET AnswerIds /\ \A a \in answers : Id(a) \in {Id(b) : b \in answers}
      BY <1>3, Zenon
    <3>2. sent = [for |-> "write", who |-> w, says |-> code, after |-> {Id(a) : a \in answers}]
      BY Zenon DEF Answer
    <3>3. "write" \in {"query", "write"} /\ w \in Names \cup Writes /\ code \in Nat
      BY <1>4, Zenon
    <3> HIDE DEF sent
    <3>4. sent \in AnswerRecords
      BY <3>1, <3>2, <3>3, Zenon DEF AnswerRecords
    <3>5. sent.for = "write" /\ sent.who = w /\ sent.says = code /\ sent.after = {Id(a) : a \in answers}
      BY <3>2, Zenon
    <3> QED
      BY <3>1, <3>4, <3>5, Zenon DEF Id
  <2> HIDE DEF sent
  <2> QED
    BY <2>1, Zenon
<1> HIDE DEF sent
<1>6. \A a \in answers : Id(a) # Id(new)
  BY Zenon, <1>0, <1>1, <1>5 DEF AnswerAwaited, Id
<1>7. /\ writes' \in [Writes -> WriteRecords] /\ writes'[w].at = "served"
      /\ \A v \in Writes : /\ writes'[v].op = writes[v].op /\ writes'[v].todo = writes[v].todo
                           /\ writes[v].at \in {"served", "settling"} => writes'[v].at = writes[v].at
                           /\ writes'[v].at \in {"sent", "served"} => writes[v].at \in {"sent", "served"}
  <2> HIDE DEF op
  <2> QED
    BY Zenon, <1>1, <1>2 DEF WriteRecords
<1>8. serverItems' \in [Items -> Nat] /\ version' \in Nat
  <2> HIDE DEF op
  <2> QED
    BY <1>1, <1>2
<1>9. \A v \in Writes : /\ writes'[v].op = writes[v].op /\ writes'[v].todo = writes[v].todo
                        /\ writes[v].at \in {"served", "settling"} => writes'[v].at = writes[v].at
                        /\ writes'[v].at \in {"sent", "served"} => writes'[v].op \in WriteOps
  <2>1. \A v \in Writes : writes[v].at \in {"sent", "served"} => writes[v].op \in WriteOps
    BY <1>0, Zenon DEF AnswerAwaited
  <2> QED
    BY <1>7, <2>1, Zenon
<1>10. queries' = queries /\ UNCHANGED <<dashboardMode, unreported>> /\ new.for # "query"
  BY Zenon, <1>1, <1>5
<1>11. ASSUME NEW n \in Names, serverItems'[ItemOf(n)] # serverItems[ItemOf(n)] PROVE News(new, n)'
  <2>1. ItemOf(n) \in Items
    BY Zenon DEF Items, ItemOf
  <2> HIDE DEF op
  <2>2. ok
    BY Zenon, <1>1, <1>11
  <2>3. ItemOf(n) = t \/ t = "group"
    BY Zenon, <1>1, <1>11, <2>1, <2>2
  <2>4. Touches(op, n)
    BY <2>3, Zenon DEF Touches, t
  <2>5. writes'[w].op = op
    BY <1>7, Zenon DEF op
  <2> QED
    BY <1>4, <1>5, <2>2, <2>4, <2>5, Zenon DEF News, Touches
<1>12. \A n \in Names : \/ serverItems'[ItemOf(n)] = serverItems[ItemOf(n)]
                        \/ News(new, n)' /\ \A a \in answers : Id(a) \in new.after
  BY <1>5, <1>11, Zenon
<1>13. new.who \in Writes /\ writes'[new.who].at = "served"
  BY Zenon, <1>5, <1>7
<1>14. queries' \in [Names -> QueryRecords]
       /\ \A n \in Names : /\ queries[n].fetch = "served" => queries'[n].fetch = "served"
                           /\ queries'[n].data = queries[n].data /\ queries'[n].stale = queries[n].stale
  BY <1>2, <1>10, Zenon
<1> QED
  BY <1>1, <1>5, <1>6, <1>7, <1>8, <1>9, <1>10, <1>12, <1>13, <1>14, AnswerAdded, ZenonT(40)

(* FreshQueriesAreCurrent holds for all pages, modes, numbers of writes    *)
(* and mutations, when answers arrive in the order the server gave them.   *)
THEOREM FreshQueriesStayCurrent ==
  ASSUME InOrder
  PROVE  DashboardSpec => []FreshQueriesAreCurrent
<1>1. DashboardInit => DashboardIInv
  <2> SUFFICES ASSUME DashboardInit PROVE DashboardIInv
    BY Zenon
  <2>1. DashboardTypes
    <3>1. /\ serverItems = [i \in Items |-> 0] /\ version = 0 /\ answers = {}
          /\ queries = [n \in Names |-> NoQuery] /\ writes = [w \in Writes |-> NoWrite]
      BY Zenon DEF DashboardInit
    <3>2. 0 \in Nat /\ << >> \in Seq(StepRecords)
      OBVIOUS
    <3>3. NoQuery \in QueryRecords
      BY Zenon DEF NoQuery, QueryRecords
    <3>4. NoWrite \in WriteRecords
      BY <3>2, Zenon DEF NoWrite, WriteRecords
    <3> QED
      BY <3>1, <3>2, <3>3, <3>4, Zenon DEF DashboardTypes
  <2>2. AnswerAwaited
    BY Zenon DEF DashboardInit, AnswerAwaited, NoWrite
  <2>3. NewsFollows
    BY Zenon DEF DashboardInit, NewsFollows, Outdated, NoQuery, LookedAfter, Lists
  <2> QED
    BY <2>1, <2>2, <2>3, Zenon DEF DashboardIInv
<1>2. DashboardIInv /\ [DashboardNext]_dashboardVars => DashboardIInv'
  <2> SUFFICES ASSUME DashboardIInv, [DashboardNext]_dashboardVars PROVE DashboardIInv'
    BY Zenon
  <2>1. CASE UNCHANGED dashboardVars
    <3>1. /\ UNCHANGED <<dashboardMode, serverItems, version, writes, unreported>>
          /\ queries' = queries /\ answers' = answers
      BY <2>1, Zenon DEF dashboardVars
    <3>2. DashboardTypes /\ queries' \in [Names -> QueryRecords]
      BY <3>1, Zenon DEF DashboardIInv, DashboardTypes
    <3>3. answers' = Kept({}) /\ {} \in SUBSET Names
      BY Zenon, <3>1, <3>2, NothingDropped
    <3>4. \A n \in Names : /\ queries[n].fetch = "served" /\ n \notin {} => queries'[n].fetch = "served"
                           /\ Outdated(n)' => Outdated(n)
      BY <3>1, Zenon DEF Outdated
    <3> QED
      BY <3>1, <3>2, <3>3, <3>4, CacheStep, Zenon
  <2>2. CASE DashboardNext
    <3>1. ASSUME NEW n \in Names, useQuery(n) \/ Unmount(n) \/ StaleTime(n) \/ ServeQuery(n)
          PROVE DashboardIInv'
      BY <3>1, UseQueryKeeps, UnmountKeeps, StaleTimeKeeps, ServeQueryKeeps, Zenon
    <3>2. ASSUME NEW a \in answers, QueryAnswers(a) \/ WriteAnswers(a) \/ WriteLost(a)
          PROVE DashboardIInv'
      BY <3>2, QueryAnswersKeeps, WriteAnswersKeeps, WriteLostKeeps, Zenon
    <3>3. ASSUME NEW w \in Writes, \/ \E op \in WriteOps : mutationFn(w, op)
                                   \/ ServerWrites(w) \/ onSuccess(w) \/ MutationSettles(w)
          PROVE DashboardIInv'
      BY <3>3, MutationFnKeeps, ServerWritesKeeps, OnSuccessKeeps, MutationSettlesKeeps, Zenon
    <3> QED
      BY <2>2, <3>1, <3>2, <3>3, HeaderKeeps, LogoutKeeps, Zenon DEF DashboardNext
  <2> QED
    BY <2>1, <2>2, Zenon
<1>3. DashboardIInv => FreshQueriesAreCurrent
  <2> SUFFICES ASSUME DashboardIInv, unreported = {}, NEW n \in LookedAfter, Settled(n), Outdated(n)
               PROVE FALSE
    BY Zenon DEF FreshQueriesAreCurrent
  <2>1. Expected(n) /\ AnswerAwaited
    BY Zenon DEF DashboardIInv, NewsFollows
  <2>2. \A w \in Writes : writes[w].at = "idle"
    BY Zenon DEF Settled
  <2>3. \A w \in Writes : writes[w].at # "served" /\ writes[w].at # "settling"
    BY Zenon, <2>2
  <2>4. ~Handled(n)
    BY <2>3, Zenon DEF Handled
  <2>5. PICK b \in answers : News(b, n)
    BY <2>1, <2>4, Zenon DEF Expected
  <2>6. b.who \in Writes /\ writes[b.who].at = "served"
    BY <2>1, <2>5, Zenon DEF News, AnswerAwaited
  <2> QED
    BY <2>3, <2>6, Zenon
<1> QED
  BY <1>1, <1>2, <1>3, PTL DEF DashboardSpec
=============================================================================
