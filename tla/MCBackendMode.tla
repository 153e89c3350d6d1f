--------------------------- MODULE MCBackendMode ---------------------------
(***************************************************************************)
(* The backend mode of the token set on small instances: the client, the   *)
(* page that captures its callback fragments, the requests that use its    *)
(* tokens, the cancellation of these requests, the playground page of the  *)
(* web interface, and the dashboard: its guarded pages and its data.       *)
(* They share nothing but values, so a behaviour runs one of them.         *)
(***************************************************************************)
EXTENDS OidcModeClient, BackendBrowser, TokenUse, Cancellation, BackendPlayground,
        WebuiAccess, DashboardData, TLC

CONSTANTS c1, c2

VARIABLE active     \* which of them this behaviour runs

MCCalls == {c1, c2}
CallSymmetry == Permutations(MCCalls)
ShortOrNone == {None, 4}

\* One URL that a pattern of the second client matches, one that none does.
MCMatches == [u2 |-> {"b"}, other |-> {}]

allVars == <<vars, browserVars, useVars, cancelVars, pageVars, accessVars, dashboardVars>>

BackendModeInit ==
    /\ Init /\ BrowserInit /\ UseInit /\ CancelInit
    /\ PlaygroundInit /\ AccessInit /\ DashboardInit
    /\ active \in {"client", "browser", "use", "cancellation", "playground",
                   "access", "dashboard"}
    /\ active # "client" => disk = None
    /\ active # "use" => strictUrlMatch
    /\ active # "access" => mode = {} /\ held = {}
    /\ active # "dashboard" => dashboardMode = "session"

\* The calls of a page are bounded, so these parts may come to rest.
MayRest == {"use", "cancellation", "playground", "dashboard"}

BackendModeNext ==
    /\ UNCHANGED active
    /\ \/ active = "client" /\ Next
            /\ UNCHANGED <<browserVars, useVars, cancelVars, pageVars, accessVars, dashboardVars>>
       \/ active = "browser" /\ BrowserNext
            /\ UNCHANGED <<vars, useVars, cancelVars, pageVars, accessVars, dashboardVars>>
       \/ active = "use" /\ UseNext
            /\ UNCHANGED <<vars, browserVars, cancelVars, pageVars, accessVars, dashboardVars>>
       \/ active = "cancellation" /\ CancelNext
            /\ UNCHANGED <<vars, browserVars, useVars, pageVars, accessVars, dashboardVars>>
       \/ active = "playground" /\ PlaygroundNext
            /\ UNCHANGED <<vars, browserVars, useVars, cancelVars, accessVars, dashboardVars>>
       \/ active = "access" /\ AccessNext
            /\ UNCHANGED <<vars, browserVars, useVars, cancelVars, pageVars, dashboardVars>>
       \/ active = "dashboard" /\ DashboardNext
            /\ UNCHANGED <<vars, browserVars, useVars, cancelVars, pageVars, accessVars>>
       \/ active \in MayRest /\ UNCHANGED allVars

BackendModeSpec == BackendModeInit /\ [][BackendModeNext]_<<active, allVars>>
=============================================================================
