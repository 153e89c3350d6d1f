---------------------------- MODULE MCBrowserApp ----------------------------
(***************************************************************************)
(* What runs in the browser of a frontend-mode application, and the other  *)
(* ways to be signed in to one, on small instances: the client, the        *)
(* sources of its configuration, its discovery, the facade that shares it  *)
(* between tabs, the reconciliation of resumed pages; the session context  *)
(* and the basic-auth zones; the signals, the environments and the         *)
(* framework adapters beneath them.  A behaviour runs one of them.         *)
(***************************************************************************)
EXTENDS OidcModeClient, ConfigSources, FrontendDiscovery, FrontendHost, PageResume,
        SessionContext, BasicZones, Signals, EnvironmentService, FrameworkAdapters, TLC

CONSTANTS c1, p1, p2

VARIABLE active     \* which of them this behaviour runs

OneCall == {c1}
ShortOrNone == {None, 4}

\* Projections of three ages, one that lacks a field and one with a field of
\* the wrong type; a page whose bootstrap script holds such a one.
Good(t) == [missing |-> {}, malformed |-> {}, generatedAt |-> t]
MCProjections ==
    {Good(0), Good(1), Good(2), [Good(1) EXCEPT !.missing = {"clientId"}],
     [Good(0) EXCEPT !.malformed = {"scopes"}]}
MCSources ==
    (p1 :> <<"bootstrap_script", "persisted", "network">>
     @@ p2 :> <<"network", "persisted", "inline">>)
MCBootstraps == (p1 :> [Good(0) EXCEPT !.malformed = {"scopes"}] @@ p2 :> Absent)

MCIssuer == [path |-> "realm", slash |-> FALSE]
MCPublished == {{"authorization", "token"}, {"authorization", "token", "userinfo"}}

\* Nested zones, a zone apart, and a path that shares letters with a zone.
MCZones == << <<"basic">>, <<"basic", "admin">>, <<"ops">> >>
MCPaths ==
    {<<"home">>, <<"basic">>, <<"basicx">>, <<"basic", "x">>,
     <<"basic", "admin">>, <<"basic", "admin", "x">>, <<"ops", "x">>}

pageParts == <<configVars, discoveryVars, hostVars, resumeVars>>
contextParts == <<sessionVars, basicVars>>
sdkParts == <<signalVars, envVars, adapterVars>>

\* The parts that do not run stay in one of their initial states.
BrowserAppInit ==
    /\ Init /\ ConfigInit /\ DiscoveryInit /\ HostInit /\ ResumeInit
    /\ SessionInit /\ BasicInit /\ SignalsInit /\ EnvironmentInit /\ AdapterInit
    /\ active \in {"client", "config", "discovery", "host", "resume", "session", "basic",
                   "signals", "environment", "adapters"}
    /\ active # "client" => disk = None
    /\ active # "discovery" => configured = {"userinfo"}
    /\ active # "resume" =>
         listensTo = createVisibilityReconciler /\ page.state = "hidden" /\ issuedAt = -1
    /\ active # "session" => ~cookie
    /\ active # "basic" => visited = <<"home">>

PagePartNext ==
    \/ active = "config" /\ ConfigNext /\ UNCHANGED <<discoveryVars, hostVars, resumeVars>>
    \/ active = "discovery" /\ DiscoveryNext /\ UNCHANGED <<configVars, hostVars, resumeVars>>
    \/ active = "host" /\ HostNext /\ UNCHANGED <<configVars, discoveryVars, resumeVars>>
    \/ active = "resume" /\ ResumeNext /\ UNCHANGED <<configVars, discoveryVars, hostVars>>

ContextPartNext ==
    \/ active = "session" /\ SessionNext /\ UNCHANGED basicVars
    \/ active = "basic" /\ BasicNext /\ UNCHANGED sessionVars

SdkPartNext ==
    \/ active = "signals" /\ SignalsNext /\ UNCHANGED <<envVars, adapterVars>>
    \/ active = "environment" /\ EnvironmentNext /\ UNCHANGED <<signalVars, adapterVars>>
    \/ active = "adapters" /\ AdapterNext /\ UNCHANGED <<signalVars, envVars>>

\* The calls of a page are bounded, so these parts may come to rest.
MayRest == {"discovery", "host", "resume", "signals", "environment"}

BrowserAppNext ==
    /\ UNCHANGED active
    /\ \/ active = "client" /\ Next /\ UNCHANGED <<pageParts, contextParts, sdkParts>>
       \/ PagePartNext /\ UNCHANGED <<vars, contextParts, sdkParts>>
       \/ ContextPartNext /\ UNCHANGED <<vars, pageParts, sdkParts>>
       \/ SdkPartNext /\ UNCHANGED <<vars, pageParts, contextParts>>
       \/ active \in MayRest /\ UNCHANGED <<vars, pageParts, contextParts, sdkParts>>

BrowserAppSpec ==
    BrowserAppInit /\ [][BrowserAppNext]_<<active, vars, pageParts, contextParts, sdkParts>>
=============================================================================
