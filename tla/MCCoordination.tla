--------------------------- MODULE MCCoordination ---------------------------
(***************************************************************************)
(* The parts of the client SDK that coordinate a page, on small instances: *)
(* the registry with the callback resume controller, the route             *)
(* orchestrator, the web router and the guards of the frameworks' routers. *)
(* They share nothing, so a behaviour runs one of them.                    *)
(***************************************************************************)
EXTENDS CallbackResume, RouteOrchestrator, WebRouter, RouteGuards

CONSTANTS k1, k2, cb

VARIABLE active     \* which of them this behaviour runs

MCKeys == {k1, k2}
MCUrls == {cb}

\* A lazy client with an asynchronous factory and a primary client with a
\* synchronous one; both claim the callback path.
MCEntries ==
    {[key |-> k1, lazy |-> TRUE, async |-> TRUE, labels |-> {cb}],
     [key |-> k2, lazy |-> FALSE, async |-> FALSE, labels |-> {cb}]}

\* Chains that share a prefix, that differ in a kind only, in a node only,
\* one that declares an id twice;
\* an empty chain, and one without requirements.
Needs(id, kind) == [id |-> id, kind |-> kind]
MCChains ==
    {[route |-> NoRoute, nodes |-> << >>],
     [route |-> "public", nodes |-> << << >> >>],
     [route |-> "home", nodes |-> <<<<Needs("a", "session")>>>>],
     [route |-> "twice", nodes |-> <<<<Needs("a", "session")>>, <<Needs("b", "oidc"), Needs("a", "oidc")>>>>],
     [route |-> "basic", nodes |-> <<<<Needs("a", "session")>>, <<Needs("b", "basic")>>>>],
     [route |-> "flat", nodes |-> <<<<Needs("a", "session"), Needs("b", "oidc")>>, << >>>>]}

\* A page whose leaf drops its parent's requirements, and one where the client
\* of a requirement changes on the way down.
Option(id, client) == [id |-> id, client |-> client]
Segment(composition, requirements) ==
    [composition |-> composition, requirements |-> requirements]
MCPages == {"open", "deep"}
MCRoutes ==
    [u \in MCPages |->
        IF u = "open"
        THEN <<Segment("merge", {Option("user", "x")}), Segment("replace", {})>>
        ELSE <<Segment("replace", {Option("user", "x")}),
               Segment("merge", {Option("user", "y"), Option("admin", "x")}),
               Segment("inherit", {Option("extra", "x")}),
               Segment("merge", {Option("admin", "y")})>>]

\* Chains for the frameworks' guards: open, merged, inherited from a parent
\* with a requirement that nobody is registered for, replaced under an unknown
\* host, and one whose child moves a requirement to two clients.
GuardSegment(c, h, reqs) == [composition |-> c, host |-> h, requirements |-> reqs]
MCGuardChains ==
    {<<GuardSegment("none", "none", <<>>)>>,
     <<GuardSegment("none", "main", <<Needs("user", "session")>>),
       GuardSegment("merge", "none", <<Needs("admin", "oidc")>>)>>,
     <<GuardSegment("merge", "none", <<Needs("user", "session"), Needs("data", "api")>>),
       GuardSegment("inherit", "none", <<Needs("other", "oidc")>>)>>,
     <<GuardSegment("merge", "none", <<Needs("user", "session")>>),
       GuardSegment("replace", "gone", <<Needs("user", "oidc")>>)>>,
     <<GuardSegment("merge", "none", <<Needs("user", "session")>>),
       GuardSegment("merge", "main", <<Needs("user", "both")>>)>>}
MCClientsFor == [session |-> {"s"}, oidc |-> {"o"}, both |-> {"s", "o"}, api |-> {}]
MCHandlerOf == [session |-> "path", oidc |-> "login", both |-> "true", api |-> "none"]

CoordinationInit ==
    /\ ResumeInit /\ OrchestratorInit /\ RouterInit /\ GuardInit
    /\ active \in {"registry", "orchestrator", "router", "guards"}
    /\ active # "router" => adapter = "history" /\ location = "open"

\* A navigation runs its guards once, so these may come to rest.
CoordinationNext ==
    /\ UNCHANGED active
    /\ \/ active = "registry" /\ ResumeNext
            /\ UNCHANGED <<orchestratorVars, routerVars, guardVars>>
       \/ active = "orchestrator" /\ OrchestratorNext
            /\ UNCHANGED <<vars, routerVars, guardVars>>
       \/ active = "router" /\ RouterNext
            /\ UNCHANGED <<vars, orchestratorVars, guardVars>>
       \/ active = "guards" /\ GuardNext
            /\ UNCHANGED <<vars, orchestratorVars, routerVars>>
       \/ active = "guards"
            /\ UNCHANGED <<vars, orchestratorVars, routerVars, guardVars>>

CoordinationSpec ==
    /\ CoordinationInit
    /\ [][CoordinationNext]_<<active, vars, orchestratorVars, routerVars, guardVars>>
    /\ ResumeFairness
=============================================================================
