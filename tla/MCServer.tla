------------------------------ MODULE MCServer ------------------------------
(***************************************************************************)
(* The server on small instances: its sign-ins, the requests it decides    *)
(* about, the bearer propagation of the library, and the two caches that   *)
(* other systems fill: the provider metadata, refreshed by the calls that  *)
(* need it, and the real-ip registry, refreshed by tasks.  They share      *)
(* nothing but the sessions, which RequestAuth opens and ends by itself,   *)
(* so a behaviour runs one of them.                                        *)
(***************************************************************************)
EXTENDS ServerLogin, RequestAuth, TokenVerifier, Realip, TLC

CONSTANTS s1, s2, r1, r2, good, bad      \* sign-ins
CONSTANTS q1, q2, c1, g1, g2, e1, e2, ops, dev, alice, bob    \* requests
CONSTANTS n1, n2, web, lan, loop         \* propagation
CONSTANTS v1, v2, k1, k2, u1, u2, edge, pool, near, far, user     \* caches

VARIABLE active     \* which of them this behaviour runs

MCLogins == {s1, s2}
MCRequests == {r1, r2}
MCTargets == {good, bad}
MCAllowed == {good}

MCSlots == {q1, q2}
MCCookies == {c1}

Entry(kind, name, groups) ==
    [kind |-> kind, name |-> name, group_ids |-> groups, updated_at |-> 0]

MCInitialSnapshot ==
    [groups |-> (g1 :> ops @@ g2 :> None),
     entries |-> (e1 :> Entry("basic", alice, {g1}) @@ e2 :> Entry("token", bob, {}))]

(* A service that any rule allows, an address that needs the network rule, *)
(* and one that is sensitive and has none.                                 *)
Allow(kind, covers) == [kind |-> kind, scheme |-> "https", port |-> 443, covers |-> covers]
MCAllowedTargets == {Allow("domain_suffix", {web}), Allow("cidr", {lan})}
Complete(node, host, port) == [node |-> node, scheme |-> "https", host |-> host, port |-> port]
NodeOnly(node) == [node |-> node, host |-> Absent]
MCRequestTargets ==
    {Complete(Absent, web, Absent), Complete(n1, loop, 443), Complete(n1, web, 8443),
     NodeOnly(n1), NodeOnly(n2)}
To(host) == [scheme |-> "https", host |-> host, port |-> 443]
MCResolvers == {(n1 :> To(web) @@ n2 :> To(lan)), (n1 :> To(loop) @@ n2 :> Absent)}
Facts(scopes) == [issuer |-> "idp", audiences |-> {"api"}, scopes |-> scopes, azp |-> "spa"]
MCPrincipals == {Facts({"read"}), Facts({})}

Req(route, authorization, cookie, directive, asks) ==
    [route |-> route, authorization |-> authorization, cookie |-> cookie,
     directive |-> directive, asks |-> asks]

MCIncoming ==
    {Req("api", "none", c1, Absent, [op |-> "update_group", id |-> g1, name |-> dev, entry_ids |-> None]),
     Req("api", "bearer", None, Absent, [op |-> "delete_group", id |-> g1]),
     Req("api", "basic", c1, Complete(Absent, web, Absent), [op |-> "delete_entry", id |-> e1]),
     Req("api", "other", None, Malformed, [op |-> "delete_entry", id |-> e1]),
     Req("basic_api", "basic", None, Absent,
         [op |-> "create_group", id |-> g2, name |-> ops, entry_ids |-> {e1, e2}]),
     Req("basic_api", "basic", None, Absent,
         [op |-> "update_entry", id |-> e2, name |-> None, group_ids |-> {g1}]),
     Req("basic_api", "none", None, Complete(Absent, web, Absent), [op |-> "delete_entry", id |-> e1]),
     Req("propagation", "bearer", c1, Complete(Absent, web, Absent), None),
     Req("propagation", "bearer", None, Absent, None),
     Req("propagation", "none", c1, Complete(n1, loop, 443), None),
     Req("forward_auth", "basic", None, Absent, [group |-> ops, entry |-> e1]),
     Req("forward_auth", "bearer", None, Absent, [group |-> ops, entry |-> e2])}

MCCalls == {v1, v2}
MCKids == {k1, k2}
MCKeySets == {{k1}, {k1, k2}}
MCUris == {u1, u2}

MCProviders == {edge, pool}
MCClearOnFailure == {pool}
MCIps == {near, far, user}
MCLists == {{}, {near}, {near, far}}
MCResolutions == {r1}

MCHeaderKinds == {"x-forwarded-for", "x-real-ip"}
MCChainKinds == {"x-forwarded-for"}

Header(kind, mode, direction, only) ==
    [kind |-> kind, mode |-> mode, direction |-> direction, onlyIfNotTrusted |-> only]

(* One source that reads headers only, and one before it that prefers the  *)
(* transport.                                                              *)
MCSources ==
    <<[priority |-> 1, peersFrom |-> <<edge>>, acceptTransport |-> FALSE,
       acceptHeaders |-> <<Header("x-real-ip", "single", "right-to-left", TRUE),
                           Header("x-forwarded-for", "recursive", "right-to-left", FALSE)>>],
      [priority |-> 2, peersFrom |-> <<pool, edge>>, acceptTransport |-> TRUE,
       acceptHeaders |-> <<Header("x-real-ip", "recursive", "left-to-right", FALSE),
                           Header("x-forwarded-for", "recursive", "left-to-right", TRUE)>>]>>

MCInputs ==
    {[peer |-> peer, proxy |-> proxy,
      headers |-> ("x-real-ip" :> header @@ "x-forwarded-for" :> chain)] :
       peer \in {near, far}, proxy \in {user, NoIp}, header \in {<<far>>, <<user, near>>},
       chain \in {<<>>, <<user, far>>, <<far, Junk, near>>, <<far, user, near>>}}

MCSymmetry ==
    Permutations(MCLogins) \cup Permutations(MCRequests) \cup Permutations(MCSlots)
    \cup Permutations(MCCalls)

cacheVars == <<runtimeVars, realipVars>>

ServerInit ==
    /\ Init /\ RequestInit /\ VerifierInit /\ RealipInit
    /\ active \in {"login", "request", "propagation", "verifier", "realip"}
    /\ active # "propagation" => resolver = Absent
    /\ active # "verifier" => served = [u \in MCUris |-> {k1}]
    /\ active # "realip" => published = [p \in MCProviders |-> {near}]

ServerNext ==
    /\ UNCHANGED active
    /\ \/ active = "login" /\ Next /\ UNCHANGED <<requestVars, cacheVars>>
       \/ active = "request" /\ RequestNext /\ UNCHANGED <<vars, cacheVars>>
       \/ active = "propagation" /\ PropagationNext
            /\ UNCHANGED <<vars, snapshot, drawn, live, request, seen, cacheVars>>
       \/ active = "verifier" /\ VerifierNext /\ UNCHANGED <<vars, requestVars, realipVars>>
       \/ active = "realip" /\ RealipNext /\ UNCHANGED <<vars, requestVars, runtimeVars>>

ServerSpec == ServerInit /\ [][ServerNext]_<<active, vars, requestVars, cacheVars>>
=============================================================================
