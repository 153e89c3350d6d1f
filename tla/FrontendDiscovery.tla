------------------------- MODULE FrontendDiscovery -------------------------
(***************************************************************************)
(* How a frontend OIDC client comes to know its provider: discovery by the *)
(* calls that need it, the interval that repeats it, the endpoints that    *)
(* the configuration overrides, and issuers that differ in their trailing  *)
(* slash.                                                                  *)
(***************************************************************************)
EXTENDS Naturals

CONSTANTS
    DiscoveryCalls,      \* calls that may overlap
    Configurations,      \* the sets of endpoints that configurations name
    PublishedEndpoints,  \* the endpoints that discovery documents may name
    ConfiguredIssuer,    \* an issuer: its path and whether it ends in a slash
    PublishedIssuers     \* the issuers that discovery documents may name

ProviderEndpoints == {"authorization", "token", "userinfo"}
Issuers == [path : {"", "realm", "other"}, slash : BOOLEAN]

ASSUME DiscoveryAssumption ==
    /\ Configurations \subseteq SUBSET ProviderEndpoints
    /\ PublishedEndpoints \subseteq SUBSET ProviderEndpoints
    /\ ConfiguredIssuer \in Issuers /\ PublishedIssuers \subseteq Issuers

VARIABLES
    configured,       \* _config: the endpoints that the configuration names
    authServer,       \* _authServer: the endpoints and the issuer, or Unknown
    metadataRefresh,  \* _metadataRefreshHandle: armed or not
    discoveries,      \* the calls that wait for discovery; "timer" is the interval's
    clientDisposed

discoveryVars == <<configured, authServer, metadataRefresh, discoveries, clientDisposed>>

Unknown == [issuer |-> ConfiguredIssuer, endpoints |-> {}]

DiscoveryInit ==
    /\ configured \in Configurations
    /\ authServer = Unknown
    /\ metadataRefresh = FALSE
    /\ discoveries = {}
    /\ clientDisposed = FALSE

-----------------------------------------------------------------------------
(* An issuer with a path is also looked for with, or without, its slash.   *)
buildIssuerDiscoveryCandidates(issuer) ==
    {issuer} \cup IF issuer.path = "" THEN {} ELSE {[issuer EXCEPT !.slash = ~@]}

(* The issuer that the document must name.                                 *)
resolveDiscoveryIssuerCompatibility(published) ==
    IF published \in buildIssuerDiscoveryCandidates(ConfiguredIssuer)
    THEN published ELSE ConfiguredIssuer

_canConstructManually == {"authorization", "token"} \subseteq configured

_constructManualAuthServer == [issuer |-> ConfiguredIssuer, endpoints |-> configured]

_applyEndpointOverrides(published, issuer) ==
    [issuer |-> issuer, endpoints |-> published \cup configured]

(* A call that needs the provider; the user info call has tokens.          *)
_ensureAuthServer(call) ==
    /\ ~clientDisposed
    /\ authServer = Unknown /\ call \notin discoveries
    /\ IF _canConstructManually
       THEN authServer' = _constructManualAuthServer /\ UNCHANGED discoveries
       ELSE discoveries' = discoveries \cup {call} /\ UNCHANGED authServer
    /\ UNCHANGED <<configured, metadataRefresh, clientDisposed>>

(* discover may also be called for its own sake.                           *)
discover(call) ==
    /\ call \notin discoveries
    /\ discoveries' = discoveries \cup {call}
    /\ UNCHANGED <<configured, authServer, metadataRefresh, clientDisposed>>

(* The answer arms the interval anew, also when the client was disposed    *)
(* while it was awaited.                                                   *)
DiscoveryAnswers(call, published, issuer) ==
    /\ call \in discoveries
    /\ discoveries' = discoveries \ {call}
    /\ issuer = resolveDiscoveryIssuerCompatibility(issuer)
    /\ authServer' = _applyEndpointOverrides(published, issuer)
    /\ metadataRefresh' = TRUE
    /\ UNCHANGED <<configured, clientDisposed>>

(* No answer, no document, or the document of another issuer.              *)
DiscoveryFails_Disarms(call) ==
    /\ call \in discoveries
    /\ discoveries' = discoveries \ {call}
    /\ metadataRefresh' = (metadataRefresh /\ call # "timer")
    /\ UNCHANGED <<configured, authServer, clientDisposed>>

DiscoveryFails(call) ==
    /\ call \in discoveries
    /\ discoveries' = discoveries \ {call}
    /\ UNCHANGED <<configured, authServer, metadataRefresh, clientDisposed>>

_scheduleMetadataRefresh ==
    /\ metadataRefresh /\ ~clientDisposed
    /\ discoveries' = discoveries \cup {"timer"}
    /\ UNCHANGED <<configured, authServer, metadataRefresh, clientDisposed>>

_cancelMetadataRefresh ==
    /\ ~clientDisposed
    /\ clientDisposed' = TRUE
    /\ metadataRefresh' = FALSE
    /\ UNCHANGED <<configured, authServer, discoveries>>

DiscoveryNext ==
    \/ \E call \in DiscoveryCalls : _ensureAuthServer(call) \/ discover(call)
    \/ \E call \in DiscoveryCalls \cup {"timer"} :
         \/ \E published \in PublishedEndpoints, issuer \in PublishedIssuers :
              DiscoveryAnswers(call, published, issuer)
         \/ DiscoveryFails(call)
    \/ _scheduleMetadataRefresh
    \/ _cancelMetadataRefresh

DiscoverySpec == DiscoveryInit /\ [][DiscoveryNext]_discoveryVars

-----------------------------------------------------------------------------
(* Properties                                                              *)

(* Once a live client has discovered its provider it goes on looking: the  *)
(* interval survives failed refreshes and overlapping discoveries; and the *)
(* provider it uses is its own, with the endpoints its configuration says. *)
DiscoveryIsKeptUp ==
    /\ authServer # Unknown => /\ configured \subseteq authServer.endpoints
                               /\ authServer.issuer \in buildIssuerDiscoveryCandidates(ConfiguredIssuer)
    /\ authServer # Unknown /\ authServer # _constructManualAuthServer /\ ~clientDisposed
         => metadataRefresh

=============================================================================
