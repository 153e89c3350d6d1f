---------------------------- MODULE Propagation ----------------------------
(***************************************************************************)
(* Bearer propagation of packages/token-set-context: the policy of a       *)
(* TokenPropagator, and the forwarding of a request to another service     *)
(* with the caller's access token.                                         *)
(*                                                                         *)
(* An origin is a scheme, a host and a port.  What a rule's name, suffix,  *)
(* expression or network matches is the set of hosts it covers.            *)
(***************************************************************************)
EXTENDS Naturals

CONSTANTS
    Forwards,         \* the propagations that may be in flight together
    Nodes,            \* the node ids
    Hosts,            \* the hosts that pass validate_host
    IpHosts,          \* those that are IP literals
    SensitiveHosts,   \* those is_sensitive_ip_literal names
    DefaultPolicy,    \* default_policy
    AllowedNodeIds, AllowedTargets, DenySensitive,    \* destination_policy
    RequiredIssuers, AllowedAudiences, RequiredScopes, AllowedAzp, \* token_validation
    Principals,       \* the facts that verified tokens may carry
    RequestTargets,   \* the targets of directives and of library calls
    Resolvers,        \* the node target resolvers the host may install
    Absent            \* Option::None

Schemes == {"https", "http"}

AllowedPropagationTarget ==
    [kind : {"exact_origin", "domain_suffix", "domain_regex", "cidr"},
     scheme : Schemes, port : Nat \ {0}, covers : SUBSET Hosts]

Origin == [scheme : Schemes, host : Hosts, port : Nat]

(* A resolver answers with an origin or does not know the node.            *)
ASSUME PropagationAssumption ==
    /\ SensitiveHosts \subseteq IpHosts /\ IpHosts \subseteq Hosts
    /\ AllowedNodeIds \subseteq Nodes
    /\ AllowedTargets \subseteq AllowedPropagationTarget
    /\ DenySensitive \in BOOLEAN
    /\ DefaultPolicy \in {"validate_then_forward", "exchange_for_downstream_token"}
    /\ Resolvers \subseteq [Nodes -> Origin \cup {Absent}]
    /\ \A t \in RequestTargets :
         /\ t.node \in Nodes \cup {Absent}
         /\ t.host \in Hosts \cup {Absent}
         /\ t.host # Absent => t.scheme \in Schemes /\ t.port \in Nat \cup {Absent}
    /\ Absent \notin Nodes \cup Hosts \cup Nat \cup Origin \cup Resolvers

VARIABLES
    resolver,   \* node_target_resolver
    forward     \* what each propagation is doing

propagationVars == <<resolver, forward>>

Waiting == [pc |-> "waiting"]

default_port(scheme) == IF scheme = "https" THEN 443 ELSE 80

(* resolve_target: a target with a host is taken as it is, one with only a *)
(* node is looked up.  Absent stands for each of its errors.               *)
resolve_target(target) ==
    IF target.host # Absent
    THEN [scheme |-> target.scheme, host |-> target.host,
          port |-> IF target.port = Absent THEN default_port(target.scheme) ELSE target.port]
    ELSE IF target.node = Absent \/ resolver = Absent THEN Absent
    ELSE resolver[target.node]

(* A rule for names does not match an IP literal, a network nothing else.  *)
match_allowed_target(rule, origin) ==
    /\ rule.scheme = origin.scheme /\ rule.port = origin.port
    /\ origin.host \in rule.covers
    /\ rule.kind \in {"domain_suffix", "domain_regex"} => origin.host \notin IpHosts
    /\ rule.kind = "cidr" => origin.host \in IpHosts

validate_destination_NodeOverrides(node, origin) ==
    /\ origin # Absent /\ origin.port # 0
    /\ node \in AllowedNodeIds
         \/ \E rule \in AllowedTargets : match_allowed_target(rule, origin)

(* A sensitive address needs a network rule of its own, also when the node *)
(* or another rule allows the target.                                      *)
validate_destination(node, origin) ==
    /\ origin # Absent /\ origin.port # 0
    /\ node \in AllowedNodeIds
         \/ \E rule \in AllowedTargets : match_allowed_target(rule, origin)
    /\ DenySensitive /\ origin.host \in SensitiveHosts =>
         \E rule \in AllowedTargets :
            rule.kind = "cidr" /\ match_allowed_target(rule, origin)

(* Every list that is not empty must be met by the facts of the token; a   *)
(* token without facts meets none.                                         *)
validate_token(principal) ==
    LET lists == {RequiredIssuers, AllowedAudiences, RequiredScopes, AllowedAzp}
    IN  IF principal = Absent THEN lists = {{}}
        ELSE /\ RequiredIssuers # {} => principal.issuer \in RequiredIssuers
             /\ AllowedAudiences # {} => principal.audiences \cap AllowedAudiences # {}
             /\ RequiredScopes \subseteq principal.scopes
             /\ AllowedAzp # {} => principal.azp \in AllowedAzp

-----------------------------------------------------------------------------
PropagationInit ==
    /\ resolver \in Resolvers \cup {Absent}
    /\ forward = [f \in Forwards |-> Waiting]

(* set_node_target_resolver, at any time and on another thread.            *)
SetNodeTargetResolver(new) ==
    /\ resolver' = new
    /\ UNCHANGED forward

(* propagate_request: the token verifies and the directive parses; or a    *)
(* caller of the library has verified the token itself, or has not, and    *)
(* calls propagate_bearer with a target of its own.                        *)
PropagateBearer(f, principal, target) ==
    /\ forward[f] = Waiting
    /\ forward' = [forward EXCEPT ![f] =
         [pc |-> "validating", principal |-> principal, target |-> target]]
    /\ UNCHANGED resolver

(* authorization_header_value: both validations, or an error answer; the   *)
(* exchange for another token is not implemented.                          *)
AuthorizationHeaderValue(f) ==
    LET target == forward[f].target
    IN  /\ forward[f].pc = "validating"
        /\ forward' = [forward EXCEPT ![f] =
             IF /\ DefaultPolicy = "validate_then_forward"
                /\ validate_destination(target.node, resolve_target(target))
                /\ validate_token(forward[f].principal)
             THEN [@ EXCEPT !.pc = "validated"] ELSE Waiting]
        /\ UNCHANGED resolver

(* resolve_target_origin resolves the target again, and the request goes   *)
(* to that origin with the bearer token.                                   *)
ForwardRequest(f) ==
    LET target == forward[f].target
        origin == resolve_target(target)
    IN  /\ forward[f].pc = "validated"
        /\ forward' = [forward EXCEPT ![f] =
             IF origin = Absent THEN Waiting
             ELSE [pc |-> "proxying", principal |-> forward[f].principal,
                   target |-> target, origin |-> origin]]
        /\ UNCHANGED resolver

(* The answer of the other service is handed back.                         *)
ProxyAnswers(f) ==
    /\ forward[f].pc = "proxying"
    /\ forward' = [forward EXCEPT ![f] = Waiting]
    /\ UNCHANGED resolver

PropagationNext ==
    \/ \E new \in Resolvers \cup {Absent} : SetNodeTargetResolver(new)
    \/ \E f \in Forwards :
         \/ \E principal \in Principals \cup {Absent}, target \in RequestTargets :
              PropagateBearer(f, principal, target)
         \/ AuthorizationHeaderValue(f)
         \/ ForwardRequest(f)
         \/ ProxyAnswers(f)

PropagationSpec == PropagationInit /\ [][PropagationNext]_propagationVars

-----------------------------------------------------------------------------
(* Properties                                                              *)

(* "Forward the original bearer token only after destination and token     *)
(* checks pass": the origin that a token is sent to is one the destination *)
(* policy allows for its target.                                           *)
ForwardsWhereValidated ==
    \A f \in Forwards : forward[f].pc = "proxying" =>
        validate_destination(forward[f].target.node, forward[f].origin)

(* A target that names its host, as every directive of a request does, is  *)
(* sent where the policy allows, whatever resolver is installed meanwhile; *)
(* a sensitive address only under a network rule that covers it; and in no *)
(* case without the token facts the policy asks for.                       *)
ForwardsUnderPolicy ==
    \A f \in Forwards : forward[f].pc = "proxying" =>
        /\ forward[f].target.host # Absent =>
             /\ forward[f].origin.host = forward[f].target.host
             /\ DenySensitive /\ forward[f].origin.host \in SensitiveHosts =>
                  \E rule \in AllowedTargets :
                     rule.kind = "cidr" /\ forward[f].origin.host \in rule.covers
        /\ RequiredScopes # {} => forward[f].principal # Absent
=============================================================================
