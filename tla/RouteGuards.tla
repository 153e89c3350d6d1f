---------------------------- MODULE RouteGuards ----------------------------
(***************************************************************************)
(* The route guards of the framework adapters: beforeLoad of the TanStack  *)
(* router, which asks for one requirement after the other, and the Angular *)
(* aggregation guard, which waits for every client and then decides once.  *)
(*                                                                         *)
(* A route chain is a sequence of segments. A segment declares             *)
(* requirements, how they compose with its parents', and possibly the      *)
(* planner host to ask. Clients sign in, expire, refresh and sign out      *)
(* between any two steps of a guard.                                       *)
(***************************************************************************)
EXTENDS Naturals, Sequences

CONSTANTS
  Guards,           \* navigations whose guards may run together
  GuardChains,      \* the route chains that are navigated to
  ClientsFor,       \* for each requirement kind the clients registered for it
  HandlerOf,        \* for each requirement kind what its handler answers
  RegisteredHosts   \* keys of the planner hosts given to the root route

GuardClients == UNION {ClientsFor[k] : k \in DOMAIN ClientsFor}
Answers == {"none", "true", "false", "path", "login"}
Elements(s) == {s[i] : i \in DOMAIN s}

(* A segment does not list an id twice.                                    *)
ASSUME GuardAssumption ==
  /\ \A chain \in GuardChains : chain \in Seq(Elements(chain)) /\ \A i \in DOMAIN chain :
       LET own == chain[i].requirements IN
       /\ chain[i].composition \in {"none", "inherit", "merge", "replace"}
       /\ own \in Seq(Elements(own))
       /\ \A j, k \in DOMAIN own :
            own[j].kind \in DOMAIN ClientsFor /\ (own[j].id = own[k].id => j = k)
  /\ \A k \in DOMAIN ClientsFor : HandlerOf[k] \in Answers

VARIABLES
  readyClients,   \* clients the registry has materialized
  standing,       \* for each client "none", "fresh" or "expired"
  guards          \* the guard of each navigation

guardVars == <<readyClients, standing, guards>>

NoGuard == [at |-> "idle"]

(***************************************************************************)
(* Effective requirements of a chain. Merging goes through a Map: an id    *)
(* keeps its place and takes the requirement that is set last, a child's.  *)
(***************************************************************************)
RequirementIds(reqs) == {reqs[i].id : i \in DOMAIN reqs}

MapSet(map, r) ==
  IF r.id \in RequirementIds(map)
  THEN [i \in DOMAIN map |-> IF map[i].id = r.id THEN r ELSE map[i]]
  ELSE Append(map, r)

MapOf(reqs) ==
  LET map[i \in 0..Len(reqs)] == IF i = 0 THEN <<>> ELSE MapSet(map[i - 1], reqs[i])
  IN map[Len(reqs)]

resolveEffectiveRequirements_ChildOnly(parent, child) ==
  IF child.composition = "inherit" THEN parent ELSE child.requirements

resolveEffectiveRequirements(parent, child) ==
  CASE child.composition = "inherit" -> parent
    [] child.composition = "replace" -> child.requirements
    [] OTHER -> MapOf(parent \o child.requirements)

EffectiveRequirements(chain) ==
  LET result[i \in 0..Len(chain)] ==
        IF i = 0 THEN <<>> ELSE resolveEffectiveRequirements(result[i - 1], chain[i])
  IN result[Len(chain)]

extractTanStackRouteRequirements(chain) == EffectiveRequirements(chain)

extractAngularRouteRequirements(chain) == EffectiveRequirements(chain)

(* The planner host of the nearest segment that names one.                 *)
findNearestPlannerHostKey(chain) ==
  LET named == {i \in DOMAIN chain : chain[i].host # "none"}
  IN IF named = {} THEN "none"
     ELSE chain[CHOOSE i \in named : \A j \in named : j <= i].host

resolvePlannerHostForRoute(chain) ==
  LET key == findNearestPlannerHostKey(chain)
  IN key = "none" \/ key \in RegisteredHosts

----------------------------------------------------------------------------
(* The clients.                                                            *)

Materialize(k) ==
  /\ k \notin readyClients
  /\ readyClients' = readyClients \cup {k}
  /\ UNCHANGED <<standing, guards>>

ClientChanges(k) ==
  /\ k \in readyClients
  /\ \E s \in {"none", "fresh", "expired"} \ {standing[k]} :
       /\ s = "expired" => standing[k] = "fresh"
       /\ standing' = [standing EXCEPT ![k] = s]
  /\ UNCHANGED <<readyClients, guards>>

(* ensureAuthForResource with forceRefreshWhenDue: what the client holds,  *)
(* or what a refresh of expired material brings.                           *)
Ensured(k) == IF standing[k] = "expired" THEN {"fresh", "expired", "none"}
                                         ELSE {standing[k]}

----------------------------------------------------------------------------
(* TanStack router: createSecureBeforeLoad over the token-set registry.    *)

Finish(g, fate, by) ==
  guards' = [guards EXCEPT ![g] =
    [at |-> "done", router |-> @.router, chain |-> @.chain,
     fate |-> fate, by |-> by, seen |-> @.seen]]

(* The next check, or the end of them.                                     *)
NextCheck(guard) ==
  IF guard.i = Len(guard.need)
  THEN [at |-> "done", router |-> guard.router, chain |-> guard.chain,
        fate |-> "admitted", by |-> "checks", seen |-> guard.seen]
  ELSE [guard EXCEPT !.i = @ + 1]

createSecureBeforeLoad(g, chain) ==
  /\ guards[g].at = "idle"
  /\ guards' = [guards EXCEPT ![g] =
       NextCheck([at |-> "checking", router |-> "tanstack", chain |-> chain,
                  need |-> extractTanStackRouteRequirements(chain),
                  i |-> 0, seen |-> {}])]
  /\ UNCHANGED <<readyClients, standing>>

Pending(g) == guards[g].need[guards[g].i]

(* A query that finds no client answers null, one that finds several       *)
(* throws, which fails the navigation.                                     *)
defaultClientSelector(kind) == ClientsFor[kind]

(* The handler of the requirement that is not met. Only a path redirects:  *)
(* every other answer blocks, and a handler that leaves the page never     *)
(* answers.                                                                *)
handleSecureBeforeLoadAction(g, answer) ==
  CASE answer = "path"  -> Finish(g, "redirected", "handler")
    [] answer = "login" -> Finish(g, "left", "handler")
    [] OTHER            -> Finish(g, "blocked", "handler")

ensureTanStackRequirement(g) ==
  /\ guards[g].at = "checking"
  /\ LET req == Pending(g)
         keys == defaultClientSelector(req.kind)
     IN CASE keys = {} -> /\ handleSecureBeforeLoadAction(g, HandlerOf[req.kind])
                          /\ UNCHANGED standing
          [] \E k, l \in keys : k # l -> /\ Finish(g, "failed", "registry")
                                         /\ UNCHANGED standing
          [] OTHER ->
               \E k \in keys \cap readyClients : \E s \in Ensured(k) :
                 /\ standing' = [standing EXCEPT ![k] = s]
                 /\ IF s = "fresh"
                    THEN guards' = [guards EXCEPT ![g] =
                           NextCheck([guards[g] EXCEPT !.seen = @ \cup {req}])]
                    ELSE handleSecureBeforeLoadAction(g, HandlerOf[req.kind])
  /\ UNCHANGED readyClients

----------------------------------------------------------------------------
(* Angular: the aggregation guard.                                         *)

ClientsOf(need) == UNION {ClientsFor[r.kind] : r \in need}

(* Requirements without a client are left out; the others are looked at    *)
(* together, as a set.                                                     *)
Mapped(need) == {r \in Elements(need) : ClientsFor[r.kind] # {}}

createTokenSetRouteAggregationGuard(g, chain) ==
  /\ guards[g].at = "idle"
  /\ LET need == Mapped(extractAngularRouteRequirements(chain))
         start == [at |-> "resolving", router |-> "angular", chain |-> chain,
                   need |-> need, waits |-> ClientsOf(need), seen |-> {}]
         End(fate, by) == [at |-> "done", router |-> "angular", chain |-> chain,
                           fate |-> fate, by |-> by, seen |-> {}]
     IN guards' = [guards EXCEPT ![g] =
          IF ~resolvePlannerHostForRoute(chain) THEN End("failed", "no host")
          ELSE IF need = {} THEN End("admitted", "checks")
          ELSE start]
  /\ UNCHANGED <<readyClients, standing>>

(* Every whenReady has answered: the restores and the freshness barriers   *)
(* of all of the clients start.                                            *)
ClientsReady(g) ==
  /\ guards[g].at = "resolving"
  /\ guards[g].waits \subseteq readyClients
  /\ guards' = [guards EXCEPT ![g].at = "barrier"]
  /\ UNCHANGED <<readyClients, standing>>

awaitAuthMaterial(g, k) ==
  /\ guards[g].at = "barrier" /\ k \in guards[g].waits
  /\ \E s \in Ensured(k) : standing' = [standing EXCEPT ![k] = s]
  /\ guards' = [guards EXCEPT ![g].waits = @ \ {k}]
  /\ UNCHANGED readyClients

Authenticated(req) == \A k \in ClientsFor[req.kind] : standing[k] = "fresh"

(* decide: one evaluation of all of the requirements, and the selector     *)
(* chooses among those that are not met.                                   *)
decide(g) ==
  /\ guards[g].at = "barrier" /\ guards[g].waits = {}
  /\ LET need == guards[g].need
         unmet == {r \in need : ~Authenticated(r)}
     IN guards' = [guards EXCEPT ![g] =
          IF unmet = {}
          THEN [at |-> "done", router |-> @.router, chain |-> @.chain,
                fate |-> "admitted", by |-> "checks", seen |-> need]
          ELSE [@ EXCEPT !.at = "choosing", !.waits = unmet, !.seen = need \ unmet]]
  /\ UNCHANGED <<readyClients, standing>>

(* The handler of the chosen requirement; here true lets the navigation    *)
(* by. The login handler goes to the first client that still is not        *)
(* authenticated and blocks when none is left.                             *)
onUnauthenticated(g) ==
  /\ guards[g].at = "choosing"
  /\ \E req \in guards[g].waits :
       LET answer == HandlerOf[req.kind] IN
       CASE answer = "path" -> Finish(g, "redirected", "handler")
         [] answer = "true" -> Finish(g, "admitted", "handler")
         [] answer = "login" ->
              Finish(g, IF Authenticated(req) THEN "blocked" ELSE "left", "handler")
         [] OTHER -> Finish(g, "blocked", "handler")
  /\ UNCHANGED <<readyClients, standing>>

----------------------------------------------------------------------------
GuardInit ==
  /\ readyClients = {}
  /\ standing = [k \in GuardClients |-> "none"]
  /\ guards = [g \in Guards |-> NoGuard]

GuardNext ==
  \/ \E k \in GuardClients : Materialize(k) \/ ClientChanges(k)
  \/ \E g \in Guards :
       \/ \E chain \in GuardChains :
            \/ createSecureBeforeLoad(g, chain)
            \/ createTokenSetRouteAggregationGuard(g, chain)
       \/ ensureTanStackRequirement(g)
       \/ ClientsReady(g)
       \/ \E k \in GuardClients : awaitAuthMaterial(g, k)
       \/ decide(g) \/ onUnauthenticated(g)

GuardSpec == GuardInit /\ [][GuardNext]_guardVars

----------------------------------------------------------------------------
(* The requirements that bind a route: declared by a segment that does not *)
(* merely inherit, below every segment that replaces, and not declared     *)
(* again further down.                                                     *)
Binding(chain) ==
  {r \in UNION {Elements(chain[i].requirements) : i \in DOMAIN chain} :
     \E i \in DOMAIN chain :
       /\ chain[i].composition # "inherit"
       /\ r \in Elements(chain[i].requirements)
       /\ \A l \in DOMAIN chain : l > i =>
            /\ chain[l].composition # "replace"
            /\ \/ chain[l].composition = "inherit"
               \/ r.id \notin RequirementIds(chain[l].requirements)}

(* AdmittedRoutesWereChecked: a guard that lets a navigation by on its own *)
(* has found every requirement that binds the route met, whatever was      *)
(* composed on the way down and however the clients changed while it       *)
(* waited. Angular leaves out the requirements nobody is registered for.   *)
AdmittedRoutesWereChecked ==
  \A g \in Guards :
    (guards[g].at = "done" /\ guards[g].fate = "admitted" /\ guards[g].by = "checks") =>
      \A r \in Binding(guards[g].chain) :
        \/ r \in guards[g].seen
        \/ guards[g].router = "angular" /\ ClientsFor[r.kind] = {}
=============================================================================
