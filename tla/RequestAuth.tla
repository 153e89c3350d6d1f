---------------------------- MODULE RequestAuth ----------------------------
(***************************************************************************)
(* How apps/server decides about a request: the dashboard and basic-auth   *)
(* middlewares, the forward-auth endpoints for Traefik and Nginx, and the  *)
(* handlers behind them that change the credentials or propagate.          *)
(*                                                                         *)
(* The credential file is the snapshot that the store serves; its writers  *)
(* are in CredsManageStore.  The sessions are the ones ServerLogin opens   *)
(* and ends, token verification is TokenVerifier's and the client address  *)
(* Realip's: here each of them is an answer that an `await` waits for.     *)
(* Credentials are what they belong to: a session, an entry, a token.      *)
(***************************************************************************)
EXTENDS CredsDataFile, Propagation

CONSTANTS
    Slots,               \* the requests that may be in flight together
    Incoming,            \* the requests that may arrive
    Cookies,             \* the sessions
    InitialSnapshot,     \* the data file at start-up
    Malformed,           \* a propagation header that does not parse
    PropagationEnabled,  \* the server has a token propagator and a forwarder
    ResourceServer,      \* the server has a resource-server verifier
    RealIpAccess         \* basic auth has a real_ip_access rule

(* A request: its route, its Authorization header, its cookie, its         *)
(* propagation header, and what the handler behind it is asked for.        *)
ASSUME IncomingAssumption ==
    \A in \in Incoming :
        /\ in.route \in {"api", "basic_api", "propagation", "forward_auth"}
        /\ in.authorization \in {"none", "basic", "bearer", "other"}
        /\ in.cookie \in Cookies \cup {None}
        /\ in.directive \in RequestTargets \cup {Absent, Malformed}
        /\ in.route = "forward_auth" =>
             in.asks \in [group : GroupNames, entry : EntryIds]
        /\ in.route \in {"api", "basic_api"} => in.asks \in Request

ASSUME ServerAssumption ==
    /\ Forwards = Slots
    /\ {PropagationEnabled, ResourceServer, RealIpAccess} \subseteq BOOLEAN

VARIABLES
    snapshot,   \* the data file that the store serves
    drawn,      \* the ids that Uuid::new_v4 has given so far
    live,       \* the sessions that hold a context
    request,    \* what each request in flight is doing
    seen        \* history: the snapshots served since a request arrived

requestVars == <<snapshot, drawn, live, request, seen, propagationVars>>

NoRequest == [pc |-> "none"]
In(r) == request[r].in

Goes(r, pc) == request' = [request EXCEPT ![r].pc = pc]
Admit(r) == Goes(r, "admitted")

(* The answer is made and waits to be sent.                                *)
Answered == [pc |-> "answered"]
Refuse(r) == request' = [request EXCEPT ![r] = Answered]

RequestInit ==
    /\ snapshot = InitialSnapshot
    /\ drawn = Entries(InitialSnapshot) \cup Groups(InitialSnapshot)
    /\ live = {}
    /\ request = [r \in Slots |-> NoRequest]
    /\ seen = [r \in Slots |-> {}]
    /\ PropagationInit

-----------------------------------------------------------------------------
(* Sessions open and end while requests are in flight (ServerLogin).       *)

SessionOpens(c) ==
    /\ c \notin live
    /\ live' = live \cup {c}
    /\ UNCHANGED <<snapshot, drawn, request, seen, propagationVars>>

SessionEnds(c) ==
    /\ c \in live
    /\ live' = live \ {c}
    /\ UNCHANGED <<snapshot, drawn, request, seen, propagationVars>>

-----------------------------------------------------------------------------
(* The middlewares                                                         *)

Creates(in) ==
    in.route \in {"api", "basic_api"} /\ in.asks.op \in {"create_entry", "create_group"}

(* The credential that require_dashboard_auth tries first.                 *)
FirstCredential(in) ==
    CASE in.authorization = "bearer" -> "bearer"
      [] in.authorization # "bearer" /\ in.cookie # None -> "session"
      [] in.authorization # "bearer" /\ in.cookie = None ->
            IF in.authorization = "basic" THEN "basic" ELSE "refused"

(* What is decided before the first await: a malformed propagation header  *)
(* is an error, a directive without the feature is refused, and behind     *)
(* basic auth any directive is.                                            *)
FirstStep(in) ==
    CASE in.route = "forward_auth" -> "group"
      [] in.route # "forward_auth" /\ in.directive = Malformed -> "refused"
      [] in.route = "basic_api" /\ in.directive # Malformed ->
            IF in.directive # Absent THEN "refused" ELSE "basic"
      [] in.route \in {"api", "propagation"} /\ in.directive # Malformed ->
            IF in.directive # Absent /\ ~PropagationEnabled THEN "refused"
            ELSE FirstCredential(in)

Arrive(r, in) ==
    /\ request[r] = NoRequest
    /\ Creates(in) => in.asks.id \notin drawn
    /\ drawn' = IF Creates(in) THEN drawn \cup {in.asks.id} ELSE drawn
    /\ request' = [request EXCEPT ![r] =
         IF FirstStep(in) = "refused" THEN Answered
         ELSE [pc |-> FirstStep(in), in |-> in, by |-> "none", group |-> None,
               basics |-> {}, tokens |-> {}]]
    /\ seen' = [seen EXCEPT ![r] = IF in.route = "forward_auth" THEN {snapshot} ELSE {}]
    /\ UNCHANGED <<snapshot, live, propagationVars>>

(* A credential is accepted.  With a directive it has to be a bearer.      *)
Accepted(r, by) ==
    IF In(r).directive # Absent /\ by # "bearer" THEN Refuse(r)
    ELSE request' = [request EXCEPT ![r].pc = "admitted", ![r].by = by]

(* authenticate_authorization_header answers.  A bearer that is refused,   *)
(* or that nothing can verify, ends the request: the other credentials are *)
(* not tried.                                                              *)
BearerAnswers(r, verified) ==
    /\ request[r].pc = "bearer"
    /\ IF ResourceServer /\ verified THEN Accepted(r, "bearer") ELSE Refuse(r)
    /\ UNCHANGED <<snapshot, drawn, live, seen, propagationVars>>

SessionAnswers_IgnoresDirective(r) ==
    /\ request[r].pc = "session"
    /\ IF In(r).cookie \in live
       THEN request' = [request EXCEPT ![r].pc = "admitted", ![r].by = "session"]
       ELSE IF In(r).authorization = "basic" THEN Goes(r, "basic") ELSE Refuse(r)
    /\ UNCHANGED <<snapshot, drawn, live, seen, propagationVars>>

(* The session lookup answers: a context decides, no context leaves the    *)
(* request to basic auth.                                                  *)
SessionAnswers(r) ==
    /\ request[r].pc = "session"
    /\ IF In(r).cookie \in live THEN Accepted(r, "session")
       ELSE IF In(r).authorization = "basic" THEN Goes(r, "basic") ELSE Refuse(r)
    /\ UNCHANGED <<snapshot, drawn, live, seen, propagationVars>>

SessionFails(r) ==
    /\ request[r].pc = "session"
    /\ Refuse(r)
    /\ UNCHANGED <<snapshot, drawn, live, seen, propagationVars>>

(* authorize_request once the client address is resolved: with a real-ip   *)
(* rule the address has to be resolved and allowed before the password is  *)
(* looked at.                                                              *)
Authorizes(in, address, correct) ==
    /\ RealIpAccess => address = "allowed"
    /\ in.authorization = "basic" /\ correct

(* A refusal is a 401 at the dashboard; in a zone it is what the zone says.*)
BasicAnswers(r, address, correct) ==
    /\ request[r].pc = "basic"
    /\ IF Authorizes(In(r), address, correct) THEN Accepted(r, "basic") ELSE Refuse(r)
    /\ UNCHANGED <<snapshot, drawn, live, seen, propagationVars>>

-----------------------------------------------------------------------------
(* The handlers behind the middlewares                                     *)

(* The credential API: the store applies the operation or refuses it.      *)
Manage(r) ==
    /\ request[r].pc = "admitted"
    /\ snapshot' = IF Accepts(snapshot, In(r).asks) THEN Apply(snapshot, In(r).asks, 0)
                   ELSE snapshot
    /\ seen' = [q \in Slots |-> IF seen[q] = {} THEN {} ELSE seen[q] \cup {snapshot'}]
    /\ request' = [request EXCEPT ![r] = Answered]
    /\ UNCHANGED <<drawn, live, propagationVars>>

ManageEntries(r) ==
    /\ request[r].pc = "admitted" /\ In(r).route \in {"api", "basic_api"}
    /\ In(r).asks.op \in {"create_entry", "update_entry", "delete_entry"}
    /\ Manage(r)

ManageGroups(r) ==
    /\ request[r].pc = "admitted" /\ In(r).route \in {"api", "basic_api"}
    /\ In(r).asks.op \in {"create_group", "update_group", "delete_group"}
    /\ Manage(r)

(* propagation_forward verifies the token once more, and asks for a bearer *)
(* and for a directive that the middleware did not ask for.                *)
PropagateRequest(r, verified, principal) ==
    /\ request[r].pc = "admitted" /\ In(r).route = "propagation"
    /\ IF ResourceServer /\ verified /\ In(r).authorization = "bearer"
            /\ In(r).directive # Absent
       THEN PropagateBearer(r, principal, In(r).directive) /\ Goes(r, "propagating")
       ELSE Refuse(r) /\ UNCHANGED propagationVars
    /\ UNCHANGED <<snapshot, drawn, live, seen>>

(* The steps of Propagation's own.  A directive names its host, so the     *)
(* node resolver plays no part.                                            *)
PropagationStep(r) ==
    /\ AuthorizationHeaderValue(r) \/ ForwardRequest(r) \/ ProxyAnswers(r)
    /\ UNCHANGED <<snapshot, drawn, live, request, seen>>

PropagationEnds(r) ==
    /\ request[r].pc = "propagating" /\ forward[r] = Waiting
    /\ request' = [request EXCEPT ![r] = Answered]
    /\ UNCHANGED <<snapshot, drawn, live, seen, propagationVars>>

-----------------------------------------------------------------------------
(* check_forward_auth: three reads of the store, each of the snapshot of   *)
(* its own moment.                                                         *)

EntriesByGroupId(kind, g) ==
    {e \in Entries(snapshot) :
        snapshot.entries[e].kind = kind /\ g \in snapshot.entries[e].group_ids}

FindGroupByName(r) ==
    LET named == {g \in Groups(snapshot) : snapshot.groups[g] = In(r).asks.group}
    IN  /\ request[r].pc = "group"
        /\ IF named = {} THEN Refuse(r)
           ELSE \E g \in named :
                  request' = [request EXCEPT ![r].pc = "basics", ![r].group = g]
        /\ UNCHANGED <<snapshot, drawn, live, seen, propagationVars>>

BasicEntriesByGroupId(r) ==
    /\ request[r].pc = "basics"
    /\ request' = [request EXCEPT ![r].pc = "tokens",
                                  ![r].basics = EntriesByGroupId("basic", request[r].group)]
    /\ UNCHANGED <<snapshot, drawn, live, seen, propagationVars>>

TokenEntriesByGroupId_AnyGroup(r) ==
    /\ request[r].pc = "tokens"
    /\ request' = [request EXCEPT ![r].pc = "deciding",
         ![r].tokens = {e \in Entries(snapshot) : snapshot.entries[e].kind = "token"}]
    /\ UNCHANGED <<snapshot, drawn, live, seen, propagationVars>>

TokenEntriesByGroupId(r) ==
    /\ request[r].pc = "tokens"
    /\ request' = [request EXCEPT ![r].pc = "deciding",
                                  ![r].tokens = EntriesByGroupId("token", request[r].group)]
    /\ UNCHANGED <<snapshot, drawn, live, seen, propagationVars>>

(* The header is tried as basic credentials and then as a bearer, against  *)
(* the lists that were read.                                               *)
ForwardAuthDecides(r) ==
    /\ request[r].pc = "deciding"
    /\ IF \/ In(r).authorization = "basic" /\ In(r).asks.entry \in request[r].basics
          \/ In(r).authorization = "bearer" /\ In(r).asks.entry \in request[r].tokens
       THEN Admit(r) ELSE Refuse(r)
    /\ UNCHANGED <<snapshot, drawn, live, seen, propagationVars>>

(* The answer leaves.                                                      *)
Respond(r) ==
    /\ \/ request[r] = Answered
       \/ request[r].pc = "admitted" /\ In(r).route = "forward_auth"
    /\ request' = [request EXCEPT ![r] = NoRequest]
    /\ seen' = [seen EXCEPT ![r] = {}]
    /\ UNCHANGED <<snapshot, drawn, live, propagationVars>>

RequestNext ==
    \/ \E c \in Cookies : SessionOpens(c) \/ SessionEnds(c)
    \/ \E r \in Slots :
         \/ \E in \in Incoming : Arrive(r, in)
         \/ \E verified \in BOOLEAN : BearerAnswers(r, verified)
         \/ SessionAnswers(r) \/ SessionFails(r)
         \/ \E address \in {"allowed", "denied", "unresolved"}, correct \in BOOLEAN :
              BasicAnswers(r, address, correct)
         \/ ManageEntries(r) \/ ManageGroups(r)
         \/ \E verified \in BOOLEAN, principal \in Principals :
              PropagateRequest(r, verified, principal)
         \/ PropagationStep(r) \/ PropagationEnds(r)
         \/ FindGroupByName(r) \/ BasicEntriesByGroupId(r) \/ TokenEntriesByGroupId(r)
         \/ ForwardAuthDecides(r)
         \/ Respond(r)

RequestSpec == RequestInit /\ [][RequestNext]_requestVars

-----------------------------------------------------------------------------
(* Properties                                                              *)

(* A forward-auth request that is let through named a group that existed   *)
(* under that name, and the credentials it showed were an entry of that    *)
(* same group, each at some moment between its arrival and its answer,     *)
(* however the groups and entries changed between the three reads.         *)
ForwardAuthMembership ==
    \A r \in Slots :
        request[r].pc = "admitted" /\ In(r).route = "forward_auth" =>
            \E g \in GroupIds : \E before, later \in seen[r] :
                /\ before.groups[g] = In(r).asks.group
                /\ In(r).asks.entry \in Entries(later)
                /\ g \in later.entries[In(r).asks.entry].group_ids

(* A request with a propagation directive reaches a handler only on the    *)
(* strength of a verified bearer token, whichever other credentials it     *)
(* also carries and in whatever order they are tried.                      *)
DirectiveNeedsBearer ==
    \A r \in Slots :
        request[r].pc \in {"admitted", "propagating"} /\ In(r).route # "forward_auth"
            /\ In(r).directive # Absent => request[r].by = "bearer"

(* A request that a handler sees has what its route and its directive ask. *)
RequestsAreJustified == ForwardAuthMembership /\ DirectiveNeedsBearer
=============================================================================
