----------------------------- MODULE BasicZones -----------------------------
(***************************************************************************)
(* The basic-auth SDK: zones of paths guarded by HTTP Basic, the client    *)
(* that sends an unauthorized page to the login of its zone and back, and  *)
(* the browser that keeps credentials per zone.  A path is a sequence of   *)
(* segments: `path === prefix || path.startsWith(prefix + "/")` is the     *)
(* prefix order on them, and the root prefix "" (of "/") covers all.       *)
(***************************************************************************)
EXTENDS Naturals, Sequences

CONSTANTS
    ZoneConfig,    \* config.zones: a sequence of prefixes
    Paths          \* the paths the person visits

Zones == {ZoneConfig[i] : i \in DOMAIN ZoneConfig}

ASSUME ZonesAssumption ==
    /\ ZoneConfig \in Seq(Zones)
    /\ \A p \in Zones \cup Paths : p \in Seq({p[i] : i \in DOMAIN p})

VARIABLES
    visited,       \* the path in the address bar
    boundary,      \* what the last response was read as
    challenge,     \* {} or {<<zone, return path>>}: at the login of a zone
    cached         \* the zones whose credentials the browser replays

basicVars == <<visited, boundary, challenge, cached>>

Covers(zone, path) == Len(zone) <= Len(path) /\ \A i \in 1..Len(zone) : zone[i] = path[i]

(* zoneForPath: the loop keeps the first zone of the greatest length.      *)
Longer_First(zone, matched) == matched = {}

Longer(zone, matched) == matched = {} \/ \A m \in matched : Len(zone) > Len(m)

zoneForPath(path) ==
    LET matched[i \in 0..Len(ZoneConfig)] ==
            IF i = 0 THEN {}
            ELSE LET zone == ZoneConfig[i]
                     before == matched[i - 1]
                 IN  IF Covers(zone, path) /\ Longer(zone, before) THEN {zone} ELSE before
    IN  matched[Len(ZoneConfig)]

isInZone(path) == zoneForPath(path) # {}

(* loginUrl(zone, returning to path), as the pair of both.                 *)
loginUrl(zone, path) == <<zone, path>>

(* handleUnauthorized: {} is Ok, one element the redirect.                 *)
handleUnauthorized(path, status) ==
    IF status # 401 THEN {} ELSE {loginUrl(zone, path) : zone \in zoneForPath(path)}

(* readBasicAuthBoundaryKind.                                              *)
readBasicAuthBoundaryKind(status, challenged, logoutPath) ==
    CASE status < 400 -> "authenticated"
      [] status >= 400 /\ challenged -> "challenge"
      [] status = 401 /\ ~challenged /\ logoutPath -> "logout_poison"
      [] OTHER -> "unauthorized"

-----------------------------------------------------------------------------
BasicInit ==
    /\ visited \in Paths /\ boundary = "authenticated"
    /\ challenge = {} /\ cached = {}

(* The zone of the server that guards a path is the most specific one.     *)
Guarding(path) == {z \in Zones : Covers(z, path) /\
                     \A y \in Zones : Covers(y, path) => Len(y) <= Len(z)}

(* A page asks the server for its data: outside the zones and with         *)
(* replayed credentials it is answered, else with a plain 401 that the     *)
(* host hands to handleUnauthorized and performRedirect.                   *)
Visit(path) ==
    LET status == IF Guarding(path) \subseteq cached THEN 200 ELSE 401
    IN /\ challenge = {}
       /\ visited' = path
       /\ boundary' = readBasicAuthBoundaryKind(status, FALSE, FALSE)
       /\ challenge' = handleUnauthorized(path, status)
       /\ UNCHANGED cached

(* loginWithRedirect from a page: false outside the zones.                 *)
loginToZone ==
    /\ challenge = {} /\ isInZone(visited)
    /\ challenge' = {loginUrl(zone, visited) : zone \in zoneForPath(visited)}
    /\ UNCHANGED <<visited, boundary, cached>>

(* The login of a zone is the only path that challenges: credentials are   *)
(* typed and the server redirects back, or the dialog is dismissed.        *)
Authenticate ==
    \E zone \in Zones, path \in Paths :
        /\ challenge = {<<zone, path>>}
        /\ challenge' = {} /\ visited' = path
        /\ \/ cached' = cached \cup {zone} /\ boundary' = "authenticated"
           \/ cached' = cached /\ boundary' = readBasicAuthBoundaryKind(401, TRUE, FALSE)

(* POST <zone>/logout answers 401 without a challenge; whether the browser *)
(* drops its credentials is its own affair.                                *)
Logout(zone) ==
    /\ challenge = {}
    /\ boundary' = readBasicAuthBoundaryKind(401, FALSE, TRUE)
    /\ cached' \in {cached, cached \ {zone}}
    /\ UNCHANGED <<visited, challenge>>

BasicNext ==
    \/ \E path \in Paths : Visit(path)
    \/ loginToZone \/ Authenticate
    \/ \E zone \in Zones : Logout(zone)

BasicSpec == BasicInit /\ [][BasicNext]_basicVars

-----------------------------------------------------------------------------
(* An unauthorized page is sent to the login that can help: the zone whose *)
(* login BasicAuthContextClient picks is the one whose guard refused the   *)
(* page, and it comes back to that page, so that after the credentials are *)
(* accepted the page is served and no second login of another zone opens.  *)
OneLoginOpensThePage ==
    \A c \in challenge : {c[1]} = Guarding(visited) /\ c[2] = visited
=============================================================================
