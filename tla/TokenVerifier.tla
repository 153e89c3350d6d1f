--------------------------- MODULE TokenVerifier ---------------------------
(***************************************************************************)
(* OAuthProviderRuntime: the cached metadata and signing keys of an        *)
(* identity provider.  There is no background task: a call that finds the  *)
(* cache too old fetches, without holding the lock and without knowing of  *)
(* the fetches of other calls, and writes what it got.  Of the metadata    *)
(* the model keeps the jwks_uri and the keys.  Every lock acquisition and  *)
(* every HTTP request is a step of its own.                                *)
(*                                                                         *)
(* OAuthResourceServerVerifier over it: a structured token is verified     *)
(* with the cached keys and, when they do not hold its key, once more with *)
(* refreshed ones; an opaque token is introspected.  A token is what the   *)
(* key lookup sees of it: its kid, or none.                                *)
(***************************************************************************)
EXTENDS Naturals, FiniteSets

CONSTANTS
    Calls,              \* the calls that may be in flight together
    Kids,               \* the key ids the provider uses
    KeySets,            \* the key sets it may serve
    Uris,               \* the places its keys are served at
    Discovery,          \* well_known_url is configured
    MetadataInterval, JwksInterval,   \* the refresh intervals, 0 for never
    MaxTime, MaxChanges,    \* bounds: of the clock, of the provider's changes
    NoKid

ASSUME ProviderAssumption ==
    /\ Uris # {} /\ NoKid \notin Kids /\ KeySets \subseteq SUBSET Kids
    /\ Discovery \in BOOLEAN
    /\ {MetadataInterval, JwksInterval, MaxTime, MaxChanges} \subseteq Nat

VARIABLES
    now,        \* the monotonic clock
    changes,    \* how often the provider has changed something
    document,   \* the jwks_uri of the discovery document
    served,     \* the key set served at each place
    state,      \* the cached ProviderState
    call        \* what each call is doing

providerVars == <<changes, document, served>>
runtimeVars == <<now, providerVars, state, call>>

Metadata == [uri : Uris, keys : SUBSET Kids]

(* Where a call is inside `metadata` and `refresh_jwks`.                   *)
Fetching == {"fetchDocument", "fetchDocumentKeys", "fetchJwks"}
Inside == Fetching \cup
    {"checkMetadata", "storeMetadata", "checkJwks", "readUri", "storeJwks", "readMetadata"}

At(c, pc) == call[c].pc = pc
GoTo(c, pc) == call' = [call EXCEPT ![c].pc = pc]

AnyUri == CHOOSE u \in Uris : TRUE

(* A call that begins with `metadata`, and one that has ended: with an     *)
(* answer or an error, or with the error that its key is unknown.          *)
Ended == {"answered", "unknownKey"}

NewCall(pc, stage, kid, steady, began) ==
    [pc |-> pc, stage |-> stage, kid |-> kid, steady |-> steady,
     got |-> [uri |-> AnyUri, keys |-> {}], began |-> began]

End(c, outcome, steady) ==
    call' = [call EXCEPT ![c] = NewCall(outcome, "verify", NoKid, steady, 0)]

(* What fetch_metadata gives when nothing changes while it runs: the       *)
(* configured or discovered jwks_uri and the keys served there.            *)
FetchMetadata == [uri |-> document, keys |-> served[document]]

(* from_config fetches everything once before anything else runs.  At that *)
(* time the provider serves the same keys everywhere.                      *)
RuntimeInit ==
    /\ now = 0 /\ changes = 0
    /\ document = AnyUri
    /\ \E keys \in KeySets : served = [u \in Uris |-> keys]
    /\ state = [metadata |-> FetchMetadata, metadataAt |-> 0, jwksAt |-> 0]

(* ensure_metadata_fresh and ensure_jwks_fresh read the age of the cache;  *)
(* the latter also covers keys the former has just stored.                 *)
MetadataIsDue ==
    Discovery /\ MetadataInterval > 0 /\ now - state.metadataAt >= MetadataInterval
JwksAreDue == JwksInterval > 0 /\ now - state.jwksAt >= JwksInterval

CheckMetadata(c) ==
    /\ At(c, "checkMetadata")
    /\ GoTo(c, IF MetadataIsDue THEN "fetchDocument" ELSE "checkJwks")
    /\ UNCHANGED <<now, providerVars, state>>

(* fetch_metadata: the discovery document, then the keys it points to.     *)
FetchDocument(c) ==
    /\ At(c, "fetchDocument")
    /\ call' = [call EXCEPT ![c].pc = "fetchDocumentKeys", ![c].got.uri = document]
    /\ UNCHANGED <<now, providerVars, state>>

FetchDocumentKeys(c) ==
    /\ At(c, "fetchDocumentKeys")
    /\ call' = [call EXCEPT ![c].pc = "storeMetadata", ![c].got.keys = served[call[c].got.uri]]
    /\ UNCHANGED <<now, providerVars, state>>

(* refresh_metadata replaces the whole cached state.                       *)
StoreMetadata(c) ==
    /\ At(c, "storeMetadata")
    /\ state' = [metadata |-> call[c].got, metadataAt |-> now, jwksAt |-> now]
    /\ GoTo(c, "checkJwks")
    /\ UNCHANGED <<now, providerVars>>

CheckJwks(c) ==
    /\ At(c, "checkJwks")
    /\ GoTo(c, IF JwksAreDue THEN "readUri" ELSE "readMetadata")
    /\ UNCHANGED <<now, providerVars, state>>

(* refresh_jwks reads the cached jwks_uri, ...                             *)
ReadUri(c) ==
    /\ At(c, "readUri")
    /\ call' = [call EXCEPT ![c].pc = "fetchJwks", ![c].got.uri = state.metadata.uri]
    /\ UNCHANGED <<now, providerVars, state>>

(* ... fetches the keys from there, ...                                    *)
FetchJwks(c) ==
    /\ At(c, "fetchJwks")
    /\ call' = [call EXCEPT ![c].pc = "storeJwks", ![c].got.keys = served[call[c].got.uri]]
    /\ UNCHANGED <<now, providerVars, state>>

StoreJwks_AtFetchTime(c) ==
    /\ At(c, "storeJwks")
    /\ state' = [state EXCEPT !.metadata.keys = call[c].got.keys, !.jwksAt = call[c].began]
    /\ call' = [call EXCEPT ![c].got = state'.metadata,
                            ![c].pc = IF call[c].stage = "retry" THEN "refreshed" ELSE "readMetadata"]
    /\ UNCHANGED <<now, providerVars>>

(* ... and writes them into whatever metadata is cached by then.  Under    *)
(* the same lock it copies the result for its caller; ensure_jwks_fresh    *)
(* drops that copy.                                                        *)
StoreJwks(c) ==
    /\ At(c, "storeJwks")
    /\ state' = [state EXCEPT !.metadata.keys = call[c].got.keys, !.jwksAt = now]
    /\ call' = [call EXCEPT ![c].got = state'.metadata,
                            ![c].pc = IF call[c].stage = "retry" THEN "refreshed" ELSE "readMetadata"]
    /\ UNCHANGED <<now, providerVars>>

(* An HTTP request fails or its answer does not parse: the error goes to   *)
(* the caller, although older metadata is cached.                          *)
FetchFails(c) ==
    /\ call[c].pc \in Fetching
    /\ End(c, "answered", FALSE)
    /\ UNCHANGED <<now, providerVars, state>>

(* The last step of `metadata`.                                            *)
ReadMetadata(c) ==
    /\ At(c, "readMetadata")
    /\ call' = [call EXCEPT ![c].pc = "ready", ![c].got = state.metadata]
    /\ UNCHANGED <<now, providerVars, state>>

RuntimeStep(c) ==
    \/ CheckMetadata(c) \/ FetchDocument(c) \/ FetchDocumentKeys(c) \/ StoreMetadata(c)
    \/ CheckJwks(c) \/ ReadUri(c) \/ FetchJwks(c) \/ StoreJwks(c)
    \/ FetchFails(c) \/ ReadMetadata(c)

(* External: time passes.                                                  *)
Tick ==
    /\ now < MaxTime
    /\ now' = now + 1
    /\ UNCHANGED <<providerVars, state, call>>

-----------------------------------------------------------------------------
(* The verifier                                                            *)

(* The stages of a call: which `metadata` or `refresh_jwks` it is in.      *)
Stages == {"verify", "retry", "answer", "opaque", "introspect"}

(* find_jwk_for_jwt: without a kid the key is found when it is the only    *)
(* one.                                                                    *)
Finds(kid, keys) == IF kid = NoKid THEN Cardinality(keys) = 1 ELSE kid \in keys

(* The key is found wherever the provider serves keys.                     *)
Published(kid, at) == \A u \in Uris : Finds(kid, at[u])

VerifierInit ==
    /\ RuntimeInit
    /\ call = [c \in Calls |-> NewCall("answered", "verify", NoKid, FALSE, 0)]

(* The next `metadata` of a call begins; the token's key is behind it.     *)
AskMetadata(c, stage) ==
    call' = [call EXCEPT ![c] = NewCall("checkMetadata", stage, NoKid, FALSE, now)]

(* verify_access_token for a token with this kid.                          *)
VerifyToken(c, kid) ==
    /\ call[c].pc \in Ended
    /\ call' = [call EXCEPT ![c] =
                  NewCall("checkMetadata", "verify", kid, Published(kid, served), now)]
    /\ UNCHANGED <<now, providerVars, state>>

(* verify_opaque_access_token                                              *)
VerifyOpaqueToken(c) ==
    /\ call[c].pc \in Ended
    /\ call' = [call EXCEPT ![c] = NewCall("checkMetadata", "opaque", NoKid, FALSE, now)]
    /\ UNCHANGED <<now, providerVars, state>>

(* verify_jwt_with_current_jwks: the token verifies, and its metadata is   *)
(* asked for again; or its key is not there, and refresh_jwks is called.   *)
VerifyWithCurrentJwks(c) ==
    /\ At(c, "ready") /\ call[c].stage = "verify"
    /\ IF Finds(call[c].kid, call[c].got.keys)
         THEN AskMetadata(c, "answer")
         ELSE call' = [call EXCEPT ![c].pc = "readUri", ![c].stage = "retry"]
    /\ UNCHANGED <<now, providerVars, state>>

VerifyWithRefreshedJwks_ReadsCache(c) ==
    /\ At(c, "refreshed")
    /\ IF Finds(call[c].kid, state.metadata.keys)
         THEN AskMetadata(c, "answer")
         ELSE End(c, "unknownKey", call[c].steady)
    /\ UNCHANGED <<now, providerVars, state>>

(* The second attempt, with what refresh_jwks returned.                    *)
VerifyWithRefreshedJwks(c) ==
    /\ At(c, "refreshed")
    /\ IF Finds(call[c].kid, call[c].got.keys)
         THEN AskMetadata(c, "answer")
         ELSE End(c, "unknownKey", call[c].steady)
    /\ UNCHANGED <<now, providerVars, state>>

(* The token's header does not decode, or its key is found and signature,  *)
(* lifetime, issuer or audience are refused: an error of another kind,     *)
(* which is not retried.                                                   *)
VerificationFails(c) ==
    /\ \/ At(c, "ready") /\ call[c].stage = "verify"
       \/ At(c, "refreshed") /\ Finds(call[c].kid, call[c].got.keys)
    /\ End(c, "answered", FALSE)
    /\ UNCHANGED <<now, providerVars, state>>

Answer(c) ==
    /\ At(c, "ready") /\ call[c].stage = "answer"
    /\ End(c, "answered", FALSE)
    /\ UNCHANGED <<now, providerVars, state>>

(* introspect asks for the metadata, and the runtime's introspect for it   *)
(* again before it sends the request.                                      *)
Introspect(c) ==
    /\ At(c, "ready") /\ call[c].stage = "opaque"
    /\ AskMetadata(c, "introspect")
    /\ UNCHANGED <<now, providerVars, state>>

(* The provider's answer passes validate_introspection_response or not, or *)
(* the request fails.                                                      *)
IntrospectionAnswered(c) ==
    /\ At(c, "ready") /\ call[c].stage = "introspect"
    /\ End(c, "answered", FALSE)
    /\ UNCHANGED <<now, providerVars, state>>

(* For a call in flight, whether its key has been published all the while. *)
StillSteady(at) ==
    [c \in Calls |-> [call[c] EXCEPT
       !.steady = @ /\ (call[c].pc \in Ended \/ Published(call[c].kid, at))]]

(* External: the provider rotates the keys at some places, ...             *)
RotateKeys(us, keys) ==
    /\ changes < MaxChanges
    /\ changes' = changes + 1
    /\ served' = [u \in Uris |-> IF u \in us THEN keys ELSE served[u]]
    /\ call' = StillSteady(served')
    /\ UNCHANGED <<now, document, state>>

(* ... or publishes another place in its discovery document.               *)
MoveKeys(u) ==
    /\ changes < MaxChanges
    /\ changes' = changes + 1
    /\ document' = u
    /\ UNCHANGED <<now, served, state, call>>

VerifierNext ==
    \/ \E c \in Calls :
         \/ \E kid \in Kids \cup {NoKid} : VerifyToken(c, kid)
         \/ VerifyOpaqueToken(c)
         \/ RuntimeStep(c)
         \/ VerifyWithCurrentJwks(c) \/ VerifyWithRefreshedJwks(c)
         \/ VerificationFails(c) \/ Answer(c)
         \/ Introspect(c) \/ IntrospectionAnswered(c)
    \/ \E us \in (SUBSET Uris) \ {{}}, keys \in KeySets : RotateKeys(us, keys)
    \/ \E u \in Uris : MoveKeys(u)
    \/ Tick

VerifierSpec == VerifierInit /\ [][VerifierNext]_runtimeVars

-----------------------------------------------------------------------------
(* Properties                                                              *)

CallRecords ==
    [pc : Inside \cup Ended \cup {"ready", "refreshed"}, stage : Stages,
     kid : Kids \cup {NoKid}, steady : BOOLEAN,
     got : Metadata, began : 0 .. now]

(* The state has its type.                                                 *)
VerifierTypeOK ==
    /\ now \in Nat /\ changes \in Nat
    /\ document \in Uris
    /\ served \in [Uris -> SUBSET Kids]
    /\ state \in [metadata : Metadata, metadataAt : 0 .. now, jwksAt : 0 .. now]
    /\ call \in [Calls -> CallRecords]

(* A token whose key the provider serves all the while is not refused for  *)
(* want of that key, however many other calls store older key sets, or     *)
(* metadata with another jwks_uri, in between: the retry looks at what it  *)
(* fetched itself.                                                         *)
PublishedKeyIsFound ==
    \A c \in Calls : At(c, "unknownKey") => ~call[c].steady

(* What `metadata` is about to return was stored less than a refresh       *)
(* interval before it was asked for, although the age is checked in one    *)
(* critical section and the metadata read in a later one, and other calls  *)
(* store between the two.                                                  *)
MetadataIsFresh ==
    \A c \in Calls : At(c, "readMetadata") =>
        /\ JwksInterval > 0 => state.jwksAt + JwksInterval > call[c].began
        /\ Discovery /\ MetadataInterval > 0 =>
               state.metadataAt + MetadataInterval > call[c].began

(* What the verifier relies on the runtime's cache for: keys that stay     *)
(* published are found, and what is handed out is fresh.                   *)
VerifierFindsAndRefreshes == PublishedKeyIsFound /\ MetadataIsFresh
=============================================================================
