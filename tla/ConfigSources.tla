--------------------------- MODULE ConfigSources ---------------------------
(***************************************************************************)
(* Where a page's frontend OIDC configuration comes from: an ordered list  *)
(* of sources (inline, bootstrap script, persisted copy, network), the     *)
(* copy that pages leave in the store, and its idle-time revalidation.     *)
(*                                                                         *)
(* A raw projection is what a server or a script may really send: required *)
(* fields may be missing and optional ones malformed.                      *)
(***************************************************************************)
EXTENDS Naturals, Sequences

CONSTANTS
    ConfigPages,    \* pages that share the store
    Sources,        \* the sources of each page, in order
    Bootstraps,     \* what the bootstrap script of each page holds
    Projections,    \* what the configuration endpoint may answer
    MaxAge,         \* the age up to which a projection is fresh
    MaxConfigTime   \* bound on the clock

SourceKinds == {"inline", "network", "persisted", "bootstrap_script"}

Absent == [missing |-> {}, malformed |-> {"everything"}, generatedAt |-> 0]

ASSUME ConfigAssumption ==
    /\ Sources \in [ConfigPages -> Seq(SourceKinds)]
    /\ Bootstraps \in [ConfigPages -> Projections \cup {Absent}]
    /\ Absent \notin Projections
    /\ MaxAge \in Nat /\ MaxConfigTime \in Nat

VARIABLES
    stored,       \* the store: the envelope of a projection
    configPages,  \* each page's boot, what it resolved and its revalidation
    configTime

configVars == <<stored, configPages, configTime>>

(* A generatedAt of 0 stands for a projection that does not carry one.     *)
NoEnvelope == [data |-> Absent, generatedAt |-> 0]
NewPage == [pc |-> "off", source |-> 1, resolved |-> NoEnvelope, kind |-> "none", idle |-> "none"]

ConfigInit ==
    /\ stored = NoEnvelope
    /\ configPages = [p \in ConfigPages |-> NewPage]
    /\ configTime = 1

Page(p) == configPages[p]
SetPage(p, page) == configPages' = [configPages EXCEPT ![p] = page]

-----------------------------------------------------------------------------
(* FrontendOidcModeConfigProjectionSchema: the first field that is wrong   *)
(* rejects the projection.                                                 *)
validateConfigProjection(raw) ==
    /\ raw # Absent
    /\ {"clientId", "redirectUrl"} \cap raw.missing = {}
    /\ raw.malformed = {}

unwrapEnvelope(envelope) ==
    [data |-> envelope.data,
     generatedAt |-> IF envelope.generatedAt # 0 THEN envelope.generatedAt ELSE envelope.data.generatedAt]

Source(p) == Sources[p][Page(p).source]

(* A source that fails, is empty or is invalid gives way to the next one.  *)
Skip(p) ==
    IF Page(p).source = Len(Sources[p]) THEN [Page(p) EXCEPT !.pc = "failed"]
    ELSE [Page(p) EXCEPT !.pc = "resolving", !.source = @ + 1]

parseAndWrap_Trusting(p, kind, envelope) ==
    IF envelope.data # Absent
    THEN [Page(p) EXCEPT !.pc = "ready", !.kind = kind, !.resolved = envelope]
    ELSE Skip(p)

parseAndWrap(p, kind, envelope) ==
    IF validateConfigProjection(envelope.data)
    THEN [Page(p) EXCEPT !.pc = "ready", !.kind = kind, !.resolved = envelope]
    ELSE Skip(p)

resolveConfigProjection(p) ==
    /\ Page(p).pc = "off"
    /\ SetPage(p, [NewPage EXCEPT !.pc = "resolving"])
    /\ UNCHANGED <<stored, configTime>>

ResolveInline(p) ==
    /\ Page(p).pc = "resolving" /\ Source(p) = "inline"
    /\ SetPage(p, [Page(p) EXCEPT !.pc = "ready", !.kind = "inline"])
    /\ UNCHANGED <<stored, configTime>>

bootstrapScriptSource(p) ==
    /\ Page(p).pc = "resolving" /\ Source(p) = "bootstrap_script"
    /\ SetPage(p, parseAndWrap(p, "bootstrap_script",
                               [data |-> Bootstraps[p], generatedAt |-> Bootstraps[p].generatedAt]))
    /\ UNCHANGED <<stored, configTime>>

persistedConfigSource(p) ==
    /\ Page(p).pc = "resolving" /\ Source(p) = "persisted"
    /\ SetPage(p, parseAndWrap(p, "persisted", unwrapEnvelope(stored)))
    /\ UNCHANGED <<stored, configTime>>

networkConfigSource(p) ==
    /\ Page(p).pc = "resolving" /\ Source(p) = "network"
    /\ SetPage(p, [Page(p) EXCEPT !.pc = "fetching"])
    /\ UNCHANGED <<stored, configTime>>

(* The server sends what it generates now; the answer may be on its way    *)
(* for long.                                                               *)
Answers == {raw \in Projections : raw.generatedAt <= configTime}

NetworkAnswers(p, raw) ==
    /\ Page(p).pc = "fetching"
    /\ SetPage(p, parseAndWrap(p, "network", [data |-> raw, generatedAt |-> raw.generatedAt]))
    /\ UNCHANGED <<stored, configTime>>

NetworkFails(p) ==
    /\ Page(p).pc = "fetching"
    /\ SetPage(p, Skip(p))
    /\ UNCHANGED <<stored, configTime>>

-----------------------------------------------------------------------------
persistConfigProjection(p) ==
    /\ Page(p).pc = "ready"
    /\ Page(p).resolved # NoEnvelope
    /\ stored' = Page(p).resolved
    /\ UNCHANGED <<configPages, configTime>>

(* A projection that does not say when it was generated counts as stale.   *)
Fresh(p) ==
    LET generatedAt == Page(p).resolved.generatedAt IN
    generatedAt # 0 /\ configTime - generatedAt <= MaxAge

scheduleIdleRevalidation(p) ==
    /\ Page(p).pc = "ready" /\ Page(p).idle = "none"
    /\ ~Fresh(p)
    /\ SetPage(p, [Page(p) EXCEPT !.idle = "scheduled"])
    /\ UNCHANGED <<stored, configTime>>

CancelIdleRevalidation(p) ==
    /\ Page(p).idle = "scheduled"
    /\ SetPage(p, [Page(p) EXCEPT !.idle = "none"])
    /\ UNCHANGED <<stored, configTime>>

IdleCallback(p) ==
    /\ Page(p).idle = "scheduled"
    /\ SetPage(p, [Page(p) EXCEPT !.idle = "fetching"])
    /\ UNCHANGED <<stored, configTime>>

(* What the network sends is stored as it came, without validation.        *)
doRevalidate(p, raw) ==
    /\ Page(p).idle = "fetching"
    /\ stored' = [data |-> raw,
                  generatedAt |-> IF raw.generatedAt # 0 THEN raw.generatedAt ELSE configTime]
    /\ SetPage(p, [Page(p) EXCEPT !.idle = "done"])
    /\ UNCHANGED configTime

RevalidationFails(p) ==
    /\ Page(p).idle = "fetching"
    /\ SetPage(p, [Page(p) EXCEPT !.idle = "done"])
    /\ UNCHANGED <<stored, configTime>>

ConfigReload(p) ==
    /\ Page(p).pc # "off"
    /\ SetPage(p, NewPage)
    /\ UNCHANGED <<stored, configTime>>

ConfigTick ==
    /\ configTime < MaxConfigTime
    /\ configTime' = configTime + 1
    /\ UNCHANGED <<stored, configPages>>

PageStep(p) ==
    \/ resolveConfigProjection(p) \/ ResolveInline(p) \/ bootstrapScriptSource(p)
    \/ persistedConfigSource(p) \/ networkConfigSource(p) \/ NetworkFails(p)
    \/ \E raw \in Answers : NetworkAnswers(p, raw)
    \/ persistConfigProjection(p) \/ scheduleIdleRevalidation(p)
    \/ CancelIdleRevalidation(p) \/ IdleCallback(p) \/ RevalidationFails(p)
    \/ \E raw \in Answers : doRevalidate(p, raw)

ConfigNext ==
    \/ \E p \in ConfigPages : PageStep(p) \/ ConfigReload(p)
    \/ ConfigTick

ConfigSpec == ConfigInit /\ [][ConfigNext]_configVars

-----------------------------------------------------------------------------
(* Properties                                                              *)

(* A page never runs on a projection that the schema rejects, although the *)
(* revalidation of another page stores what the network sent unseen, and   *)
(* a boot that found nothing has really been through all of its sources.   *)
BootedConfigIsValid ==
    \A p \in ConfigPages :
        /\ Page(p).pc = "ready" /\ Page(p).kind # "inline" =>
             /\ validateConfigProjection(Page(p).resolved.data)
             /\ Page(p).kind = Source(p)
        /\ Page(p).pc = "failed" => Page(p).source = Len(Sources[p])
                                    /\ "inline" \notin {Sources[p][i] : i \in DOMAIN Sources[p]}
=============================================================================
