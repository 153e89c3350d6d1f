------------------------ MODULE EnvironmentService ------------------------
(***************************************************************************)
(* ClientEnvironmentService, which materializes the client, web and page   *)
(* environments of an application once each and hands the cached value,    *)
(* the cached error or the pending promise to every caller, until reset()  *)
(* discards all three.  A layer is built from the layer below it, by       *)
(* factories that may be asynchronous and may fail; a resolution that      *)
(* reset() overtook still answers the callers that hold its promise.       *)
(***************************************************************************)
EXTENDS Naturals, Sequences

CONSTANTS
    HasPage,            \* the host has a window with location and history
    GivenStores,        \* the stores the client environment was created with
    MaxResolutions,     \* bound: resolutions started
    MaxEnvironmentResets           \* bound: calls of reset()

VARIABLES
    states,         \* the EnvironmentServiceState of each layer
    resolutions,    \* the promises resolveState made, in order
    environmentResets          \* how often reset() was called

envVars == <<states, resolutions, environmentResets>>

Layers == {"client", "web", "page"}
LayerBelow == [web |-> "client", page |-> "web"]

NoEnvironment == [by |-> 0, parent |-> 0, stores |-> {}, preset |-> "none", page |-> FALSE]

createEnvironmentServiceState ==
    [generation |-> 0, has |-> "nothing", value |-> NoEnvironment, pending |-> 0]

EnvironmentInit ==
    /\ states = [l \in Layers |-> createEnvironmentServiceState]
    /\ resolutions = <<>>
    /\ environmentResets = 0

(* The environments the default factories build.  A page environment is    *)
(* derived from the web environment without its preset, takes the browser  *)
(* stores where none was given, and needs a page.                          *)
createWebClientEnvironment(r) ==
    [by |-> r, parent |-> 0, stores |-> GivenStores, preset |-> "none", page |-> FALSE]

deriveClientEnvironment(environment) == [environment EXCEPT !.preset = "none", !.page = FALSE]

withDefaultBrowserStores(stores) == stores \cup {"persistent", "session"}

createBrowserPageClientEnvironment(r, environment) ==
    [by |-> r, parent |-> environment.by,
     stores |-> withDefaultBrowserStores(deriveClientEnvironment(environment).stores),
     preset |-> "browser_page", page |-> TRUE]

Materialized(l, r, base) ==
    CASE l = "client" -> createWebClientEnvironment(r)
      [] l = "web"    -> [base EXCEPT !.by = r, !.parent = base.by]
      [] l = "page"   -> createBrowserPageClientEnvironment(r, base)

(* resolveState: a value, an error or a pending promise is handed out; the *)
(* first caller starts a resolution, which captures the generation.  rs    *)
(* and ss are the resolutions and states so far; the result names the      *)
(* promise a caller gets (0 when the layer is settled).                    *)
Resolving(l, ss, rs) ==
    IF ss[l].has # "nothing" THEN [states |-> ss, resolutions |-> rs, promise |-> 0]
    ELSE IF ss[l].pending # 0
    THEN [states |-> ss, resolutions |-> rs, promise |-> ss[l].pending]
    ELSE [states |-> [ss EXCEPT ![l].pending = Len(rs) + 1],
          resolutions |-> Append(rs, [layer |-> l, generation |-> ss[l].generation,
                                      phase |-> "queued", on |-> 0, base |-> NoEnvironment]),
          promise |-> Len(rs) + 1]

(* readState, and the resolve... and read... methods of each layer.        *)
resolveState(l) ==
    /\ states[l].has = "nothing" /\ states[l].pending = 0
    /\ Len(resolutions) < MaxResolutions
    /\ LET next == Resolving(l, states, resolutions)
       IN  states' = next.states /\ resolutions' = next.resolutions
    /\ UNCHANGED environmentResets

Settle_Always(r, phase, value, ss) ==
    [ss EXCEPT ![resolutions[r].layer].has = phase,
               ![resolutions[r].layer].value = value,
               ![resolutions[r].layer].pending = 0]

Settle(r, phase, value, ss) ==
    LET l == resolutions[r].layer
    IN  IF ss[l].generation = resolutions[r].generation
        THEN [ss EXCEPT ![l].has = phase, ![l].value = value, ![l].pending = 0]
        ELSE ss

(* Promise.resolve().then(materialize): a layer above the client asks for  *)
(* the layer below it first, with that layer's state as it is by then.     *)
MaterializeLayer(r) ==
    LET l == resolutions[r].layer
        below == Resolving(LayerBelow[l], states, resolutions)
    IN  /\ resolutions[r].phase = "queued"
        /\ IF l = "client"
           THEN /\ resolutions' = [resolutions EXCEPT ![r].phase = "creating"]
                /\ UNCHANGED states
           ELSE IF below.promise # 0
           THEN /\ Len(below.resolutions) <= MaxResolutions
                /\ states' = below.states
                /\ resolutions' = [below.resolutions EXCEPT ![r].phase = "waiting",
                                                            ![r].on = below.promise]
           ELSE IF states[LayerBelow[l]].has = "value"
           THEN /\ resolutions' = [resolutions EXCEPT ![r].phase = "creating",
                                                      ![r].base = states[LayerBelow[l]].value]
                /\ UNCHANGED states
           ELSE /\ resolutions' = [resolutions EXCEPT ![r].phase = "rejected"]
                /\ states' = Settle(r, "error", NoEnvironment, states)
        /\ UNCHANGED environmentResets

(* The promise of the layer below has settled.                             *)
Awaited(r) ==
    LET lower == resolutions[resolutions[r].on]
    IN  /\ resolutions[r].phase = "waiting"
        /\ \/ /\ lower.phase = "fulfilled"
              /\ resolutions' = [resolutions EXCEPT ![r].phase = "creating",
                                                    ![r].base = lower.base]
              /\ UNCHANGED states
           \/ /\ lower.phase = "rejected"
              /\ resolutions' = [resolutions EXCEPT ![r].phase = "rejected"]
              /\ states' = Settle(r, "error", NoEnvironment, states)
        /\ UNCHANGED environmentResets

(* The factory answers.  A fulfilled resolution keeps its value in `base'. *)
Created(r) ==
    LET l == resolutions[r].layer
        value == Materialized(l, r, resolutions[r].base)
    IN  /\ resolutions[r].phase = "creating"
        /\ \/ /\ l = "page" => HasPage
              /\ resolutions' = [resolutions EXCEPT ![r].phase = "fulfilled", ![r].base = value]
              /\ states' = Settle(r, "value", value, states)
           \/ /\ resolutions' = [resolutions EXCEPT ![r].phase = "rejected"]
              /\ states' = Settle(r, "error", NoEnvironment, states)
        /\ UNCHANGED environmentResets

resetState(state) ==
    [generation |-> state.generation + 1, has |-> "nothing", value |-> NoEnvironment, pending |-> 0]

reset ==
    /\ environmentResets < MaxEnvironmentResets
    /\ states' = [l \in Layers |-> resetState(states[l])]
    /\ environmentResets' = environmentResets + 1
    /\ UNCHANGED resolutions

EnvironmentNext ==
    \/ \E l \in Layers : resolveState(l)
    \/ \E r \in DOMAIN resolutions : MaterializeLayer(r) \/ Awaited(r) \/ Created(r)
    \/ reset

EnvironmentSpec == EnvironmentInit /\ [][EnvironmentNext]_envVars

(***************************************************************************)
(* The cached environments are layers of one another: a cached page        *)
(* environment was built from the cached web environment and that one from *)
(* the cached client environment, however resets and the answers of        *)
(* overtaken resolutions interleave.  A layer waits only for a resolution  *)
(* that is still under way.                                                *)
(***************************************************************************)
CachedLayersAgree ==
    /\ \A l \in {"web", "page"} : states[l].has = "value" =>
          /\ states[LayerBelow[l]].has = "value"
          /\ states[l].value.parent = states[LayerBelow[l]].value.by
    /\ \A l \in Layers : states[l].pending # 0 =>
          resolutions[states[l].pending].phase \notin {"fulfilled", "rejected"}

=============================================================================
