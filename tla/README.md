# securitydept: specifications and proofs

TLA+ models of the authentication code of securitydept, the TLC runs that
check them on small instances, and TLAPS proofs of the properties that matter
most for every value of the constants. Every definition that stands for code is
listed with its source lines in `PROJECT.json` ("map").

## The system

securitydept authenticates users and requests for web applications. It is a
set of Rust crates, a reference server and command line tool built from them,
a TypeScript SDK for browsers, a reference web application, and the scripts
that release them.

| part | where | state it owns | operations that change it |
|---|---|---|---|
| credential store | `packages/creds-manage` | the data file, a snapshot in memory, the hash of its own last write | seven mutations, the sync task (watcher or polling), load |
| OIDC code flow of the server | `packages/oidc-client`, `packages/token-set-context/src/backend_oidc_mode`, `packages/session-context` | pending logins, one-time redemption ids, sessions | login, callback, refresh, redeem, logout |
| provider metadata and keys | `packages/oauth-provider` | cached metadata and JWKS with two ages | refreshes by the calls that need them |
| token verification | `packages/oauth-resource-server` | uses the cache above; local JWE keys | verify, introspect, reload of local keys |
| real-ip resolution | `packages/realip` | a registry of address lists | refresh and watch tasks, resolution |
| request authentication | `apps/server`, `packages/basic-auth-context` | none of its own | middleware, forward-auth, zones |
| token-set client | `sdks/ts/packages/token-set-context-client` | auth material, signal, persisted record, refresh timer, refresh barrier, pending logins, configuration cache | callbacks, refresh, ensure, restore, clear, dispose, discovery |
| client registry, callback resume | same package, `registry/` | entries, indexes, services, the page's callback state | register, materialize, warm up, reset, dispose, resume |
| auth coordination, web router | `sdks/ts/packages/client` | the active route's plan; navigations in flight | activate, resolve, navigate |
| client foundations | `sdks/ts/packages/client` | cancellation tokens, signals, environments, reconcilers | cancel, set, materialize, reset, page and storage events |
| framework adapters | `*-react`, `*-angular` | registries they made, subscriptions, query caches | mount, unmount, guards, interceptors, mutations |
| session and basic-auth clients | `session-context-client`, `basic-auth-context-client` | the last user info; none | refresh, logout; redirects to a zone's login |
| reference web application | `apps/webui` | the context mode, the guard's last answer, clients, requests of its pages | navigation, login, logout, requests |
| release tooling | `scripts` | manifests, commits, tags, registries | version set and check, tests, plan, publish, tag |

The server talks to an identity provider and to reverse proxies; the SDK talks
to the server (backend mode) or to the provider (frontend mode), to the
browser's stores and to other tabs through them.

What makes it hard: tasks of a multi-threaded runtime that interleave at every
lock and every request (server), calls that overlap at every `await` on one
thread (SDK), processes that share a file, futures that are dropped half way,
crashes and restarts that lose what is in memory, stores that fail, caches that
are refreshed by several calls at once, one-time codes that come twice, timers
that race with a sign-out, callbacks that call back into the code that runs
them, releases that stop half way. `PROJECT.json` lists these hazards one by one at the
line where they bite, with the properties that would catch them.
## Modules

How steps are cut: JavaScript runs one continuation at a time, so everything
between two `await`s is one action. A Rust task may be preempted anywhere, so
every lock acquisition, every operation on a shared store and every request is
an action of its own. Requests to other systems succeed with any answer those
systems can give, or fail.

### Credential store
- `CredsDataFile`: the data file and the seven operations on it, as functions
  from a file to a file with the condition under which they are accepted.
  Secrets and file formats are left out; `updated_at` is kept, because the
  operations differ in what they touch. Requests that are refused before the
  store is entered (empty user name or password) change nothing and are not
  modelled.
- `CredsManageStore`: several processes with a store on one file. A call takes
  `io_lock`, its blocking task takes the sidecar lock, reads, applies, renames,
  and the call records the hash and publishes the snapshot. The future of a call
  may be dropped at any `await`; the blocking task then runs on. The sync task
  reloads after events or by polling. A process may crash between any two steps.
  A hash is modelled by the content it is the hash of. `ExternalEdit` is another
  program that replaces the file, taken to do so while no store holds the
  sidecar lock (a program that ignores the lock could destroy any update).
- `CredsFileSerial`: what the file promises. One variable, one action: an
  accepted request is applied to the file as it is. `CredsManageStore` implements it.

### Token-set client
- `OidcModeClient`: the pure token operations (`getTokenFreshness` with its cap for
  short-lived tokens, the usability and refresh tests, `mergeTokenDelta`), and the
  base client with the flows of the backend and the frontend mode. A call that has not returned is a *task*. Each action either
  makes no store call, makes one, or settles one; `io` is the queue of unsettled
  store promises. The stores of the SDK take effect when called and settle in the
  order of the calls, hence a queue; `clearState({clearPersisted: false})` makes no store
  call and overtakes it. `HostOverlaps` separates hosts that restore before
  anything else from hosts that restore at any time: the reference application
  does so in its cross-tab synchronisation (`apps/webui/src/lib/tokenSetFrontendModeClient.ts:132`),
  and the auth service of the React and Angular adapters starts a restore when it
  is made, while a callback may follow.
- `AuthRegistry`: the registry of clients: entries, six indexes, synchronous and
  asynchronous factories, lazy and idle materialization, reset, dispose.
- `CallbackResume`: extends the registry with the callback page's controller,
  whose attempts wait for a client of the registry.
- `RouteOrchestrator`: the plan of the matched routes with the planner inside it.
  All is synchronous; what interleaves is re-entrance, so the calls that wait for
  a callback are the frames of a stack. A callback may activate, resolve, decide,
  deactivate, return or throw.
- `WebRouter`: navigations that wait for their guards together, under the History
  and under the Navigation adapter, with the planner host's evaluation and the
  composition of requirements along a route chain. The order of the options plays no
  part, so an effective client set is a set. Matching a path is membership
  of the mounted pages; the session history is seen through the page's URL.

- `FrontendLogin`: the logins of frontend-mode clients on one page, by redirect and
  by popup: the authorization request, the pending record it leaves in the session
  store, the callback that takes it, the record of what was consumed, and the relay
  with its closed-window poll and timeout. A state stands for what is kept with it
  (verifier, nonce, redirect URI). The page may be reloaded at any step.
- `ConfigSources`: where a page's configuration comes from: the ordered sources,
  validation, the persisted copy with its age, and its revalidation in idle time.
  A projection is what a server may really send: fields may be missing or malformed.
- `FrontendDiscovery`: discovery by the calls that need it, the interval that
  repeats it, overridden endpoints, issuers that differ in a trailing slash.
- `BackendBrowser`: the callback fragment of the backend mode from the URL to the
  store to the client, popup logins, and the redemption of metadata, which the
  server honours once. `CallsOverlap` separates hosts that make one call at a time,
  as the reference application does, from others.
- `TokenUse`: the header of a request, by the Angular interceptor (which picks a
  client of the registry by URL) and by the authorized transports, and the handles a
  client issues for its tokens.
- `PageResume`: the events of a page that comes back, their throttle, and the
  check of the snapshot they ask for. Timers do not run in a hidden page.
- `FrontendHost`: the web application's one client behind a facade, and the storage
  events of other tabs. One step is one macrotask: `localStorage` is synchronous.

### Foundations, adapters and pages
- `Cancellation`: tokens, linked tokens and the requests that follow them. A
  listener may cancel or unsubscribe during a delivery, so the loops in progress are
  a stack in the state. `Signals` is built the same way: a listener may set a signal.
- `EnvironmentService`: the three layers of an environment, each with its cached
  value, error or promise, and `reset`, which a materialization in flight outlives.
- `FrameworkAdapters`: who disposes what a provider made. React runs effect,
  cleanup and effect of a StrictMode mount in one task and disposal waits for a
  microtask; Angular disposes in `onDestroy`. With the callback pages of both.
- `RouteGuards`: the guard of the TanStack router, which asks for one requirement
  after the other, and Angular's, which waits for every client and decides once,
  with the composition of requirements along a chain.
- `SessionContext`: the cookie-session client under its controller. A request is
  sent, served and answered in separate steps.
- `BasicZones`: zones of paths, the redirect to a zone's login and back, and the
  browser that keeps credentials per zone. A path is a sequence of segments.
- `WebuiAccess`: the guarded pages of the web application, the module variable
  with the guard's last answer, the login chooser, and the four ways to sign out.
- `BackendPlayground`: the requests of the playground page. Each family keeps the
  cancellation source of its latest request, and drops the answers of others.
- `DashboardData`: the query and mutation hooks of both authentication modes over
  a query cache, and the server's answers with their status. An answer on its way
  knows which of the others were given before it. React Query is external, modelled
  by what the hooks ask of it.

### Release tooling
- `ReleasePipeline`: `version set` (which may stop half way), `version check`,
  commit and push, the Tests workflow with its reuse of an earlier success, the
  Release workflow: plan, validation of the source, three publish jobs that query a
  registry before they publish, and the tag. Any command may fail and a run
  may be followed, or overlapped, by another. History is linear. `ShaFollowsRef`
  says that a run's `source_sha` is the commit of its `source_ref`, as in every run that
  the Tests workflow dispatches.

### Server
- `RequestAuth`: what the server does with a request. The dashboard middleware
  tries a bearer token, then the session cookie, then basic credentials; the
  mirror under basic auth only the last; forward-auth reads the group and its two
  lists of entries from the store, one snapshot after the other. Behind them are
  the handlers that change the credentials (the operations of `CredsDataFile`)
  and the one that propagates. Sessions open and end, tokens verify or not and
  addresses resolve or not as the environment pleases; those parts have modules
  of their own. A credential is modelled by what it belongs to.
- `Propagation`: the policy of `TokenPropagator` and the forwarding of a request.
  What a rule's name, suffix, expression or network covers is a set of hosts. The
  target is resolved once by the validation and once by the forwarder, and the
  node resolver may be replaced at any time in between.
- `ServerLogin`: both services that log users in through the one OIDC client,
  with the pending store (expiry, eviction, restart), the exchange, sessions and
  metadata redemption. The provider is not assumed to refuse a code that comes
  twice. `ConfiguredPath` is the redirect path in the client's configuration,
  which `apps/server/src/config.rs:396` sets to the backend mode's.
- `TokenVerifier`: the provider runtime with its metadata cache, and the verification
  that refreshes it. The clock is monotonic; the provider may rotate its keys or
  change the place where it publishes them at any time.
- `Realip`: the registry of address lists, its refresh tasks (load and store are
  two steps), and resolutions that read it once per provider. `RealipSources` are the
  sources as configured.

### MC modules
`MCBackendMode`, `MCBrowserApp`, `MCOidcLive`, `MCCoordination`, `MCServer` and
`MCCommandLine` give the constants their values for several components that share
no variable. A variable `active` chooses at the start which component the
behaviour runs; the others stay in one initial state, so that the state spaces add up
and do not multiply. Components that do share state are composed by `EXTENDS`:
`CallbackResume` over `AuthRegistry`, `RequestAuth` over `CredsDataFile` and
`Propagation`.
## Runs

| run | instance | what it shows |
|---|---|---|
| `command_line` | credential file: two processes, a call in each, requests that conflict in names, ids and groups, one process polls. Releases: two node packages and two crates (one private, one dependency), a stable and a beta version, two commits, two runs, one failing command | the file and the snapshots stay well formed and the file is serial (refinement of `CredsFileSerial`); what is published comes from a consistent commit of the release branch, tags mark complete releases, retries complete, automatic releases were tested |
| `creds_live` | one process that polls, two calls, a crash, an edit from outside that may not parse | calls end; polling brings the snapshot to the file |
| `creds_stale` (violation) | one process with the watcher, two writes | the snapshot may stay behind the file for ever |
| `oidc_backend` | client: two overlapping calls and the barrier, two grants, disciplined host. Fragments: two page loads, a popup login, a fragment that does not parse. Headers: two clients, one request, two tokens. Cancellation: two sources and their linked token, two requests. Playground: two requests per family. Pages: two guarded pages, two navigations, two contexts. Dashboard: a list and a detail, one write, both modes | signal and material agree at rest and only logins establish a session; a captured fragment is used or kept; headers and handles stand for the material of the moment; requests follow their tokens; late answers are dropped; a login returns to the refused page; what counts as fresh is current |
| `browser_app` | client: one call and the barrier, three grants, a host that restores and clears at any time. Configuration: two pages, valid and malformed projections. Discovery: three kinds of calls. Tabs: two calls, three tokens, two clients. Resume: a throttle of two units in seven. Session: two logouts. Basic auth: nested zones. Signals: two signals, a computed one, two listeners, one of which sets. Environment: five resolutions, a reset. Adapters: three registries under StrictMode | the timer belongs to the material and the tokens of a snapshot to one login; pages boot from valid configurations; discovery is kept up; tabs agree; a resumed page is checked; no page is left loading; one login opens a page; signals at rest are current; cached layers are built on each other; providers dispose what they leave and nothing else |
| `oidc_live` | client: one call and the barrier, stores that fail, dates that are no dates. Logins: two clients on one page, two flows, one state | calls return; a scheduled refresh happens; a code is exchanged once and by its client; every login ends |
| `oidc_signal` (violation) | two calls, a host that overlaps | the signal may differ from the material at rest |
| `client_coordination` | registry: a lazy asynchronous and an eager synchronous client, two registrations, two attempts, a reset, a warmup. Orchestrator: six chains, two calls that wait for callbacks. Router: two navigations, two pages, two clients, both adapters. Guards: two of each framework | one client per registration and no event or service of a disposed one; one attempt per callback, no page left pending; answers stay with their requirement and the host is told; guards cover the chain and admit what was found met |
| `server` | sign-ins: two logins, two requests in flight, two redemption ids, an allowed and a refused target. Requests: two in flight out of twelve that mix routes, credentials and directives, over a file of two groups and two entries. Propagation: two in flight, two resolvers, an open, a listed and a sensitive host. Verifier: two calls, two keys, two places. Real-ip: two providers, three addresses, one request | one exchange per state, with its own redirect_uri; checked targets are reached; logout and redemption are final; requests are answered by the credentials they carry; a named host is reached as the policy allows; a published key is found and metadata is fresh; only listed peers speak for a client |
| `server_refresh` (violation) | as `server` | the metadata of a refresh that redirects never arrives |
| `propagation_target` (violation) | as `server` | a node may be resolved to one origin for the check and to another for the request |
| `dashboard_delete` (violation) | one write in either mode | a delete that took effect is reported as a failure and stays on screen |

Every operation on the credential file is used in one of `command_line`,
`creds_live` and `server`; that all sequences of them keep it well formed is proved.
A property that joins several promises of one component (`ReleasesAreTraceable`,
`RegistryIsConsistent`, `RealipTrustsItsPeers` and others) is a conjunction of named
parts, each with a comment and each with a mutated definition that breaks it.

### Bounds
Two of each actor is what an interference between two of them needs: two calls
race for the lock, the barrier or the cache, and a third adds no new pair. Three
grants are needed before a refresh of an old login can meet a new one. A clock
of three or four units passes through fresh, due and expired with the
windows set to one; timer slices are one unit, so a delay takes several. Seven units
hold two throttle windows and the expiry of a token between them. One
crash and one edit may fall between any two steps. Two redemption ids are
enough for one to be redeemed while the other is issued. The metadata clock
of one interval separates fresh from stale, and what the calls know of the age
is a difference. One state and two flows make a callback that comes twice; a second
state would be an independent login. Two commits are an older and a newer source;
one fault may hit any command of any run, and the run after it is the retry. In
`command_line` the release part is split over `active`: edits with one run, tests
with pushes, and two overlapping runs on two commits, since runs read the tests
only through the set of verified commits. Symmetry is used over calls, logins,
requests and processes in runs without liveness.

### Fairness
`creds_live`: tokio runs every ready task and `io_lock` is a fair queue; nothing
is assumed of callers, crashes, edits or failing I/O (a failure is an
alternative to progress, never required). `oidc_live`: the browser runs
continuations and due timers, requests end one way or the other, time passes; the
steps of a login are fair, its timeout among them, and the person who signs in
need not do anything. `client_coordination`: factories and handlers settle, which
is the host's promise; idle callbacks, registrations and resets need not happen.

### Deadlock
The runs of the credential store and the release tooling end when all calls and
runs have been made, and `dashboard_delete` when its write has; they say so. All
others check for deadlock. Inside them, the components named in `MayRest` (and
the logins and guards) have a bounded number of calls and may rest when these are
made: there the MC module adds a stuttering step. That no call of theirs waits for ever is
stated where it matters (`LoginsEnd`, `NeverLeftLoading`, `CapturedCallbackSurvives`).
## Disagreements between the code and its documentation

- `creds_stale`: `reload_if_external` is not ordered with the writers. It may
  read the file, lose the processor while a mutation commits and publishes, and
  then store the older content. The event of the mutation finds its own marker
  and is skipped, so the snapshot stays old although the store
  "synchronizes it with disk" (`store.rs:44`). Polling has no such end:
  `creds_live` shows that it recovers.
- `oidc_signal`: `clearState` and `_applySnapshot` set the signal after their
  `await`, to the value of their own call, and restores do not wait for them.
  The "read-only signal exposing the current auth state snapshot"
  (`base-client.ts:216`) can be null beside a restored material for as long as
  nothing else happens. `SignalCorrect` proves the agreement for hosts that
  restore first.
- `server_refresh`: `issue_metadata_delta` issues an id only `if
  delta.is_empty()`, and the delta of a refresh never is, against "Issue
  metadata redemption if active AND metadata is non-empty" (`runtime.rs:592`).
- `propagation_target`: `forward` asks the propagator for the header, which
  resolves and validates the target, and then for the origin, which resolves it
  again. A node resolver that is replaced in between makes the two differ, against
  "Forward the original bearer token only after destination and token checks
  pass" (`propagation/config.rs:10`). Directives name their host, so the server's own
  requests are not concerned (`ForwardsUnderPolicy`); callers of `propagate_bearer`
  with a node target are.
- `dashboard_delete`: `deleteEntryWithTokenSet` and `deleteGroupWithTokenSet` accept
  only status 204 (`react-query/index.ts:433`, `:586`), and the server's handlers answer
  200 with `{"ok": true}` (`apps/server/src/routes/entries.rs:311`). The item is gone, the
  mutation rejects and nothing is invalidated, against the "canonical invalidation
  for token-set management flows" of `docs/en/007-CLIENT_SDK_GUIDE.md:483`. The web
  application's own `api/tokenSet.ts:342` accepts the 200.

Smaller observations, for which nothing in the repository states the opposite or
which need a host that the repository does not have, are the notes of the hazards
in `PROJECT.json`.
## Proofs

| module | theorems | for all |
|---|---|---|
| `OidcModeClientProofs` | `CoreCorrect`, `SignalCorrect`, `TimerCorrect`, `FrontendTokensOfOneLogin`, `SignOutStands` | calls, hosts, lifetimes, clocks |
| `CoordinationProofs` | `RegistryBooksAgree`, `CallbackAttemptsOwned`, `OneExchange` | keys, registrations, attempts, clients, logins, windows |
| `FoundationsProofs` | `EnvironmentLayersAgree`, `RequestsFollow`; `ApplyWellFormed`, `FileStaysWellFormed`, `FileIsSerial` | resolutions, resets, tokens, requests, nested cancellations; ids, names, files, processes, edits, crashes |
| `RouteProofs` | `RequirementsSettledOnce`, `GuardsCoverChains`, `AdmittedRoutesAreChecked`, `OneLoginEach`, `RealipIsTrusted` | chains, depths of callbacks, navigations, clients, zones, paths, providers, sources, headers |
| `BrowserAppProofs` | `BootedConfigValid`, `DiscoveryKeptUp`, `HostTabsAgree`, `ResumedPageChecked`, `SessionNeverLeftLoading`, `SignalsSettle`, `ProvidersDispose` | sources, tabs, calls, signals, listeners, mounts |
| `BackendModeProofs` | `CallbackSurvives`, `TokensFit`, `LateAnswersDropped`, `RefusedPageIsOffered`, `FreshQueriesStayCurrent` | fragments, clients, tokens, requests, pages, queries, mutations |
| `ServerProofs` | `ServerLoginCorrect`, `LoginsLand`, `EndedForGood`, `VerifierCorrect`, `RequestsJustified`, `ForwardsFollowPolicy`, `RequestsForwardUnderPolicy` | logins, requests, calls, keys, intervals, data files, policies, resolvers |
| `ReleasePipelineProofs` | `ReleasesTraceable` | packages, versions, runs, faults, lengths of history |

Almost every theorem states a property that a run checks. Each inductive invariant
was also model-checked on that run's instance. The proofs share one
layout: a predicate says what is good of *one* record (a task, a request, a page, a
delivery) given the shared state; one lemma says that a step which moves one record
leaves the others good; each action is then left with its own record.

**Credential store.** Well-formedness of the file is not inductive: a writer holds a
changed copy. The invariant adds that a task between reading and renaming holds the
sidecar lock and that its copy is its request applied to the file *as it still is*
(`StagedFromDisk`). From it follow both theorems: the copy is well formed by
`ApplyWellFormed`, and the rename is a step of the serial file. Assumed: files that
no store wrote are well formed when they parse (`WellFormedInputs`).

**Token-set client.** That the signal equals the material at rest says nothing about
states with pending store calls. The invariant `Agreement` says who will repair the
signal: the youngest pending write carries the material. It needs to know that `io`
holds exactly the tasks that wait for the store, each once (`QueueNames`), and that
with a disciplined host a restore runs alone. The actions fall into three kinds
(quiet, call the store, settle); what each kind does is proved once. `SignalCorrect`
assumes `Disciplined`: the host restores first, the store does not fail; without it
the property is false (`oidc_signal`). `TimerCorrect` needs less, because a
scheduling reads the material of its moment and not its own snapshot. `TimerInv`:
the timer is the one that the material needs, or some task *owes* a scheduling (it
saves, has loaded a record, or returns from a restore). It assumes that the store
does not fail, since a failed save skips its scheduling. `FrontendTokensOfOneLogin`
is about the frontend mode (the backend mode merges an answer into whatever material
is there), `SignOutStands` about the backend mode (the frontend mode replaces the
material without looking).

**Registry, callback page, frontend login.** `RegistryIInv` follows a registration
through its factory: an entry that is neither ready nor pending has made no client,
a service was made by a registration of its key, the subscriptions are those of the
services, and the lists of every label hold the keys in the order of their
registration. For the callback page, an attempt made since the last reset is the one
in the cache (`Remembered`), so a second call joins it. For the login, `Placed` says
where a state is: not issued, in the pending store, held by the one callback that
took it, or exchanged; a reload loses it in each of these places without a second
exchange.

**Application parts.** `SignalsIInv` and `CancelIInv` explain re-entrance: whoever
has not the latest value, or was not told of a cancellation, is still to be called
by a loop on the stack. `EnvironmentIInv`: a resolution of the present generation
builds on the cached value below it, and its layer waits for no other.
`AdapterIInv`: an object made is on screen with one mount, disposed, or has its
check in the queue. `HostIInv`: a token shown after the stored one is gone has the
removal event on its way. `BrowserIInv`: the store holds the fragment a call works
on or nothing, so clearing it loses no other one. `UseIInv`: tokens and handles
belong to one client and ended ones are in no place that a header is made from.
`PageIInv`: a family's ref holds its latest request, and none that was forgotten.
Assumed where the property is false otherwise: `~DisposeMidCall` (`HostTabsAgree`),
`~CallsOverlap` (`CallbackSurvives`); both say what the reference application does.

**Dashboard.** That a fresh query is current at rest says nothing while answers are
on their way. The invariant `NewsFollows` says who will repair a query that is
outdated: the answer to a write that touched it is on its way, or a handler that is
running has a statement left that reaches it; and an answer to a query that is
outdated already is followed by the answer to such a write. `AnswerAwaited` (an
answer has its query or mutation waiting for it, and is the only one) keeps the
order meaningful, and `HandlersReach` shows for every write and mode that the
statements of `onSuccess` reach every query the write touches. Assumed: `InOrder`.
With answers that overtake each other the property is false: the news of a write may
come before an older answer.

**Loops over chains, zones and headers.** The models write a loop as a recursive
function over the rounds. That its values exist, and that what a round keeps holds
after all of them, is proved once (`Recursion`, `Iterates`, `Reached`, `UpTo`) from
the least-number principle, with a *set* in the place of the predicate, which the
provers can instantiate. With it: `mergeChainRequirements` lists no requirement
twice; `extractFullRouteRequirements` computes exactly what the segments of a chain
declare, each id from its deepest segment that counts; `EffectiveRequirements` lists
every requirement that binds a route, each id once; `zoneForPath` finds the most
specific zone; the real-ip resolver reads, for a source, only providers that the
source names, and a parsed header holds only addresses.

**Routes.** `OrchestratorIInv`: with a plan, the last callback is about the current
state whichever calls still wait on the stack, which is more than the property asks.
For the guards the invariant says of each navigation which requirements it has found
met so far and that the list it goes through is that of its chain; clients may
change in between, since the property is about what was seen.

**Real-ip.** `published` may be overwritten with a copy that is out of date, so the
invariant says of the copies that the tasks hold what it says of the registry: a
provider that keeps its last good list has one. A request has collected only
addresses that a provider of the source listed while the request ran.

**Server.** One exchange per state needs that a login in the store was not taken,
that each taken login is held by at most one request (`OneHolder`), and that a login
that ended in a session was taken. The verifier: `SteadyInv` (as long as a call's
key has stayed published since it began, the keys fetched for its retry hold it) and
`AgeInv` (a call that passed the check of an age uses what was fetched less than an
interval before the call began). A request: what each read has shown is kept with
the snapshot it was read from, which the history `seen` holds. A propagation: what
the two validations say of a target with a host does not depend on the resolver of
their moment; of a target with only a node it does, which is the finding of
`propagation_target`.

**Release tooling.** What a registry holds says nothing about the run that comes
next, so `ReleaseInv` follows every run from step to step. `GateInv`: what is known
of its source (one commit, consistent once planned, held by the release branch once
validated, and a tag it was started for still points to it). `NpmJobInv`,
`CratesJobInv`, `DockerJobInv`: the packages before the one a job is at are out,
which is why cargo accepts the next crate and why a job fails only for a reason of
its own. `TaggedInv`: the run that pushed a tag is over, so nothing it says can
change. All of it is stable because history, tags and registries only grow
(`Grows`). Assumed: `ShaFollowsRef`, that something is published, and that
`CRATE_DEPENDENCY_ORDER` lists a crate after those it depends on
(`PackageAssumption`; so it does in the repository's manifests). The filter of the
private packages is typed by assumption, since `SelectSeq` is recursive.

What stays with TLC is liveness under fairness, which is outside the prover:
`StoreMakesProgress`, `CallsReturn`, `ScheduledRefreshHappens`, `LoginsEnd`,
`PendingEnds`.

Every safety invariant and action property of a passing run is proved.
## Not modelled

`PROJECT.json` lists every component with the reason why a part is left out.

- Server: the hot reload of JWE keys (one writer behind a lock; what it can miss is
  listed as a hazard), the device flow, revocation and user info (requests of one caller
  that the server does not use), the claims script, the sealing of refresh tokens, the
  `caller_validated` redirect policy, the development login, the policy catalogue and
  health report, defaults and validation of configuration fields.
- SDK: auth events beyond their forwarding by the registry, event operators,
  traces, error presentation, user info, the claims of an id token; providers and hooks
  of the adapters that only hand a value down.
- Web application: markup, form fields and trace views.
- Scripts: metadata synchronisation, the feature-gate script, test runners and dry-run
  reports. The moving tags of a Docker image are one channel tag.
- Instances that are known to behave otherwise and that no host in the repository
  uses are constants of the modules and off in the runs: `CallsOverlap`
  (`BackendBrowser`), `DisposeMidCall` (`FrontendHost`), `ShaFollowsRef = FALSE`
  (`ReleasePipeline`: a run started by hand that names a tag and another commit; the
  validation does not compare the two), answers out of order (`InOrder = FALSE` in
  `DashboardData`).

Left out for good: cryptography, hashing and encoding, the wording of errors and
logs, HTTP itself, and how Docker, Kubernetes or commands are asked for address lists.

Next: abstract specifications of a session that is out or in, and of a one-shot
resume, with `OidcModeClient` and `CallbackResume` as their implementations.
