---------------------------- MODULE AuthRegistry ----------------------------
(***************************************************************************)
(* The multi-client registry of token-set clients (TokenSetAuthRegistry).  *)
(*                                                                         *)
(* A registration is numbered; the number also names the client that its   *)
(* factory makes and the service that wraps it.  The registry runs on one  *)
(* JavaScript thread: only an asynchronous factory and an idle callback    *)
(* take more than one step, and reset and dispose may fall in between.     *)
(***************************************************************************)
EXTENDS Naturals, Sequences

CONSTANTS
    Keys,          \* client keys
    Labels,        \* what a client is looked up by: URL patterns, callback
                   \* paths, requirement kinds, provider families
    Entries,       \* the entries that the host registers
    Warmups,       \* calls of idleWarmup
    MaxRegs        \* bound: registrations

ASSUME RegistryAssumption ==
    /\ Entries \subseteq [key : Keys, lazy : BOOLEAN, async : BOOLEAN, labels : SUBSET Labels]
    /\ MaxRegs \in Nat

VARIABLES
    regs,       \* the registrations made, in order
    entries,    \* keys of the entries, in insertion order
    regOf,      \* the registration of each key, 0 when it has none
    index,      \* the keys filed under each label
    services,   \* the materialized service of each key, or 0
    pending,    \* pendingRegistrations: the registration behind the promise
    factory,    \* what became of the factory of each registration
    clients,    \* the clients and promises that each factory has given
    subs,       \* authEventSubscriptions: the service subscribed to, or 0
    discarded,  \* services on which the dispose option was called
    idle        \* idle callbacks not yet fired, for each call of idleWarmup

regVars == <<regs, entries, regOf, index, services, pending, factory, clients,
             subs, discarded, idle>>

Regs == 1..MaxRegs

TypeOK ==
    /\ regs \in Seq(Entries)
    /\ Len(regs) <= MaxRegs
    /\ entries \in Seq(Keys)
    /\ regOf \in [Keys -> 0..MaxRegs]
    /\ index \in [Labels -> Seq(Keys)]
    /\ services \in [Keys -> 0..MaxRegs]
    /\ pending \in [Keys -> 0..MaxRegs]
    /\ factory \in [Regs -> {"none", "running", "done", "failed"}]
    /\ clients \in [Regs -> Nat]
    /\ subs \in [Keys -> 0..MaxRegs]
    /\ discarded \subseteq Regs
    /\ idle \in [Warmups -> SUBSET Keys]

Init ==
    /\ regs = <<>>
    /\ entries = <<>>
    /\ regOf = [k \in Keys |-> 0]
    /\ index = [l \in Labels |-> <<>>]
    /\ services = [k \in Keys |-> 0]
    /\ pending = [k \in Keys |-> 0]
    /\ factory = [r \in Regs |-> "none"]
    /\ clients = [r \in Regs |-> 0]
    /\ subs = [k \in Keys |-> 0]
    /\ discarded = {}
    /\ idle = [w \in Warmups |-> {}]

-----------------------------------------------------------------------------
(* Materialization.                                                        *)

\* A materialization that does not record the promise in flight.
MaterializeEntry_Unrecorded(k, r, e) ==
    IF services[k] # 0 \/ pending[k] # 0
    THEN UNCHANGED <<services, pending, factory, clients, subs>>
    ELSE /\ factory' = [factory EXCEPT ![r] = "running"]
         /\ clients' = [clients EXCEPT ![r] = @ + 1]
         /\ UNCHANGED <<services, pending, subs>>

\* materializeEntry for entry e of key k, registered as r.  A synchronous
\* factory gives the service at once or throws, leaving the entry as it is.
MaterializeEntry(k, r, e) ==
    IF services[k] # 0 \/ pending[k] # 0
    THEN UNCHANGED <<services, pending, factory, clients, subs>>
    ELSE \/ /\ e.async
            /\ factory' = [factory EXCEPT ![r] = "running"]
            /\ clients' = [clients EXCEPT ![r] = @ + 1]
            /\ pending' = [pending EXCEPT ![k] = r]
            /\ UNCHANGED <<services, subs>>
         \/ /\ ~e.async
            /\ factory' = [factory EXCEPT ![r] = "done"]
            /\ clients' = [clients EXCEPT ![r] = @ + 1]
            /\ services' = [services EXCEPT ![k] = r]
            /\ subs' = [subs EXCEPT ![k] = r]
            /\ UNCHANGED pending
         \/ /\ ~e.async
            /\ UNCHANGED <<services, pending, factory, clients, subs>>

\* A settled factory whose service does not take over the subscription.
FactoryResolves_KeepsSubscription(r) ==
    /\ factory[r] = "running"
    /\ factory' = [factory EXCEPT ![r] = "done"]
    /\ services' = [services EXCEPT ![regs[r].key] = r]
    /\ UNCHANGED <<regs, entries, regOf, index, pending, clients, subs, discarded, idle>>

\* The promise of an asynchronous factory is fulfilled.
FactoryResolves(r) ==
    /\ factory[r] = "running"
    /\ factory' = [factory EXCEPT ![r] = "done"]
    /\ services' = [services EXCEPT ![regs[r].key] = r]
    /\ subs' = [subs EXCEPT ![regs[r].key] = r]
    /\ UNCHANGED <<regs, entries, regOf, index, pending, clients, discarded, idle>>

FactoryRejects(r) ==
    /\ factory[r] = "running"
    /\ factory' = [factory EXCEPT ![r] = "failed"]
    /\ UNCHANGED <<regs, entries, regOf, index, services, pending, clients, subs,
                   discarded, idle>>

-----------------------------------------------------------------------------
(* The operations of the registry.                                         *)

\* indexMeta: the key is appended under each of its labels.
Filed(k, labels) == [l \in Labels |-> IF l \in labels THEN Append(index[l], k) ELSE index[l]]

\* register.
Register(e) ==
    /\ Len(regs) < MaxRegs
    /\ regOf[e.key] = 0
    /\ LET r == Len(regs) + 1
       IN  /\ regs' = Append(regs, e)
           /\ entries' = Append(entries, e.key)
           /\ regOf' = [regOf EXCEPT ![e.key] = r]
           /\ index' = Filed(e.key, e.labels)
           /\ IF e.lazy THEN UNCHANGED <<services, pending, factory, clients, subs>>
              ELSE MaterializeEntry(e.key, r, e)
    /\ UNCHANGED <<discarded, idle>>

\* whenReady(k) can be answered: the key is ready, pending or registered.
Answerable(k) == services[k] # 0 \/ pending[k] # 0 \/ regOf[k] # 0

\* The registration whose service the answer of whenReady(k) is.
AnsweredBy(k) ==
    IF services[k] # 0 THEN services[k]
    ELSE IF pending[k] # 0 THEN pending[k]
    ELSE regOf[k]

\* whenReady and preload, up to the await of the caller.
WhenReady(k) ==
    /\ Answerable(k)
    /\ IF services[k] # 0 \/ pending[k] # 0
       THEN UNCHANGED <<services, pending, factory, clients, subs>>
       ELSE MaterializeEntry(k, regOf[k], regs[regOf[k]])
    /\ UNCHANGED <<regs, entries, regOf, index, discarded>>

Preload(k) ==
    /\ WhenReady(k)
    /\ UNCHANGED idle

readinessState(k) ==
    IF services[k] # 0 THEN "ready"
    ELSE IF pending[k] # 0
         THEN CASE factory[pending[k]] = "running" -> "initializing"
                [] factory[pending[k]] = "failed" -> "failed"
                [] OTHER -> "ready"
    ELSE "not_initialized"

\* idleWarmup schedules a preload for every lazy key that is not initialized.
IdleWarmup(w) ==
    /\ idle[w] = {}
    /\ idle' = [idle EXCEPT ![w] =
           {k \in Keys : regOf[k] # 0 /\ regs[regOf[k]].lazy
                         /\ readinessState(k) = "not_initialized"}]
    /\ UNCHANGED <<regs, entries, regOf, index, services, pending, factory, clients,
                   subs, discarded>>

\* An idle callback preloads; the rejection of an unregistered key is swallowed.
IdleFires(w, k) ==
    /\ k \in idle[w]
    /\ idle' = [idle EXCEPT ![w] = @ \ {k}]
    /\ \/ WhenReady(k)
       \/ /\ ~Answerable(k)
          /\ UNCHANGED <<regs, entries, regOf, index, services, pending, factory,
                         clients, subs, discarded>>

CancelWarmup(w) ==
    /\ idle[w] # {}
    /\ idle' = [idle EXCEPT ![w] = {}]
    /\ UNCHANGED <<regs, entries, regOf, index, services, pending, factory, clients,
                   subs, discarded>>

\* A list without k, which is in it once at most.
Without(q, k) ==
    IF \E p \in DOMAIN q : q[p] = k
    THEN LET p == CHOOSE i \in DOMAIN q : q[i] = k
         IN  [i \in 1..Len(q) - 1 |-> IF i < p THEN q[i] ELSE q[i + 1]]
    ELSE q

\* A reset that leaves the key filed under its labels.
Reset_KeepsIndex(k) ==
    /\ discarded' = discarded \cup ({services[k]} \ {0})
    /\ services' = [services EXCEPT ![k] = 0]
    /\ subs' = [subs EXCEPT ![k] = 0]
    /\ entries' = Without(entries, k)
    /\ regOf' = [regOf EXCEPT ![k] = 0]
    /\ pending' = [pending EXCEPT ![k] = 0]
    /\ UNCHANGED <<regs, index, factory, clients, idle>>

\* A reset that disposes the service but still hands it out.
Reset_KeepsService(k) ==
    /\ discarded' = discarded \cup ({services[k]} \ {0})
    /\ entries' = Without(entries, k)
    /\ regOf' = [regOf EXCEPT ![k] = 0]
    /\ pending' = [pending EXCEPT ![k] = 0]
    /\ index' = [l \in Labels |-> Without(index[l], k)]
    /\ UNCHANGED <<regs, services, subs, factory, clients, idle>>

Reset(k) ==
    /\ discarded' = discarded \cup ({services[k]} \ {0})
    /\ services' = [services EXCEPT ![k] = 0]
    /\ subs' = [subs EXCEPT ![k] = 0]
    /\ entries' = Without(entries, k)
    /\ regOf' = [regOf EXCEPT ![k] = 0]
    /\ pending' = [pending EXCEPT ![k] = 0]
    /\ index' = [l \in Labels |-> Without(index[l], k)]
    /\ UNCHANGED <<regs, factory, clients, idle>>

Dispose ==
    /\ discarded' = discarded \cup ({services[k] : k \in Keys} \ {0})
    /\ services' = [k \in Keys |-> 0]
    /\ subs' = [k \in Keys |-> 0]
    /\ entries' = <<>>
    /\ regOf' = [k \in Keys |-> 0]
    /\ pending' = [k \in Keys |-> 0]
    /\ index' = [l \in Labels |-> <<>>]
    /\ UNCHANGED <<regs, factory, clients, idle>>

RegistryStep ==
    \/ \E r \in Regs : FactoryResolves(r) \/ FactoryRejects(r)
    \/ \E e \in Entries : Register(e)
    \/ \E k \in Keys : Preload(k) \/ Reset(k)
    \/ \E w \in Warmups : IdleWarmup(w) \/ CancelWarmup(w) \/ \E k \in Keys : IdleFires(w, k)
    \/ Dispose

-----------------------------------------------------------------------------
(* Lookup.                                                                 *)

\* clientKeyForUrl, clientKeyForCallback, clientKeyForRequirement and
\* clientKeyForProviderFamily: the key registered first under the label.
Lookup(l) == IF index[l] = <<>> THEN {} ELSE {Head(index[l])}

-----------------------------------------------------------------------------
(* Properties.                                                             *)

\* "Concurrent whenReady(key) / preload(key) calls during initializing state
\* return the same pending promise": no registration makes two clients,
\* whatever preloads, idle warmups and failures overlap.
OneClientPerRegistration == \A r \in Regs : clients[r] <= 1

\* The auth events that the registry forwards for a key are those of the
\* service that it hands out, also after a reset raced a factory.
EventsFollowServices == \A k \in Keys : subs[k] = services[k]

\* The registry never hands out a service that it has disposed.
HandsOutLiveServices == \A k \in Keys : services[k] \notin discarded

\* The list q has the keys K, each once, first registered first.
Lists(q, K) ==
    /\ {q[i] : i \in DOMAIN q} = K
    /\ \A i, j \in DOMAIN q : i < j => regOf[q[i]] < regOf[q[j]]

\* After any sequence of register, reset and dispose the keys filed under a
\* label are exactly the registered ones that carry it, first registered first:
\* clientKeyFor... and clientKeyGenForFilter see the same clients.
IndexMatchesEntries ==
    /\ Lists(entries, {k \in Keys : regOf[k] # 0})
    /\ \A l \in Labels :
           Lists(index[l], {k \in Keys : regOf[k] # 0 /\ l \in regs[regOf[k]].labels})

\* The books of the registry agree with each other, whatever register, reset,
\* dispose and late factories did: the clients made, the services handed out,
\* the events forwarded and the keys filed.
RegistryIsConsistent ==
    /\ OneClientPerRegistration
    /\ EventsFollowServices /\ HandsOutLiveServices
    /\ IndexMatchesEntries

=============================================================================
