------------------------------- MODULE Realip -------------------------------
(***************************************************************************)
(* The real-ip resolver: the registry of providers of trusted addresses,   *)
(* with one refresh or watch task per provider, and the requests that      *)
(* resolve a client address against it.                                    *)
(*                                                                         *)
(* The registry is one atomically swapped pointer; reading it and          *)
(* replacing it are two steps, and a request reads it once per provider.   *)
(* A CIDR list is the set of the addresses it contains.                    *)
(***************************************************************************)
EXTENDS Integers, Sequences

CONSTANTS
    Providers,      \* the configured providers
    ClearOnFailure, \* those whose on_refresh_failure is "clear"
    Ips,            \* the addresses that occur
    Lists,          \* what loading a provider may give; {} when it fails
    RealipSources,  \* the sources, as configured
    HeaderKinds, ChainKinds,  \* the headers, and those that may hold a chain
    Inputs,         \* what a request may bring: peer, proxy address, headers
    Resolutions,    \* the requests in flight together
    NoIp, Junk      \* no address; a part of a header that is none

(* A source names its providers in a sequence, and what it accepts.  Every *)
(* provider that a source names is configured.                             *)
ASSUME RealipAssumption ==
    /\ ClearOnFailure \subseteq Providers /\ ChainKinds \subseteq HeaderKinds
    /\ NoIp \notin Ips /\ Junk \notin Ips /\ Lists \subseteq SUBSET Ips
    /\ RealipSources \in Seq({RealipSources[i] : i \in DOMAIN RealipSources})
    /\ \A i \in DOMAIN RealipSources :
         /\ RealipSources[i].peersFrom \in Seq(Providers)
         /\ RealipSources[i].priority \in Int
         /\ RealipSources[i].acceptTransport \in BOOLEAN
         /\ RealipSources[i].acceptHeaders \in
              Seq([kind : HeaderKinds, mode : {"single", "recursive"},
                   direction : {"left-to-right", "right-to-left"}, onlyIfNotTrusted : BOOLEAN])
    /\ \A input \in Inputs :
         /\ input.peer \in Ips
         /\ input.proxy \in Ips \cup {NoIp}
         /\ DOMAIN input.headers = HeaderKinds
         /\ \A kind \in HeaderKinds : input.headers[kind] \in Seq(Ips \cup {Junk})

VARIABLES
    published,  \* the swapped state: by_name, {} where there is no entry
    refresher,  \* the task of each provider
    resolution  \* the requests

realipVars == <<published, refresher, resolution>>

TaskWaits == [pc |-> "waiting"]

(* The order compile_sources sorts by: priority, then configuration.       *)
Before(i, j) ==
    \/ RealipSources[i].priority > RealipSources[j].priority
    \/ RealipSources[i].priority = RealipSources[j].priority /\ i < j

(* The reads of compile_sources: source by source, provider by provider.   *)
ReadsOfSource(i) ==
    [k \in DOMAIN RealipSources[i].peersFrom |-> <<i, RealipSources[i].peersFrom[k]>>]

Reads ==
    LET upTo[i \in 0..Len(RealipSources)] ==
            IF i = 0 THEN <<>> ELSE upTo[i - 1] \o ReadsOfSource(i)
    IN  upTo[Len(RealipSources)]

-----------------------------------------------------------------------------
(* Resolving                                                               *)

Earliest(is) == CHOOSE i \in is : \A j \in is : i <= j

Reversed(s) == [i \in DOMAIN s |-> s[Len(s) + 1 - i]]

ResolveFromChain_OtherEnd(chain, trusted, direction) ==
    LET walk == IF direction = "left-to-right" THEN Reversed(chain) ELSE chain
        untrusted == {i \in DOMAIN walk : walk[i] \notin trusted}
    IN  IF untrusted # {} THEN walk[Earliest(untrusted)]
        ELSE IF walk # <<>> THEN walk[Len(walk)] ELSE NoIp

(* resolve_from_chain: the first address that is not trusted, or the last  *)
(* one when all are.                                                       *)
ResolveFromChain(chain, trusted, direction) ==
    LET walk == IF direction = "left-to-right" THEN chain ELSE Reversed(chain)
        untrusted == {i \in DOMAIN walk : walk[i] \notin trusted}
    IN  IF untrusted # {} THEN walk[Earliest(untrusted)]
        ELSE IF walk # <<>> THEN walk[Len(walk)] ELSE NoIp

(* parse_x_forwarded_for and parse_forwarded_for skip what is no address.  *)
Chain(kind, input) ==
    LET parts == input.headers[kind]
        parsed[i \in 0..Len(parts)] ==
            IF i = 0 THEN <<>>
            ELSE IF parts[i] = Junk THEN parsed[i - 1] ELSE Append(parsed[i - 1], parts[i])
    IN  parsed[Len(parts)]

(* resolve_single_header wants the whole value to be an address;           *)
(* resolve_chain_header knows two headers.                                 *)
Candidate(header, trusted, input) ==
    LET value == input.headers[header.kind] IN
    IF header.mode = "single"
      THEN IF Len(value) = 1 /\ Head(value) # Junk THEN Head(value) ELSE NoIp
    ELSE IF header.kind \in ChainKinds
      THEN ResolveFromChain(Chain(header.kind, input), trusted, header.direction)
    ELSE NoIp

Usable(header, trusted, input) ==
    /\ Candidate(header, trusted, input) # NoIp
    /\ ~(header.onlyIfNotTrusted /\ Candidate(header, trusted, input) \in trusted)

(* resolve_transport, then resolve_headers, of one source: the address and *)
(* where it came from.                                                     *)
FromSource(i, trusted, input) ==
    LET headers == RealipSources[i].acceptHeaders
        usable == {k \in DOMAIN headers : Usable(headers[k], trusted, input)}
    IN IF RealipSources[i].acceptTransport /\ input.proxy # NoIp
         THEN [client |-> input.proxy, source |-> i, kind |-> "transport"]
       ELSE IF usable # {}
         THEN [client |-> Candidate(headers[Earliest(usable)], trusted, input),
               source |-> i, kind |-> "header"]
       ELSE [client |-> input.peer, source |-> 0, kind |-> "fallback"]

(* The first of some sources in the sorted order.                          *)
First(is) == CHOOSE i \in is : \A j \in is \ {i} : Before(i, j)

ResolveIp_AnyTrustedPeer(peers, trusted, input) ==
    LET answers == {i \in DOMAIN RealipSources :
                      input.peer \in trusted /\ FromSource(i, trusted, input).source = i}
    IN IF answers # {} THEN FromSource(First(answers), trusted, input)
       ELSE [client |-> input.peer, source |-> 0, kind |-> "fallback"]

(* resolve: the first source that knows the peer and has an answer; else   *)
(* the peer itself.                                                        *)
ResolveIp(peers, trusted, input) ==
    LET answers == {i \in DOMAIN RealipSources :
                      input.peer \in peers[i] /\ FromSource(i, trusted, input).source = i}
    IN IF answers # {} THEN FromSource(First(answers), trusted, input)
       ELSE [client |-> input.peer, source |-> 0, kind |-> "fallback"]

-----------------------------------------------------------------------------
(* The registry and its tasks                                              *)

(* from_configs fails when a provider cannot be loaded.                    *)
RealipInit ==
    /\ published \in [Providers -> Lists \ {{}}]
    /\ refresher = [p \in Providers |-> TaskWaits]
    /\ resolution = [r \in Resolutions |-> TaskWaits]

LoadProvider_ClearsAlways(p, list) ==
    /\ refresher[p] = TaskWaits
    /\ refresher' = [refresher EXCEPT ![p] = [pc |-> "loaded", loaded |-> list]]
    /\ UNCHANGED <<published, resolution>>

(* refresh_provider, with what the file, the remote list or the command    *)
(* gives this time: what does not load, does not parse or is empty is an   *)
(* error, which replaces the entry only under the clear policy.            *)
LoadProvider(p, list) ==
    /\ refresher[p] = TaskWaits
    /\ list # {} \/ p \in ClearOnFailure
    /\ refresher' = [refresher EXCEPT ![p] = [pc |-> "loaded", loaded |-> list]]
    /\ UNCHANGED <<published, resolution>>

(* replace_provider_snapshot loads the state, ...                          *)
ReplaceReads(p) ==
    /\ refresher[p].pc = "loaded"
    /\ refresher' = [refresher EXCEPT ![p] = [pc |-> "replacing",
                                  new |-> [published EXCEPT ![p] = refresher[p].loaded]]]
    /\ UNCHANGED <<published, resolution>>

(* What each provider has published since a request began.                 *)
SeenBy(r, new) == [p \in Providers |-> resolution[r].seen[p] \cup new[p]]

(* ... and stores a changed copy over whatever is there by then.           *)
ReplaceStores(p) ==
    /\ refresher[p].pc = "replacing"
    /\ published' = refresher[p].new
    /\ refresher' = [refresher EXCEPT ![p] = TaskWaits]
    /\ resolution' = [r \in Resolutions |->
         IF resolution[r].pc # "reading" THEN resolution[r]
         ELSE [resolution[r] EXCEPT !.seen = SeenBy(r, refresher[p].new)]]

-----------------------------------------------------------------------------
(* Requests                                                                *)

(* A request arrives; what it brings is used when its reads are done.      *)
RequestArrives(r) ==
    /\ resolution[r].pc # "reading"
    /\ resolution' = [resolution EXCEPT ![r] =
         [pc |-> "reading", next |-> 1, peers |-> [i \in DOMAIN RealipSources |-> {}],
          seen |-> published]]
    /\ UNCHANGED <<published, refresher>>

(* compile_sources adds the addresses of one provider to one source.       *)
ReadSnapshot(r) ==
    /\ resolution[r].pc = "reading" /\ resolution[r].next <= Len(Reads)
    /\ LET read == Reads[resolution[r].next] IN
         resolution' = [resolution EXCEPT ![r].next = @ + 1,
                                          ![r].peers[read[1]] = @ \cup published[read[2]]]
    /\ UNCHANGED <<published, refresher>>

(* all_cidrs is read last, and the request is resolved.                    *)
ReadTrusted(r, input) ==
    /\ resolution[r].pc = "reading" /\ resolution[r].next > Len(Reads)
    /\ LET trusted == UNION {published[p] : p \in Providers} IN
         resolution' = [resolution EXCEPT ![r] =
           [pc |-> "resolved", input |-> input, seen |-> resolution[r].seen,
            result |-> ResolveIp(resolution[r].peers, trusted, input)]]
    /\ UNCHANGED <<published, refresher>>

RealipNext ==
    \/ \E p \in Providers :
         \/ \E list \in Lists : LoadProvider(p, list)
         \/ ReplaceReads(p) \/ ReplaceStores(p)
    \/ \E r \in Resolutions :
         \/ RequestArrives(r) \/ ReadSnapshot(r)
         \/ \E input \in Inputs : ReadTrusted(r, input)

RealipSpec == RealipInit /\ [][RealipNext]_realipVars

-----------------------------------------------------------------------------
(* Properties                                                              *)

(* "keep-last-good": a provider without the clear policy never loses its   *)
(* entry, whatever its origin does and however the tasks of the others     *)
(* overwrite each other's copies of the registry.                          *)
KeepsLastGood ==
    \A p \in Providers \ ClearOnFailure : published[p] # {}

ProvidersOf(i) ==
    {RealipSources[i].peersFrom[k] : k \in DOMAIN RealipSources[i].peersFrom}

(* "never trust client-IP headers unless the direct peer is a configured   *)
(* trusted peer": an answer other than the peer itself comes from a source *)
(* one of whose own providers listed the peer while the request ran, even  *)
(* when the registry is replaced between the reads of the request.         *)
OnlyTrustedPeersSpeak ==
    \A r \in Resolutions :
        resolution[r].pc = "resolved" /\ resolution[r].result.kind # "fallback" =>
            \E p \in ProvidersOf(resolution[r].result.source) :
                resolution[r].input.peer \in resolution[r].seen[p]

(* The address that a request's chain gives when it is read from the right *)
(* is the nearest one that is not trusted: every hop after it is trusted,  *)
(* and it is itself untrusted unless it begins the chain.                  *)
NearestUntrustedHop ==
    \A r \in Resolutions : resolution[r].pc = "resolved" =>
        \A kind \in ChainKinds, trusted \in SUBSET Ips :
            LET chain == Chain(kind, resolution[r].input)
                ip == ResolveFromChain(chain, trusted, "right-to-left")
            IN
                IF chain = <<>> THEN ip = NoIp
                ELSE \E i \in DOMAIN chain :
                       /\ chain[i] = ip
                       /\ \A j \in i + 1 .. Len(chain) : chain[j] \in trusted
                       /\ ip \notin trusted \/ i = 1

(* What a resolved address rests on: lists that are not lost, a peer that  *)
(* a list of its source names, and the hops that are trusted.              *)
RealipTrustsItsPeers == KeepsLastGood /\ OnlyTrustedPeersSpeak /\ NearestUntrustedHop
=============================================================================
