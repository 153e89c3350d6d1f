------------------------ MODULE FoundationsProofs ------------------------
(***************************************************************************)
(* Proofs about foundations that other parts stand on, for every value of  *)
(* their constants: the environment service with its cached layers and the *)
(* cancellation tokens of requests, which every client uses, and the       *)
(* credential store, which the server and the command line share.          *)
(***************************************************************************)
EXTENDS EnvironmentService, Cancellation, CredsManageStore, TLAPS

-----------------------------------------------------------------------------
(* The environment service *)

Environments == [by : Nat, parent : Nat, stores : SUBSET (GivenStores \cup {"persistent", "session"}),
                 preset : {"none", "browser_page"}, page : BOOLEAN]
LayerStates == [generation : Nat, has : {"nothing", "value", "error"}, value : Environments, pending : Nat]
UnderWay == {"queued", "waiting", "creating"}
ResolutionRecords == [layer : Layers, generation : Nat, phase : UnderWay \cup {"fulfilled", "rejected"},
                      on : Nat, base : Environments]

(* What is known of a layer in states ss and resolutions rs after n calls  *)
(* of reset: a promise it waits for is of this layer and generation and    *)
(* has not settled, and a cached value lies on the cached value below it.  *)
LayerGood(l, ss, rs, n) ==
    /\ ss[l].generation = n
    /\ ss[l].pending # 0 =>
          /\ ss[l].pending \in DOMAIN rs /\ ss[l].has = "nothing"
          /\ rs[ss[l].pending].layer = l /\ rs[ss[l].pending].generation = n
          /\ rs[ss[l].pending].phase \in UnderWay
    /\ l # "client" /\ ss[l].has = "value" =>
          /\ ss[LayerBelow[l]].has = "value"
          /\ ss[l].value.parent = ss[LayerBelow[l]].value.by

(* What is known of a resolution: the layer waits for the one under way of *)
(* this generation, which waits for one of this generation, builds on the  *)
(* cached value below, and has left its value in the cache.                *)
ResolutionGood(r, ss, rs, n) ==
    /\ rs[r].generation <= n
    /\ rs[r].phase = "waiting" => rs[r].layer # "client" /\ rs[r].on \in DOMAIN rs
    /\ rs[r].generation = n =>
          /\ rs[r].phase \in UnderWay => ss[rs[r].layer].pending = r
          /\ rs[r].phase = "waiting" =>
                rs[rs[r].on].layer = LayerBelow[rs[r].layer] /\ rs[rs[r].on].generation = n
          /\ rs[r].phase = "creating" /\ rs[r].layer # "client" =>
                /\ ss[LayerBelow[rs[r].layer]].has = "value"
                /\ rs[r].base.by = ss[LayerBelow[rs[r].layer]].value.by
          /\ rs[r].phase = "fulfilled" =>
                ss[rs[r].layer].has = "value" /\ ss[rs[r].layer].value = rs[r].base

EnvironmentGood(ss, rs, n) ==
    /\ n \in Nat /\ ss \in [Layers -> LayerStates] /\ rs \in Seq(ResolutionRecords)
    /\ \A l \in Layers : LayerGood(l, ss, rs, n)
    /\ \A r \in DOMAIN rs : ResolutionGood(r, ss, rs, n)

EnvironmentIInv == EnvironmentGood(states, resolutions, environmentResets)

(* The layers are a chain.                                                 *)
LEMMA LayerChain ==
    ASSUME NEW l \in Layers, l # "client"
    PROVE LayerBelow[l] \in Layers /\ LayerBelow[l] # l
  BY DEF Layers, LayerBelow

(* resolveState starts a resolution for a layer that has nothing.          *)
LEMMA StartGood ==
    ASSUME NEW ss, NEW rs, NEW n, EnvironmentGood(ss, rs, n),
           NEW l \in Layers, ss[l].has = "nothing", ss[l].pending = 0,
           NEW new, new = [layer |-> l, generation |-> ss[l].generation,
                           phase |-> "queued", on |-> 0, base |-> NoEnvironment]
    PROVE EnvironmentGood([ss EXCEPT ![l].pending = Len(rs) + 1], Append(rs, new), n)
<1> DEFINE S == [ss EXCEPT ![l].pending = Len(rs) + 1]
           R == Append(rs, new)
<1>1. /\ n \in Nat /\ ss \in [Layers -> LayerStates] /\ rs \in Seq(ResolutionRecords)
      /\ Len(rs) \in Nat /\ DOMAIN rs = 1 .. Len(rs)
  BY DEF EnvironmentGood
<1>2. new \in ResolutionRecords /\ new.layer = l /\ new.generation = n /\ new.phase = "queued"
  BY DEF EnvironmentGood, LayerGood, LayerStates, ResolutionRecords, NoEnvironment, Environments, UnderWay
<1>3. S \in [Layers -> LayerStates]
  BY <1>1 DEF LayerStates
<1>4. /\ R \in Seq(ResolutionRecords) /\ DOMAIN R = (DOMAIN rs) \cup {Len(rs) + 1}
      /\ R[Len(rs) + 1] = new /\ \A i \in DOMAIN rs : R[i] = rs[i]
  BY <1>1, <1>2
<1>5. /\ \A m \in Layers : /\ S[m].has = ss[m].has /\ S[m].value = ss[m].value
                           /\ S[m].generation = ss[m].generation
                           /\ S[m].pending = IF m = l THEN Len(rs) + 1 ELSE ss[m].pending
  BY Zenon, <1>1 DEF LayerStates
<1>6. ASSUME NEW m \in Layers PROVE LayerGood(m, S, R, n)
  <2>1. LayerGood(m, ss, rs, n)
    BY Zenon DEF EnvironmentGood
  <2>2. m # "client" => LayerBelow[m] \in Layers
    BY Zenon, LayerChain
  <2> HIDE DEF S, R
  <2>3. CASE m = l
    BY <1>2, <1>4, <1>5, <2>1, <2>2, <2>3 DEF LayerGood, UnderWay
  <2>4. CASE m # l
    BY Zenon, <1>4, <1>5, <2>1, <2>2, <2>4 DEF LayerGood
  <2> QED BY Zenon, <2>3, <2>4
<1>7. ASSUME NEW r \in DOMAIN R PROVE ResolutionGood(r, S, R, n)
  <2>1. CASE r \in DOMAIN rs
    <3>1. ResolutionGood(r, ss, rs, n) /\ rs[r] \in ResolutionRecords /\ r # Len(rs) + 1
      BY <1>1, <2>1 DEF EnvironmentGood
    <3>2. rs[r].layer \in Layers /\ (rs[r].layer # "client" => LayerBelow[rs[r].layer] \in Layers)
      BY Zenon, <3>1, LayerChain DEF ResolutionRecords
    <3>3. rs[r].generation = n /\ rs[r].phase \in UnderWay => rs[r].layer # l
      BY <1>1, <2>1, <3>1, <3>2 DEF ResolutionGood
    <3> HIDE DEF S, R
    <3>4. R[r] = rs[r] /\ \A j \in DOMAIN rs : R[j] = rs[j] /\ j \in DOMAIN R
      BY <1>4, <2>1, Zenon
    <3>5. /\ S[rs[r].layer].has = ss[rs[r].layer].has
          /\ S[rs[r].layer].value = ss[rs[r].layer].value
          /\ rs[r].layer # l => S[rs[r].layer].pending = ss[rs[r].layer].pending
      BY <1>5, <3>2, Zenon
    <3>6. rs[r].layer # "client" =>
             /\ S[LayerBelow[rs[r].layer]].has = ss[LayerBelow[rs[r].layer]].has
             /\ S[LayerBelow[rs[r].layer]].value = ss[LayerBelow[rs[r].layer]].value
      BY <1>5, <3>2, Zenon
    <3> QED BY <3>1, <3>3, <3>4, <3>5, <3>6, Zenon DEF ResolutionGood
  <2>2. CASE r = Len(rs) + 1
    <3> HIDE DEF S, R
    <3>1. n <= n
      BY <1>1
    <3> QED BY <1>2, <1>4, <1>5, <2>2, <3>1 DEF ResolutionGood
  <2> QED BY Zenon, <1>4, <2>1, <2>2
<1> QED BY <1>1, <1>3, <1>4, <1>6, <1>7, Zenon DEF EnvironmentGood

(* A resolution r under way may become q, which is under way.              *)
MayMove(r, q, ss, rs, n) ==
    /\ EnvironmentGood(ss, rs, n)
    /\ r \in DOMAIN rs /\ rs[r].phase \in UnderWay
    /\ q \in ResolutionRecords /\ q.layer = rs[r].layer /\ q.generation = rs[r].generation
    /\ q.phase \in UnderWay
    /\ q.phase = "waiting" =>
          /\ q.layer # "client" /\ q.on \in DOMAIN rs
          /\ q.generation = n => rs[q.on].layer = LayerBelow[q.layer] /\ rs[q.on].generation = n
    /\ q.phase = "creating" /\ q.layer # "client" /\ q.generation = n =>
          /\ ss[LayerBelow[q.layer]].has = "value"
          /\ q.base.by = ss[LayerBelow[q.layer]].value.by

(* A resolution under way goes on without settling.                        *)
LEMMA MoveGood ==
    ASSUME NEW ss, NEW rs, NEW n, NEW r, NEW q, MayMove(r, q, ss, rs, n)
    PROVE EnvironmentGood(ss, [rs EXCEPT ![r] = q], n)
<1> USE DEF MayMove
<1> DEFINE R == [rs EXCEPT ![r] = q]
<1>1. n \in Nat /\ ss \in [Layers -> LayerStates] /\ rs \in Seq(ResolutionRecords)
  BY Zenon DEF EnvironmentGood
<1>2. /\ R \in Seq(ResolutionRecords) /\ DOMAIN R = DOMAIN rs
      /\ R[r] = q /\ \A i \in DOMAIN rs : i # r => R[i] = rs[i]
  BY <1>1
<1> HIDE DEF R
<1>3. \A i \in DOMAIN rs : R[i].layer = rs[i].layer /\ R[i].generation = rs[i].generation
  BY Zenon, <1>2
<1>4. ASSUME NEW m \in Layers PROVE LayerGood(m, ss, R, n)
  <2>1. LayerGood(m, ss, rs, n)
    BY Zenon DEF EnvironmentGood
  <2> QED BY <1>2, <1>3, <2>1, Zenon DEF LayerGood
<1>5. ASSUME NEW i \in DOMAIN rs PROVE ResolutionGood(i, ss, R, n)
  <2>1. ResolutionGood(i, ss, rs, n)
    BY Zenon DEF EnvironmentGood
  <2>2. CASE i = r
    BY <1>2, <1>3, <2>1, <2>2, Zenon DEF ResolutionGood, UnderWay
  <2>3. CASE i # r
    <3>1. R[i] = rs[i]
      BY <1>2, <2>3, Zenon
    <3> QED BY <1>2, <1>3, <2>1, <3>1 DEF ResolutionGood
  <2> QED BY Zenon, <2>2, <2>3
<1> QED BY <1>1, <1>2, <1>4, <1>5, Zenon DEF EnvironmentGood, R

(* A resolution r of layer l may settle as q, with this outcome: a value   *)
(* of the current generation was built on the cached value below it.       *)
MaySettle(r, l, q, phase, value, ss, rs, n) ==
    /\ EnvironmentGood(ss, rs, n)
    /\ r \in DOMAIN rs /\ rs[r].phase \in UnderWay /\ l = rs[r].layer /\ l \in Layers
    /\ q \in ResolutionRecords /\ q.layer = l /\ q.generation = rs[r].generation
    /\ phase \in {"value", "error"} /\ value \in Environments
    /\ q.phase = IF phase = "value" THEN "fulfilled" ELSE "rejected"
    /\ phase = "value" =>
          /\ q.base = value
          /\ l # "client" /\ q.generation = n =>
                /\ ss[LayerBelow[l]].has = "value"
                /\ value.parent = ss[LayerBelow[l]].value.by

(* A resolution settles: one of this generation is the one its layer waits *)
(* for, and leaves its outcome there; one that reset() overtook does not.  *)
LEMMA SettleGood ==
    ASSUME NEW ss, NEW rs, NEW n, NEW r, NEW l, NEW q, NEW phase, NEW value,
           MaySettle(r, l, q, phase, value, ss, rs, n)
    PROVE EnvironmentGood(IF ss[l].generation = rs[r].generation
                          THEN [ss EXCEPT ![l].has = phase, ![l].value = value, ![l].pending = 0] ELSE ss,
                          [rs EXCEPT ![r] = q], n)
<1> USE DEF MaySettle
<1> DEFINE R == [rs EXCEPT ![r] = q]
           S == [ss EXCEPT ![l].has = phase, ![l].value = value, ![l].pending = 0]
<1>1. n \in Nat /\ ss \in [Layers -> LayerStates] /\ rs \in Seq(ResolutionRecords)
  BY Zenon DEF EnvironmentGood
<1>2. /\ R \in Seq(ResolutionRecords) /\ DOMAIN R = DOMAIN rs
      /\ R[r] = q /\ \A i \in DOMAIN rs : i # r => R[i] = rs[i]
  BY <1>1
<1>3. S \in [Layers -> LayerStates]
  <2> DEFINE S1 == [ss EXCEPT ![l].has = phase]
             S2 == [S1 EXCEPT ![l].value = value]
  <2>1. S1 \in [Layers -> LayerStates]
    BY <1>1, Zenon DEF LayerStates
  <2>2. S2 \in [Layers -> LayerStates]
    <3> HIDE DEF S1
    <3> QED BY Zenon, <2>1 DEF LayerStates
  <2>3. [S2 EXCEPT ![l].pending = 0] \in [Layers -> LayerStates]
    <3> HIDE DEF S2
    <3> QED BY Zenon, <2>2 DEF LayerStates
  <2>4. S = [S2 EXCEPT ![l].pending = 0]
    BY Zenon
  <2> QED BY <2>3, <2>4, Zenon
<1>4. ss[l] \in LayerStates /\ l \in DOMAIN ss
  BY Zenon, <1>1
<1>5. /\ S[l].has = phase /\ S[l].value = value /\ S[l].pending = 0 /\ S[l].generation = ss[l].generation
      /\ \A m \in Layers : m # l => S[m] = ss[m]
  <2>1. /\ DOMAIN ss[l] = {"generation", "has", "value", "pending"}
        /\ DOMAIN ss = Layers
    BY Zenon, <1>1, <1>4 DEF LayerStates
  <2>2. \A m \in Layers : m # l => S[m] = ss[m]
    BY <2>1, Zenon
  <2>3. S[l].has = phase
    BY <2>1, Zenon
  <2>4. S[l].value = value
    BY <2>1, Zenon
  <2>5. S[l].pending = 0 /\ S[l].generation = ss[l].generation
    BY <2>1, Zenon
  <2> QED BY <2>2, <2>3, <2>4, <2>5, Zenon
<1> HIDE DEF R, S
<1>6. \A i \in DOMAIN rs : R[i].layer = rs[i].layer /\ R[i].generation = rs[i].generation
  BY Zenon, <1>2
<1>7. ASSUME NEW i \in DOMAIN rs PROVE ResolutionGood(i, ss, rs, n) /\ rs[i].layer \in Layers
  <2>1. rs[i] \in ResolutionRecords
    BY <1>1
  <2> QED BY Zenon, <2>1 DEF EnvironmentGood, ResolutionRecords
<1>8. \A m \in Layers : LayerGood(m, ss, rs, n)
  BY Zenon DEF EnvironmentGood
<1>9. CASE rs[r].generation = n
  <2>1. ss[l].generation = n /\ ss[l].pending = r /\ ss[l].has = "nothing"
    BY <1>1, <1>7, <1>8, <1>9 DEF LayerGood, ResolutionGood
  <2>2. ASSUME NEW m \in Layers PROVE LayerGood(m, S, R, n)
    <3>1. m # "client" => LayerBelow[m] \in Layers /\ LayerBelow[m] # m
      BY Zenon, LayerChain
    <3>2. CASE m = l
      <4>1. S[l].generation = n /\ S[l].pending = 0
        BY <1>5, <2>1, Zenon
      <4>2. l # "client" /\ S[l].has = "value" =>
               /\ S[LayerBelow[l]].has = "value"
               /\ S[l].value.parent = S[LayerBelow[l]].value.by
        BY <1>5, <1>9, <3>1, <3>2
      <4> QED BY <3>2, <4>1, <4>2, Zenon DEF LayerGood
    <3>3. CASE m # l
      <4>1. S[m] = ss[m] /\ LayerGood(m, ss, rs, n)
        BY Zenon, <1>5, <1>8, <3>3
      <4>2. ss[m].pending # r
        <5>1. r # 0
          BY <1>1
        <5> QED BY <4>1, <3>3, <5>1, Zenon DEF LayerGood
      <4> QED BY <1>2, <1>5, <1>6, <2>1, <3>1, <4>1, <4>2 DEF LayerGood
    <3> QED BY Zenon, <3>2, <3>3
  <2>3. ASSUME NEW i \in DOMAIN rs PROVE ResolutionGood(i, S, R, n)
    <3>1. rs[i].layer # "client" => LayerBelow[rs[i].layer] \in Layers
      BY Zenon, <1>7, LayerChain
    <3>2. CASE i = r
      <4>1. /\ q.phase # "waiting" /\ q.phase # "creating" /\ q.phase \notin UnderWay
            /\ q.phase = "fulfilled" => phase = "value"
        BY Zenon DEF UnderWay
      <4>2. q.generation = n /\ q.layer = l /\ n <= n /\ R[r] = q
        BY <1>1, <1>2, <1>9
      <4> QED BY <1>5, <3>2, <4>1, <4>2, Zenon DEF ResolutionGood
    <3>3. CASE i # r
      <4>1. R[i] = rs[i] /\ ResolutionGood(i, ss, rs, n)
        BY Zenon, <1>2, <1>7, <3>3
      <4>2. rs[i].generation = n /\ rs[i].phase \in UnderWay \cup {"fulfilled"} => rs[i].layer # l
        BY <2>1, <3>3, <4>1, Zenon DEF ResolutionGood
      <4>3. rs[i].generation = n /\ rs[i].phase = "creating" /\ rs[i].layer # "client" =>
               LayerBelow[rs[i].layer] # l
        BY <2>1, <4>1, Zenon DEF ResolutionGood
      <4>5. rs[i].layer # l => S[rs[i].layer] = ss[rs[i].layer]
        BY Zenon, <1>5, <1>7
      <4>6. rs[i].layer # "client" /\ LayerBelow[rs[i].layer] # l =>
               S[LayerBelow[rs[i].layer]] = ss[LayerBelow[rs[i].layer]]
        BY Zenon, <1>5, <3>1
      <4>7. rs[i].generation = n =>
              /\ rs[i].phase \in UnderWay \cup {"fulfilled"} => S[rs[i].layer] = ss[rs[i].layer]
              /\ rs[i].phase = "creating" /\ rs[i].layer # "client" =>
                    S[LayerBelow[rs[i].layer]] = ss[LayerBelow[rs[i].layer]]
        BY <4>2, <4>3, <4>5, <4>6, Zenon
      <4> QED BY <1>2, <1>6, <4>1, <4>7 DEF ResolutionGood
    <3> QED BY Zenon, <3>2, <3>3
  <2> QED BY <1>1, <1>2, <1>3, <1>9, <2>1, <2>2, <2>3, Zenon DEF EnvironmentGood, R, S
<1>10. CASE rs[r].generation # n
  <2>1. ss[l].generation # rs[r].generation
    BY Zenon, <1>8, <1>10 DEF LayerGood
  <2>2. ASSUME NEW m \in Layers PROVE LayerGood(m, ss, R, n)
    BY <1>2, <1>6, <1>8, <1>10 DEF LayerGood
  <2>3. ASSUME NEW i \in DOMAIN rs PROVE ResolutionGood(i, ss, R, n)
    <3>1. CASE i # r
      <4>1. R[i] = rs[i] /\ ResolutionGood(i, ss, rs, n)
        BY <1>2, <1>7, <3>1, Zenon
      <4> QED BY <1>2, <1>6, <4>1, Zenon DEF ResolutionGood
    <3>2. CASE i = r
      <4>1. /\ R[r] = q /\ q.generation # n /\ q.generation <= n /\ q.phase # "waiting"
        BY Zenon, <1>2, <1>7, <1>10, <3>2 DEF ResolutionGood
      <4> QED BY <3>2, <4>1, Zenon DEF ResolutionGood
    <3> QED BY <3>1, <3>2, Zenon
  <2> QED BY <1>1, <1>2, <2>1, <2>2, <2>3, Zenon DEF EnvironmentGood, R
<1> QED BY <1>9, <1>10, Zenon

(* The two fields a continuation of resolveState writes, as one record.    *)
LEMMA RewrittenResolution ==
    ASSUME NEW rs \in Seq(ResolutionRecords), NEW r \in DOMAIN rs, NEW x, NEW y
    PROVE /\ [rs EXCEPT ![r].phase = x] = [rs EXCEPT ![r] = [rs[r] EXCEPT !.phase = x]]
          /\ [rs EXCEPT ![r].phase = x, ![r].on = y] = [rs EXCEPT ![r] = [rs[r] EXCEPT !.phase = x, !.on = y]]
          /\ [rs EXCEPT ![r].phase = x, ![r].base = y] = [rs EXCEPT ![r] = [rs[r] EXCEPT !.phase = x, !.base = y]]
  BY Zenon

(* What resolveState returns to whoever asks for a layer.                  *)
ResolvedTo(got, l, ss, rs, n) ==
    /\ EnvironmentGood(got.states, got.resolutions, n)
    /\ got.promise # 0 => /\ got.promise \in DOMAIN got.resolutions
                          /\ got.resolutions[got.promise].layer = l
                          /\ got.resolutions[got.promise].generation = n
    /\ got.promise = 0 => got.states = ss /\ got.resolutions = rs /\ ss[l].has # "nothing"
    /\ DOMAIN rs \subseteq DOMAIN got.resolutions
    /\ \A i \in DOMAIN rs : got.resolutions[i] = rs[i]

(* resolveState on a layer, for whoever asks.                              *)
LEMMA ResolvingGood ==
    ASSUME NEW ss, NEW rs, NEW n, EnvironmentGood(ss, rs, n), NEW l \in Layers
    PROVE  ResolvedTo(Resolving(l, ss, rs), l, ss, rs, n)
<1> DEFINE got == Resolving(l, ss, rs)
<1>1. /\ ss \in [Layers -> LayerStates] /\ rs \in Seq(ResolutionRecords) /\ LayerGood(l, ss, rs, n)
      /\ Len(rs) \in Nat /\ DOMAIN rs = 1 .. Len(rs)
  BY DEF EnvironmentGood
<1>2. CASE ss[l].has # "nothing"
  BY Zenon, <1>1, <1>2 DEF Resolving, ResolvedTo
<1>3. CASE ss[l].has = "nothing" /\ ss[l].pending # 0
  BY Zenon, <1>1, <1>3 DEF Resolving, LayerGood, ResolvedTo
<1>4. CASE ss[l].has = "nothing" /\ ss[l].pending = 0
  <2> DEFINE new == [layer |-> l, generation |-> ss[l].generation,
                     phase |-> "queued", on |-> 0, base |-> NoEnvironment]
  <2>1. EnvironmentGood([ss EXCEPT ![l].pending = Len(rs) + 1], Append(rs, new), n)
    BY Zenon, <1>4, StartGood
  <2>2. /\ got.states = [ss EXCEPT ![l].pending = Len(rs) + 1]
        /\ got.resolutions = Append(rs, new) /\ got.promise = Len(rs) + 1
    BY Zenon, <1>4 DEF Resolving
  <2>3. new.layer = l /\ new.generation = n /\ new \in ResolutionRecords
    BY Zenon, <1>1 DEF LayerGood, LayerStates, ResolutionRecords, NoEnvironment, Environments, UnderWay
  <2> HIDE DEF new, got
  <2>4. /\ DOMAIN Append(rs, new) = 1 .. Len(rs) + 1 /\ Append(rs, new)[Len(rs) + 1] = new
        /\ \A i \in DOMAIN rs : Append(rs, new)[i] = rs[i]
    BY <1>1, <2>3
  <2>5. Len(rs) + 1 # 0 /\ Len(rs) + 1 \in 1 .. Len(rs) + 1 /\ 1 .. Len(rs) \subseteq 1 .. Len(rs) + 1
    BY <1>1
  <2> QED BY <1>1, <2>1, <2>2, <2>3, <2>4, <2>5, Zenon DEF ResolvedTo, got
<1> QED BY <1>2, <1>3, <1>4, Zenon

(* The environment a factory builds names the one it was built on.         *)
LEMMA MaterializedGood ==
    ASSUME NEW l \in Layers, NEW r \in Nat, NEW base \in Environments
    PROVE /\ Materialized(l, r, base) \in Environments
          /\ l # "client" => Materialized(l, r, base).parent = base.by
<1>1. CASE l = "client"
  BY Zenon, <1>1 DEF Materialized, createWebClientEnvironment, Environments
<1>2. CASE l = "web"
  BY <1>2, Zenon DEF Materialized, Environments
<1>3. CASE l = "page"
  BY Zenon, <1>3 DEF Materialized, createBrowserPageClientEnvironment, deriveClientEnvironment,
              withDefaultBrowserStores, Environments
<1> QED BY Zenon, <1>1, <1>2, <1>3 DEF Layers

(* The same of the service's own state.                                    *)
LEMMA SettledGood ==
    ASSUME NEW r, NEW q, NEW phase, NEW value,
           MaySettle(r, resolutions[r].layer, q, phase, value, states, resolutions, environmentResets)
    PROVE EnvironmentGood(Settle(r, phase, value, states), [resolutions EXCEPT ![r] = q], environmentResets)
<1>1. EnvironmentGood(IF states[resolutions[r].layer].generation = resolutions[r].generation
                      THEN [states EXCEPT ![resolutions[r].layer].has = phase,
                                          ![resolutions[r].layer].value = value,
                                          ![resolutions[r].layer].pending = 0]
                      ELSE states, [resolutions EXCEPT ![r] = q], environmentResets)
  BY SettleGood, Zenon
<1> QED BY <1>1, Zenon DEF Settle

(* A resolution fails: its layer, if still its own, keeps the error.       *)
LEMMA RejectGood ==
    ASSUME NEW r \in DOMAIN resolutions, EnvironmentIInv, resolutions[r].phase \in UnderWay
    PROVE EnvironmentGood(Settle(r, "error", NoEnvironment, states),
                          [resolutions EXCEPT ![r].phase = "rejected"], environmentResets)
<1> DEFINE q == [resolutions[r] EXCEPT !.phase = "rejected"]
<1>1. /\ EnvironmentGood(states, resolutions, environmentResets)
      /\ resolutions \in Seq(ResolutionRecords) /\ resolutions[r] \in ResolutionRecords
  BY DEF EnvironmentIInv, EnvironmentGood
<1>2. /\ q \in ResolutionRecords /\ q.layer = resolutions[r].layer
      /\ q.generation = resolutions[r].generation /\ q.phase = "rejected"
      /\ resolutions[r].layer \in Layers
  BY <1>1, Zenon DEF ResolutionRecords, UnderWay
<1>3. NoEnvironment \in Environments
  BY Zenon DEF NoEnvironment, Environments
<1>4. [resolutions EXCEPT ![r].phase = "rejected"] = [resolutions EXCEPT ![r] = q]
  BY <1>1, RewrittenResolution, Zenon
<1> HIDE DEF q
<1>5. MaySettle(r, resolutions[r].layer, q, "error", NoEnvironment, states, resolutions, environmentResets)
  BY Zenon, <1>1, <1>2, <1>3 DEF MaySettle
<1> QED BY Zenon, <1>4, <1>5, SettledGood

(* One step of the service.                                                *)
LEMMA EnvironmentStep ==
    ASSUME EnvironmentIInv, [EnvironmentNext]_envVars
    PROVE EnvironmentIInv'
<1>1. /\ EnvironmentGood(states, resolutions, environmentResets)
      /\ environmentResets \in Nat /\ states \in [Layers -> LayerStates]
      /\ resolutions \in Seq(ResolutionRecords)
  BY Zenon DEF EnvironmentIInv, EnvironmentGood
<1>2. ASSUME NEW l \in Layers, resolveState(l) PROVE EnvironmentIInv'
  <2>1. ResolvedTo(Resolving(l, states, resolutions), l, states, resolutions, environmentResets)
    BY <1>1, ResolvingGood, Zenon
  <2> QED BY <1>2, <2>1, Zenon DEF resolveState, EnvironmentIInv, ResolvedTo
<1>3. ASSUME NEW r \in DOMAIN resolutions PROVE
         /\ resolutions[r] \in ResolutionRecords /\ resolutions[r].layer \in Layers /\ r \in Nat
         /\ resolutions[r].base \in Environments /\ resolutions[r].on \in Nat
         /\ ResolutionGood(r, states, resolutions, environmentResets)
  <2>1. resolutions[r] \in ResolutionRecords /\ r \in Nat
    BY <1>1
  <2> QED BY Zenon, <1>1, <2>1 DEF EnvironmentGood, ResolutionRecords
<1>4. ASSUME NEW r \in DOMAIN resolutions, MaterializeLayer(r) PROVE EnvironmentIInv'
  <2> DEFINE l == resolutions[r].layer
             below == Resolving(LayerBelow[l], states, resolutions)
  <2>1. resolutions[r].phase = "queued" /\ environmentResets' = environmentResets
        /\ resolutions[r].phase \in UnderWay /\ l \in Layers
    BY <1>3, <1>4, Zenon DEF MaterializeLayer, UnderWay
  <2>2. CASE l = "client"
    <3> DEFINE q == [resolutions[r] EXCEPT !.phase = "creating"]
    <3>1. resolutions' = [resolutions EXCEPT ![r] = q] /\ states' = states
      BY <1>1, <1>4, <2>2, RewrittenResolution, Zenon DEF MaterializeLayer
    <3>2. MayMove(r, q, states, resolutions, environmentResets)
      BY <1>1, <1>3, <2>1, <2>2, Zenon DEF MayMove, ResolutionRecords, UnderWay
    <3> QED BY <2>1, <3>1, <3>2, MoveGood, Zenon DEF EnvironmentIInv
  <2>3. CASE l # "client" /\ below.promise # 0
    <3> DEFINE q == [resolutions[r] EXCEPT !.phase = "waiting", !.on = below.promise]
    <3>1. /\ EnvironmentGood(below.states, below.resolutions, environmentResets)
          /\ below.promise \in DOMAIN below.resolutions
          /\ below.resolutions[below.promise].layer = LayerBelow[l]
          /\ below.resolutions[below.promise].generation = environmentResets
          /\ r \in DOMAIN below.resolutions /\ below.resolutions[r] = resolutions[r]
      <4>1. LayerBelow[l] \in Layers
        BY <2>1, <2>3, LayerChain, Zenon
      <4>2. ResolvedTo(below, LayerBelow[l], states, resolutions, environmentResets)
        BY <1>1, <4>1, ResolvingGood, Zenon
      <4> HIDE DEF below
      <4> QED BY <2>3, <4>2, Zenon DEF ResolvedTo
    <3>3. /\ states' = below.states
          /\ resolutions' = [below.resolutions EXCEPT ![r].phase = "waiting", ![r].on = below.promise]
      BY <1>4, <2>3, Zenon DEF MaterializeLayer
    <3> HIDE DEF below
    <3>2. below.resolutions \in Seq(ResolutionRecords) /\ below.promise \in Nat
      <4>1. below.resolutions \in Seq(ResolutionRecords)
        BY Zenon, <3>1 DEF EnvironmentGood
      <4> QED BY <3>1, <4>1
    <3>4. resolutions' = [below.resolutions EXCEPT ![r] = q]
      BY <3>1, <3>2, <3>3, RewrittenResolution, Zenon
    <3>5. /\ q \in ResolutionRecords /\ q.layer = l /\ q.generation = resolutions[r].generation
          /\ q.phase = "waiting" /\ q.on = below.promise
      BY <1>3, <3>2, Zenon DEF ResolutionRecords, UnderWay
    <3> HIDE DEF q
    <3>6. MayMove(r, q, below.states, below.resolutions, environmentResets)
      BY Zenon, <2>1, <2>3, <3>1, <3>5 DEF MayMove, UnderWay
    <3> QED BY <2>1, <3>3, <3>4, <3>6, MoveGood DEF EnvironmentIInv
  <2>4. CASE l # "client" /\ below.promise = 0
    <3>1. CASE states[LayerBelow[l]].has = "value"
      <4> DEFINE q == [resolutions[r] EXCEPT !.phase = "creating", !.base = states[LayerBelow[l]].value]
      <4>1. resolutions' = [resolutions EXCEPT ![r] = q] /\ states' = states
        BY <1>1, <1>4, <2>4, <3>1, RewrittenResolution, Zenon DEF MaterializeLayer
      <4>2. states[LayerBelow[l]].value \in Environments
        BY Zenon, <1>1, <2>1, <2>4, LayerChain DEF LayerStates
      <4>3. /\ q \in ResolutionRecords /\ q.layer = l /\ q.generation = resolutions[r].generation
            /\ q.phase = "creating" /\ q.base = states[LayerBelow[l]].value
        BY <1>3, <4>2, Zenon DEF ResolutionRecords, UnderWay
      <4> HIDE DEF q
      <4>4. MayMove(r, q, states, resolutions, environmentResets)
        BY Zenon, <1>1, <2>1, <3>1, <4>3 DEF MayMove, UnderWay
      <4> QED BY <2>1, <4>1, <4>4, MoveGood, Zenon DEF EnvironmentIInv
    <3>2. CASE states[LayerBelow[l]].has # "value"
      BY Zenon, <1>1, <1>4, <2>1, <2>4, <3>2, RejectGood DEF MaterializeLayer, EnvironmentIInv
    <3> QED BY Zenon, <3>1, <3>2
  <2> QED BY Zenon, <2>2, <2>3, <2>4
<1>5. ASSUME NEW r \in DOMAIN resolutions, Awaited(r) PROVE EnvironmentIInv'
  <2> DEFINE lower == resolutions[resolutions[r].on]
  <2>1. resolutions[r].phase = "waiting" /\ environmentResets' = environmentResets
        /\ resolutions[r].phase \in UnderWay
    BY Zenon, <1>5 DEF Awaited, UnderWay
  <2>2. CASE lower.phase = "fulfilled" /\ states' = states
             /\ resolutions' = [resolutions EXCEPT ![r].phase = "creating", ![r].base = lower.base]
    <3> DEFINE q == [resolutions[r] EXCEPT !.phase = "creating", !.base = lower.base]
    <3>1. resolutions' = [resolutions EXCEPT ![r] = q]
      BY <1>1, <2>2, RewrittenResolution, Zenon
    <3>2. resolutions[r].on \in DOMAIN resolutions
      BY Zenon, <1>3, <2>1 DEF ResolutionGood
    <3>3. /\ q \in ResolutionRecords /\ q.layer = resolutions[r].layer
          /\ q.generation = resolutions[r].generation
          /\ q.phase = "creating" /\ q.base = lower.base
      BY <1>3, <3>2, Zenon DEF ResolutionRecords, UnderWay
    <3> HIDE DEF q
    <3>4. q.generation = environmentResets =>
             /\ states[LayerBelow[q.layer]].has = "value"
             /\ q.base.by = states[LayerBelow[q.layer]].value.by
      <4>1. /\ ResolutionGood(r, states, resolutions, environmentResets)
            /\ ResolutionGood(resolutions[r].on, states, resolutions, environmentResets)
        BY <1>3, <3>2, Zenon
      <4> QED BY <2>1, <2>2, <3>2, <3>3, <4>1, SMT DEF ResolutionGood
    <3>5. MayMove(r, q, states, resolutions, environmentResets)
      BY <1>1, <2>1, <3>3, <3>4, Zenon DEF MayMove, UnderWay
    <3>6. EnvironmentGood(states, [resolutions EXCEPT ![r] = q], environmentResets)
      BY Zenon, <3>5, MoveGood
    <3> QED BY <2>1, <2>2, <3>1, <3>6, Zenon DEF EnvironmentIInv
  <2>3. CASE /\ resolutions' = [resolutions EXCEPT ![r].phase = "rejected"]
             /\ states' = Settle(r, "error", NoEnvironment, states)
    BY <2>1, <2>3, RejectGood, Zenon DEF EnvironmentIInv
  <2> QED BY Zenon, <1>5, <2>2, <2>3 DEF Awaited
<1>6. ASSUME NEW r \in DOMAIN resolutions, Created(r) PROVE EnvironmentIInv'
  <2> DEFINE l == resolutions[r].layer
             value == Materialized(l, r, resolutions[r].base)
  <2>1. resolutions[r].phase = "creating" /\ environmentResets' = environmentResets
        /\ resolutions[r].phase \in UnderWay
    BY Zenon, <1>6 DEF Created, UnderWay
  <2>2. CASE /\ resolutions' = [resolutions EXCEPT ![r].phase = "fulfilled", ![r].base = value]
             /\ states' = Settle(r, "value", value, states)
    <3> DEFINE q == [resolutions[r] EXCEPT !.phase = "fulfilled", !.base = value]
    <3>1. resolutions' = [resolutions EXCEPT ![r] = q]
      BY <1>1, <2>2, RewrittenResolution, Zenon
    <3>2. value \in Environments /\ (l # "client" => value.parent = resolutions[r].base.by)
      BY <1>3, MaterializedGood, Zenon
    <3>3. states' = Settle(r, "value", value, states)
      BY Zenon, <2>2
    <3> HIDE DEF value
    <3>4. /\ q \in ResolutionRecords /\ q.layer = l /\ q.generation = resolutions[r].generation
          /\ q.phase = "fulfilled" /\ q.base = value
      BY <1>3, <3>2, Zenon DEF ResolutionRecords, UnderWay
    <3> HIDE DEF q
    <3>5. MaySettle(r, resolutions[r].layer, q, "value", value, states, resolutions, environmentResets)
      BY <1>1, <1>3, <2>1, <3>2, <3>4, Zenon DEF MaySettle, ResolutionGood
    <3>6. EnvironmentGood(Settle(r, "value", value, states), [resolutions EXCEPT ![r] = q], environmentResets)
      BY Zenon, <3>5, SettledGood
    <3> QED BY Zenon, <2>1, <3>1, <3>3, <3>6 DEF EnvironmentIInv
  <2>3. CASE /\ resolutions' = [resolutions EXCEPT ![r].phase = "rejected"]
             /\ states' = Settle(r, "error", NoEnvironment, states)
    BY <2>1, <2>3, RejectGood, Zenon DEF EnvironmentIInv
  <2> QED BY Zenon, <1>6, <2>2, <2>3 DEF Created
<1>7. ASSUME reset PROVE EnvironmentIInv'
  <2>1. /\ states' = [l \in Layers |-> resetState(states[l])]
        /\ environmentResets' = environmentResets + 1 /\ resolutions' = resolutions
    BY Zenon, <1>7 DEF reset
  <2>2. \A l \in Layers : states[l] \in LayerStates /\ states[l].generation = environmentResets
    BY Zenon, <1>1 DEF EnvironmentGood, LayerGood
  <2>3. \A l \in Layers : /\ states'[l] \in LayerStates
                          /\ states'[l].generation = environmentResets + 1
                          /\ states'[l].has = "nothing" /\ states'[l].pending = 0
    BY <1>1, <2>1, <2>2 DEF resetState, LayerStates, NoEnvironment, Environments
  <2>4. states' \in [Layers -> LayerStates] /\ environmentResets' \in Nat
    BY <1>1, <2>1, <2>3
  <2>5. \A l \in Layers : LayerGood(l, states', resolutions, environmentResets')
    BY Zenon, <2>1, <2>3 DEF LayerGood
  <2>6. ASSUME NEW r \in DOMAIN resolutions
        PROVE ResolutionGood(r, states', resolutions, environmentResets')
    <3>1. resolutions[r].generation \in Nat /\ resolutions[r].generation <= environmentResets
      BY Zenon, <1>3 DEF ResolutionRecords, ResolutionGood
    <3>2. resolutions[r].generation <= environmentResets + 1
          /\ resolutions[r].generation # environmentResets + 1
      BY <1>1, <3>1
    <3> QED BY <1>3, <2>1, <3>2, Zenon DEF ResolutionGood
  <2> QED BY Zenon, <1>1, <2>1, <2>4, <2>5, <2>6 DEF EnvironmentIInv, EnvironmentGood
<1>8. CASE UNCHANGED envVars
  BY Zenon, <1>8 DEF envVars, EnvironmentIInv
<1> QED BY Zenon, <1>2, <1>4, <1>5, <1>6, <1>7, <1>8 DEF EnvironmentNext

(* However resets and overtaken answers interleave, the environments that  *)
(* ClientEnvironmentService caches are layers of one another, and a layer  *)
(* waits only for a resolution that is under way.                          *)
THEOREM EnvironmentLayersAgree == EnvironmentSpec => []CachedLayersAgree
<1>1. EnvironmentInit => EnvironmentIInv
  <2> SUFFICES ASSUME EnvironmentInit PROVE EnvironmentIInv
    BY Zenon
  <2>1. createEnvironmentServiceState \in LayerStates
    BY Zenon DEF createEnvironmentServiceState, LayerStates, NoEnvironment, Environments
  <2>2. /\ states \in [Layers -> LayerStates] /\ resolutions = <<>> /\ environmentResets = 0
        /\ \A l \in Layers : states[l] = createEnvironmentServiceState
    BY Zenon, <2>1 DEF EnvironmentInit
  <2>3. resolutions \in Seq(ResolutionRecords) /\ DOMAIN resolutions = {}
    BY <2>2
  <2>4. \A l \in Layers : LayerGood(l, states, resolutions, 0)
    BY <2>2 DEF LayerGood, createEnvironmentServiceState
  <2> QED BY Zenon, <2>2, <2>3, <2>4 DEF EnvironmentIInv, EnvironmentGood
<1>2. EnvironmentIInv /\ [EnvironmentNext]_envVars => EnvironmentIInv'
  BY Zenon, EnvironmentStep
<1>3. EnvironmentIInv => CachedLayersAgree
  <2> SUFFICES ASSUME EnvironmentIInv PROVE CachedLayersAgree
    BY Zenon
  <2>1. \A l \in Layers : LayerGood(l, states, resolutions, environmentResets)
    BY Zenon DEF EnvironmentIInv, EnvironmentGood
  <2> QED BY <2>1, Zenon DEF CachedLayersAgree, LayerGood, Layers, UnderWay
<1> QED BY <1>1, <1>2, <1>3, PTL DEF EnvironmentSpec

-----------------------------------------------------------------------------
(* Cancellation                                                            *)

Reasons == Sources \cup {"disposed", NoReason}
Callbacks == {"link", "unlink", "abort"} \X Requests
DeliveryRecords == [of : Tokens, called : SUBSET Callbacks]
RequestStates == [at : {"idle", "fetching", "settled"}, sources : SUBSET Sources,
                  token : Tokens \cup {NoReason}, aborted : Reasons,
                  result : Reasons \cup {"response", "network"}]

CancelTypes ==
    /\ reason \in [Tokens -> Reasons]
    /\ listeners \in [Tokens -> SUBSET Callbacks]
    /\ loops \in Seq(DeliveryRecords)
    /\ request \in [Requests -> RequestStates]

(* A loop of the stack lp over the listeners ls of t has l still to call.  *)
Awaits(t, l, ls, lp) == l \in ls[t] /\ \E i \in DOMAIN lp : lp[i].of = t /\ l \notin lp[i].called

(* Only cancelled tokens are delivered, each in one loop.                  *)
DeliveriesGood(rs, lp) ==
    /\ \A i \in DOMAIN lp : rs[lp[i].of] # NoReason
    /\ \A i, j \in DOMAIN lp : lp[i].of = lp[j].of => i = j

(* The callbacks of request r are where execute registered them.           *)
ListenersGood(r, q, ls) ==
    \A t \in Tokens : /\ <<"abort", r>> \in ls[t] => q.at # "idle" /\ t = q.token
                      /\ <<"link", r>> \in ls[t] => t \in q.sources /\ q.token = r
                      /\ <<"unlink", r>> \in ls[t] => t = r

(* The token of r is cancelled for the reason of one of r's sources.       *)
ReasonGood(r, q, rs) ==
    /\ q.at = "idle" => rs[r] = NoReason /\ q.sources = {}
    /\ rs[r] # NoReason => \E s \in q.sources : rs[s] = rs[r]

(* A request in flight is aborted with its token's reason or is about to   *)
(* be, and a linked token is cancelled or is about to be once a source is. *)
FlightGood(r, q, rs, ls, lp) ==
    q.at = "fetching" =>
        /\ q.token \in q.sources \cup {r}
        /\ q.token # r => q.sources = {q.token} \/ rs[q.token] # NoReason
        /\ q.aborted \in {NoReason, rs[q.token]}
        /\ IF rs[q.token] = NoReason THEN <<"abort", r>> \in ls[q.token]
           ELSE q.aborted = rs[q.token] \/ Awaits(q.token, <<"abort", r>>, ls, lp)
        /\ q.token = r /\ rs[r] = NoReason => \A s \in q.sources :
              <<"link", r>> \in ls[s] /\ (rs[s] # NoReason => Awaits(s, <<"link", r>>, ls, lp))

ResultGood(q, rs) ==
    q.at = "settled" => \/ q.result \in {"response", "network"}
                        \/ q.result # NoReason /\ \E s \in q.sources : q.result = rs[s]

CancelIInv ==
    /\ CancelTypes
    /\ DeliveriesGood(reason, loops)
    /\ \A r \in Requests : /\ ListenersGood(r, request[r], listeners)
                           /\ ReasonGood(r, request[r], reason)
                           /\ FlightGood(r, request[r], reason, listeners, loops)
                           /\ ResultGood(request[r], reason)

RequestGood(r, q, rs, ls, lp) ==
    /\ ListenersGood(r, q, ls) /\ ReasonGood(r, q, rs)
    /\ FlightGood(r, q, rs, ls, lp) /\ ResultGood(q, rs)

(* _cancel starts a loop that has everyone still to call.                  *)
LEMMA DeliveryStarts ==
    ASSUME NEW lp \in Seq(DeliveryRecords), NEW t \in Tokens, NEW rs \in [Tokens -> Reasons],
           rs[t] = NoReason, NEW why \in Reasons, why # NoReason, DeliveriesGood(rs, lp)
    PROVE /\ Deliver(t, lp) \in Seq(DeliveryRecords)
          /\ DeliveriesGood([rs EXCEPT ![t] = why], Deliver(t, lp))
          /\ \A l, ls : l \in ls[t] => Awaits(t, l, ls, Deliver(t, lp))
          /\ \A u, l, ls : Awaits(u, l, ls, lp) => Awaits(u, l, ls, Deliver(t, lp))
<1> DEFINE new == [of |-> t, called |-> {}]
           L == Append(lp, new)
<1>1. new \in DeliveryRecords /\ new.of = t /\ new.called = {}
  BY Zenon DEF DeliveryRecords
<1> HIDE DEF new
<1>2. /\ L \in Seq(DeliveryRecords) /\ DOMAIN L = DOMAIN lp \cup {Len(lp) + 1}
      /\ L[Len(lp) + 1] = new /\ \A i \in DOMAIN lp : L[i] = lp[i]
  BY <1>1
<1> HIDE DEF L
<1>3. L = Deliver(t, lp)
  BY Zenon DEF L, new, Deliver
<1>4. \A i \in DOMAIN lp : lp[i].of # t /\ lp[i].of \in Tokens
  <2> TAKE i \in DOMAIN lp
  <2>1. lp[i] \in DeliveryRecords
    OBVIOUS
  <2> QED BY Zenon, <2>1 DEF DeliveriesGood, DeliveryRecords
<1>5. DeliveriesGood([rs EXCEPT ![t] = why], L)
  BY Zenon, <1>1, <1>2, <1>4 DEF DeliveriesGood
<1> QED BY Zenon, <1>1, <1>2, <1>3, <1>5 DEF Awaits

(* The innermost loop calls one listener.                                  *)
LEMMA DeliveryCalls ==
    ASSUME CancelTypes, DeliveriesGood(reason, loops), loops # <<>>, NEW x \in Callbacks
    PROVE /\ Called(x) \in Seq(DeliveryRecords) /\ DeliveriesGood(reason, Called(x))
          /\ Innermost.of \in Tokens /\ reason[Innermost.of] # NoReason
          /\ \A u, y, ls : Awaits(u, y, ls, loops) /\ (y # x \/ u # Innermost.of) => Awaits(u, y, ls, Called(x))
<1> DEFINE inner == [Innermost EXCEPT !.called = @ \cup {x}]
<1>1. Len(loops) \in DOMAIN loops /\ Innermost \in DeliveryRecords /\ loops \in Seq(DeliveryRecords)
  BY DEF Innermost, CancelTypes
<1>2. inner \in DeliveryRecords /\ inner.of = Innermost.of /\ inner.called = Innermost.called \cup {x}
  BY Zenon, <1>1 DEF DeliveryRecords
<1>3. Called(x) = [loops EXCEPT ![Len(loops)] = inner]
  BY Zenon DEF Called, Innermost
<1> HIDE DEF inner
<1>4. /\ Called(x) \in Seq(DeliveryRecords) /\ DOMAIN Called(x) = DOMAIN loops
      /\ Called(x)[Len(loops)] = inner
      /\ \A i \in DOMAIN loops : i # Len(loops) => Called(x)[i] = loops[i]
  BY <1>1, <1>2, <1>3
<1>5. \A i \in DOMAIN loops : Called(x)[i].of = loops[i].of
  BY Zenon, <1>2, <1>4 DEF Innermost
<1>6. DeliveriesGood(reason, Called(x))
  BY Zenon, <1>4, <1>5 DEF DeliveriesGood
<1>7. Innermost.of \in Tokens /\ reason[Innermost.of] # NoReason
  BY Zenon, <1>1 DEF DeliveryRecords, DeliveriesGood, Innermost
<1>8. ASSUME NEW u, NEW y, NEW i \in DOMAIN loops, loops[i].of = u, y \notin loops[i].called,
             y # x \/ u # Innermost.of
      PROVE \E j \in DOMAIN Called(x) : Called(x)[j].of = u /\ y \notin Called(x)[j].called
  BY Zenon, <1>2, <1>4, <1>8 DEF Innermost
<1> QED BY Zenon, <1>4, <1>6, <1>7, <1>8 DEF Awaits

(* A token t that is cancelled, for a source's reason if it is a linked    *)
(* one: nothing that is known of a request r is lost, the callback that    *)
(* cancels t excepted.                                                     *)
LEMMA CancelledGood ==
    ASSUME NEW r \in Requests, NEW q \in RequestStates, NEW rs \in [Tokens -> Reasons],
           NEW ls \in [Tokens -> SUBSET Callbacks], NEW lp, NEW lq,
           RequestGood(r, q, rs, ls, lp),
           NEW t \in Tokens, rs[t] = NoReason, NEW why \in Reasons, why # NoReason,
           t = r => \E s \in q.sources : rs[s] = why,
           \A u, y : Awaits(u, y, ls, lp) /\ y # <<"link", t>> => Awaits(u, y, ls, lq),
           \A y : y \in ls[t] => Awaits(t, y, ls, lq)
    PROVE RequestGood(r, q, [rs EXCEPT ![t] = why], ls, lq)
<1> DEFINE RS == [rs EXCEPT ![t] = why]
<1>1. RS[t] = why /\ (\A u \in Tokens : u # t => RS[u] = rs[u]) /\ r \in Tokens /\ q.sources \subseteq Tokens
  BY Zenon DEF Tokens, RequestStates
<1> HIDE DEF RS
<1>2. ReasonGood(r, q, RS)
  <2>1. CASE t = r
    BY Zenon, <1>1, <2>1 DEF RequestGood, ReasonGood
  <2>2. CASE t # r
    BY Zenon, <1>1, <2>2 DEF RequestGood, ReasonGood
  <2> QED BY Zenon, <2>1, <2>2
<1>3. ResultGood(q, RS)
  BY Zenon, <1>1 DEF RequestGood, ResultGood
<1>4. FlightGood(r, q, RS, ls, lq)
  <2> SUFFICES ASSUME q.at = "fetching"
               PROVE FlightGood(r, q, RS, ls, lq)
    BY Zenon DEF FlightGood
  <2>1. FlightGood(r, q, rs, ls, lp) /\ q.token \in Tokens
    BY Zenon, <1>1 DEF RequestGood, FlightGood
  <2>2. \A u : Awaits(u, <<"abort", r>>, ls, lp) => Awaits(u, <<"abort", r>>, ls, lq)
    BY Zenon
  <2>3. t # r => \A u : Awaits(u, <<"link", r>>, ls, lp) => Awaits(u, <<"link", r>>, ls, lq)
    BY Zenon
  <2>4. CASE q.token = t
    BY Zenon, <1>1, <2>1, <2>2, <2>3, <2>4 DEF FlightGood
  <2>5. CASE q.token # t
    BY Zenon, <1>1, <2>1, <2>2, <2>3, <2>5 DEF FlightGood
  <2> QED BY Zenon, <2>4, <2>5
<1> QED BY Zenon, <1>2, <1>3, <1>4 DEF RequestGood, RS

(* A callback of request x is called, and what it does is not a matter of  *)
(* request r.                                                              *)
LEMMA OthersGood ==
    ASSUME NEW r, NEW q, NEW rs, NEW ls, NEW lp, NEW lm, NEW lq, RequestGood(r, q, rs, ls, lp),
           \A u \in Tokens, k \in {"link", "unlink", "abort"} :
              /\ <<k, r>> \in lm[u] <=> <<k, r>> \in ls[u]
              /\ Awaits(u, <<k, r>>, ls, lp) => Awaits(u, <<k, r>>, lm, lq),
           q.sources \subseteq Tokens, q.at = "fetching" => q.token \in Tokens
    PROVE RequestGood(r, q, rs, lm, lq)
<1>1. ListenersGood(r, q, lm)
  BY Zenon DEF RequestGood, ListenersGood
<1>2. FlightGood(r, q, rs, lm, lq)
  <2> SUFFICES ASSUME q.at = "fetching" PROVE FlightGood(r, q, rs, lm, lq)
    BY Zenon DEF FlightGood
  <2> QED BY Zenon DEF RequestGood, FlightGood
<1> QED BY Zenon, <1>1, <1>2 DEF RequestGood

(* One step of the tokens and requests.                                    *)
LEMMA CancelStep ==
    ASSUME CancelIInv, [CancelNext]_cancelVars
    PROVE CancelIInv'
<1>1. /\ reason \in [Tokens -> Reasons] /\ listeners \in [Tokens -> SUBSET Callbacks]
      /\ loops \in Seq(DeliveryRecords) /\ request \in [Requests -> RequestStates]
      /\ DeliveriesGood(reason, loops) /\ CancelTypes
      /\ \A r \in Requests : RequestGood(r, request[r], reason, listeners, loops)
  BY Zenon DEF CancelIInv, CancelTypes, RequestGood
<1>2. \A r \in Requests : /\ r \in Tokens /\ request[r].sources \subseteq Tokens
                          /\ request[r].at = "fetching" => request[r].token \in Tokens
                          /\ \A k \in {"link", "unlink", "abort"} : <<k, r>> \in Callbacks
  <2> TAKE r \in Requests
  <2>1. request[r].sources \subseteq Tokens /\ r \in Tokens
    BY Zenon, <1>1 DEF RequestStates, Tokens
  <2>2. request[r].at = "fetching" => request[r].token \in request[r].sources \cup {r}
    BY <1>1, Zenon DEF RequestGood, FlightGood
  <2> QED BY Zenon, <2>1, <2>2 DEF Callbacks
<1>3. /\ \A s \in Sources : s \in Tokens /\ s \notin Requests /\ s \in Reasons /\ s # NoReason
      /\ "disposed" \in Reasons /\ "disposed" # NoReason
  BY Zenon, CancelAssumption DEF Tokens, Reasons, NoReason
<1>4. ASSUME NEW s \in Sources, NEW why \in Reasons, why # NoReason, loops = <<>>, _cancel(s, why),
             UNCHANGED request
      PROVE CancelIInv'
  <2>1. CASE isCancellationRequested(s)
    BY Zenon, <1>1, <1>4, <2>1 DEF _cancel, CancelIInv, CancelTypes
  <2>2. CASE ~isCancellationRequested(s)
    <3>1. /\ reason[s] = NoReason /\ reason' = [reason EXCEPT ![s] = why]
          /\ loops' = Deliver(s, loops) /\ UNCHANGED <<listeners, request>>
      BY Zenon, <1>4, <2>2 DEF _cancel, isCancellationRequested
    <3>2. /\ loops' \in Seq(DeliveryRecords) /\ DeliveriesGood(reason', loops')
          /\ \A l, ls : l \in ls[s] => Awaits(s, l, ls, loops')
          /\ \A u, l, ls : Awaits(u, l, ls, loops) => Awaits(u, l, ls, loops')
      BY <1>1, <1>3, <1>4, <3>1, DeliveryStarts, Zenon
    <3>3. ASSUME NEW r \in Requests PROVE RequestGood(r, request[r], reason', listeners, loops')
      BY <1>1, <1>3, <1>4, <3>1, <3>2, CancelledGood, Zenon
    <3>4. reason' \in [Tokens -> Reasons]
      BY <1>1, <1>4, <3>1, Zenon
    <3> QED BY <1>1, <3>1, <3>2, <3>3, <3>4, Zenon DEF CancelIInv, CancelTypes, RequestGood
  <2> QED BY Zenon, <2>1, <2>2
<1>5. ASSUME NEW s \in Sources, cancel(s, s) \/ disposeSource(s) PROVE CancelIInv'
  BY Zenon, <1>3, <1>4, <1>5 DEF cancel, disposeSource
<1>6. ASSUME NEW r \in Requests, NotifyLink(r) PROVE CancelIInv'
  <2> DEFINE x == <<"link", r>>
  <2>1. /\ loops # <<>> /\ x \in listeners[Innermost.of] /\ UNCHANGED <<listeners, request>>
    BY Zenon, <1>6 DEF NotifyLink, Waiting
  <2>2. /\ Called(x) \in Seq(DeliveryRecords) /\ DeliveriesGood(reason, Called(x))
        /\ Innermost.of \in Tokens /\ reason[Innermost.of] # NoReason
        /\ \A u, y, ls : Awaits(u, y, ls, loops) /\ (y # x \/ u # Innermost.of) => Awaits(u, y, ls, Called(x))
    BY <1>1, <1>2, <2>1, DeliveryCalls, Zenon
  <2>3. Innermost.of \in request[r].sources
    BY <1>1, <2>1, <2>2, Zenon DEF RequestGood, ListenersGood
  <2>4. CASE isCancellationRequested(r)
    <3>1. loops' = Called(x) /\ reason' = reason
      BY Zenon, <1>6, <2>4 DEF NotifyLink
    <3>2. ASSUME NEW k \in Requests PROVE RequestGood(k, request[k], reason, listeners, loops')
      <4>1. CASE k # r
        <5>1. \A u, c : Awaits(u, <<c, k>>, listeners, loops) => Awaits(u, <<c, k>>, listeners, Called(x))
          BY Zenon, <2>2, <4>1
        <5> QED BY <1>1, <1>2, <3>1, <5>1, OthersGood, Zenon
      <4>2. CASE k = r
        <5>1. \A u : Awaits(u, <<"abort", k>>, listeners, loops) => Awaits(u, <<"abort", k>>, listeners, Called(x))
          BY Zenon, <2>2
        <5>2. reason[r] # NoReason
          BY Zenon, <2>4 DEF isCancellationRequested
        <5>3. FlightGood(k, request[k], reason, listeners, loops')
          BY <1>1, <3>1, <4>2, <5>1, <5>2, Zenon DEF RequestGood, FlightGood
        <5> QED BY Zenon, <1>1, <5>3 DEF RequestGood
      <4> QED BY Zenon, <4>1, <4>2
    <3> QED BY <1>1, <2>1, <2>2, <3>1, <3>2, Zenon DEF CancelIInv, CancelTypes, RequestGood
  <2>5. CASE ~isCancellationRequested(r)
    <3> DEFINE why == reason[Innermost.of]
    <3>1. /\ reason[r] = NoReason /\ reason' = [reason EXCEPT ![r] = why]
          /\ loops' = Deliver(r, Called(x)) /\ why \in Reasons /\ why # NoReason
      BY Zenon, <1>1, <1>6, <2>2, <2>5 DEF NotifyLink, isCancellationRequested
    <3>2. /\ loops' \in Seq(DeliveryRecords) /\ DeliveriesGood(reason', loops')
          /\ \A l, ls : l \in ls[r] => Awaits(r, l, ls, loops')
          /\ \A u, l, ls : Awaits(u, l, ls, Called(x)) => Awaits(u, l, ls, loops')
      BY <1>1, <1>2, <2>2, <3>1, DeliveryStarts, Zenon
    <3>3. \A u, y : Awaits(u, y, listeners, loops) /\ y # <<"link", r>> => Awaits(u, y, listeners, loops')
      BY <2>2, <3>2, Zenon
    <3>4. ASSUME NEW k \in Requests PROVE RequestGood(k, request[k], reason', listeners, loops')
      <4>1. r = k => \E s \in request[k].sources : reason[s] = why
        BY Zenon, <2>3
      <4> HIDE DEF why
      <4> QED BY <1>1, <1>2, <3>1, <3>2, <3>3, <4>1, CancelledGood, Zenon
    <3>5. reason' \in [Tokens -> Reasons]
      BY <1>1, <3>1, Zenon
    <3> QED BY Zenon, <1>1, <2>1, <3>2, <3>4, <3>5 DEF CancelIInv, CancelTypes, RequestGood
  <2> QED BY Zenon, <2>4, <2>5
<1>7. ASSUME NEW r \in Requests, NotifyUnlink(r) PROVE CancelIInv'
  <2> DEFINE x == <<"unlink", r>>
  <2>1. /\ loops # <<>> /\ x \in listeners[Innermost.of] /\ loops' = Called(x)
        /\ listeners' = [t \in Tokens |-> listeners[t] \ {<<"link", r>>}] /\ UNCHANGED <<reason, request>>
    BY Zenon, <1>7 DEF NotifyUnlink, Waiting
  <2>2. /\ Called(x) \in Seq(DeliveryRecords) /\ DeliveriesGood(reason, Called(x))
        /\ Innermost.of \in Tokens /\ reason[Innermost.of] # NoReason
        /\ \A u, y, ls : Awaits(u, y, ls, loops) /\ (y # x \/ u # Innermost.of) => Awaits(u, y, ls, Called(x))
    BY <1>1, <1>2, <2>1, DeliveryCalls, Zenon
  <2>3. reason[r] # NoReason
    BY <1>1, <2>1, <2>2, Zenon DEF RequestGood, ListenersGood
  <2>4. listeners' \in [Tokens -> SUBSET Callbacks]
    BY Zenon, <1>1, <2>1
  <2>5. ASSUME NEW k \in Requests PROVE RequestGood(k, request[k], reason, listeners', loops')
    <3>1. CASE k # r
      <4>1. \A u \in Tokens, c \in {"link", "unlink", "abort"} :
               /\ <<c, k>> \in listeners'[u] <=> <<c, k>> \in listeners[u]
               /\ Awaits(u, <<c, k>>, listeners, loops) => Awaits(u, <<c, k>>, listeners', loops')
        BY <1>1, <2>1, <2>2, <3>1, Zenon DEF Awaits
      <4> QED BY <1>1, <1>2, <4>1, OthersGood, Zenon
    <3>2. CASE k = r
      <4>1. ListenersGood(k, request[k], listeners')
        BY Zenon, <1>1, <2>1 DEF RequestGood, ListenersGood
      <4>2. \A u \in Tokens : /\ <<"abort", k>> \in listeners'[u] <=> <<"abort", k>> \in listeners[u]
                              /\ Awaits(u, <<"abort", k>>, listeners, loops) => Awaits(u, <<"abort", k>>, listeners', loops')
        BY <1>1, <2>1, <2>2, Zenon DEF Awaits
      <4>3. FlightGood(k, request[k], reason, listeners', loops')
        BY <1>1, <1>2, <2>3, <3>2, <4>2, Zenon DEF RequestGood, FlightGood
      <4> QED BY Zenon, <1>1, <4>1, <4>3 DEF RequestGood
    <3> QED BY Zenon, <3>1, <3>2
  <2> QED BY <1>1, <2>1, <2>2, <2>4, <2>5, Zenon DEF CancelIInv, CancelTypes, RequestGood
<1>8. ASSUME NEW r \in Requests, NotifyAbort(r) PROVE CancelIInv'
  <2> DEFINE x == <<"abort", r>>
  <2>1. /\ loops # <<>> /\ x \in listeners[Innermost.of] /\ loops' = Called(x)
        /\ request' = [request EXCEPT ![r].aborted = reason[Innermost.of]] /\ UNCHANGED <<reason, listeners>>
    BY Zenon, <1>8 DEF NotifyAbort, Waiting
  <2>2. /\ Called(x) \in Seq(DeliveryRecords) /\ DeliveriesGood(reason, Called(x))
        /\ Innermost.of \in Tokens /\ reason[Innermost.of] # NoReason
        /\ \A u, y, ls : Awaits(u, y, ls, loops) /\ (y # x \/ u # Innermost.of) => Awaits(u, y, ls, Called(x))
    BY <1>1, <1>2, <2>1, DeliveryCalls, Zenon
  <2>3. Innermost.of = request[r].token
    BY <1>1, <2>1, <2>2, Zenon DEF RequestGood, ListenersGood
  <2> DEFINE q == [request[r] EXCEPT !.aborted = reason[Innermost.of]]
  <2>4. /\ q \in RequestStates /\ q.at = request[r].at /\ q.sources = request[r].sources
        /\ q.token = request[r].token /\ q.result = request[r].result
        /\ q.aborted = reason[request[r].token]
    BY <1>1, <2>2, <2>3, Zenon DEF RequestStates
  <2>5. /\ request' = [request EXCEPT ![r] = q]
    BY Zenon, <1>1, <2>1
  <2> HIDE DEF q
  <2>6. ASSUME NEW k \in Requests PROVE RequestGood(k, request'[k], reason, listeners, loops')
    <3>1. CASE k # r
      <4>1. \A u \in Tokens, c \in {"link", "unlink", "abort"} :
               Awaits(u, <<c, k>>, listeners, loops) => Awaits(u, <<c, k>>, listeners, loops')
        BY <2>1, <2>2, <3>1, Zenon
      <4>2. request'[k] = request[k]
        BY Zenon, <1>1, <2>5, <3>1
      <4> QED BY <1>1, <1>2, <4>1, <4>2, OthersGood, Zenon
    <3>2. CASE k = r
      <4>1. \A u : Awaits(u, <<"link", r>>, listeners, loops) => Awaits(u, <<"link", r>>, listeners, loops')
        BY Zenon, <2>1, <2>2
      <4>2. FlightGood(r, q, reason, listeners, loops')
        BY <1>1, <2>2, <2>3, <2>4, <4>1, Zenon DEF RequestGood, FlightGood
      <4>3. ListenersGood(r, q, listeners) /\ ReasonGood(r, q, reason) /\ ResultGood(q, reason)
        BY <1>1, <2>4 DEF RequestGood, ListenersGood, ReasonGood, ResultGood
      <4> QED BY Zenon, <1>1, <2>5, <3>2, <4>2, <4>3 DEF RequestGood
    <3> QED BY Zenon, <3>1, <3>2
  <2>7. request' \in [Requests -> RequestStates]
    BY Zenon, <1>1, <2>4, <2>5
  <2> QED BY <1>1, <2>1, <2>2, <2>6, <2>7, Zenon DEF CancelIInv, CancelTypes, RequestGood
<1>9. ASSUME LoopEnds PROVE CancelIInv'
  <2> DEFINE done == Innermost.of
  <2>1. /\ loops # <<>> /\ listeners[done] \subseteq Innermost.called
        /\ listeners' = [listeners EXCEPT ![done] = {}]
        /\ loops' = SubSeq(loops, 1, Len(loops) - 1) /\ UNCHANGED <<reason, request>>
    BY Zenon, <1>9 DEF LoopEnds, Waiting
  <2>2. Len(loops) \in Nat \ {0} /\ Len(loops) \in DOMAIN loops
    BY <1>1, <2>1
  <2>3. /\ loops' \in Seq(DeliveryRecords) /\ DOMAIN loops' = 1 .. Len(loops) - 1
        /\ \A i \in 1 .. Len(loops) - 1 : loops'[i] = loops[i]
    BY <1>1, <2>1, <2>2
  <2>4. \A i \in DOMAIN loops : i # Len(loops) => i \in DOMAIN loops' /\ loops'[i] = loops[i]
    BY <1>1, <2>2, <2>3
  <2>5. DOMAIN loops' \subseteq DOMAIN loops /\ \A i \in DOMAIN loops' : loops'[i] = loops[i]
    BY <1>1, <2>2, <2>3
  <2>6. DeliveriesGood(reason, loops')
    BY Zenon, <1>1, <2>5 DEF DeliveriesGood
  <2>7. done \in Tokens /\ reason[done] # NoReason
    <3>1. Innermost \in DeliveryRecords
      BY <1>1, <2>2, SMTT(30) DEF Innermost
    <3> QED BY Zenon, <1>1, <2>2, <3>1 DEF DeliveryRecords, DeliveriesGood, Innermost
  <2>8. \A l : ~Awaits(done, l, listeners, loops)
    BY Zenon, <1>1, <2>1, <2>2 DEF Awaits, DeliveriesGood, Innermost
  <2>9. listeners' \in [Tokens -> SUBSET Callbacks] /\ \A u \in Tokens : listeners'[u] \subseteq listeners[u]
    BY Zenon, <1>1, <2>1, <2>7
  <2>10. \A u \in Tokens : u # done => listeners'[u] = listeners[u]
    BY Zenon, <1>1, <2>1
  <2>11. ASSUME NEW u \in Tokens, NEW l, Awaits(u, l, listeners, loops)
         PROVE Awaits(u, l, listeners', loops')
    <3>1. u # done
      BY Zenon, <2>8, <2>11
    <3> QED BY Zenon, <2>4, <2>10, <2>11, <3>1 DEF Awaits, Innermost
  <2> HIDE DEF done
  <2>12. ASSUME NEW k \in Requests PROVE RequestGood(k, request[k], reason, listeners', loops')
    <3>1. ListenersGood(k, request[k], listeners')
      BY <1>1, <2>9, SMTT(30) DEF RequestGood, ListenersGood
    <3>2. ASSUME request[k].at = "fetching"
          PROVE FlightGood(k, request[k], reason, listeners', loops')
      <4>1. FlightGood(k, request[k], reason, listeners, loops) /\ request[k].token \in Tokens
        BY <1>1, <1>2, <3>2, Zenon DEF RequestGood
      <4>2. reason[request[k].token] = NoReason => <<"abort", k>> \in listeners'[request[k].token]
        BY Zenon, <2>7, <2>10, <3>2, <4>1 DEF FlightGood
      <4>3. ASSUME request[k].token = k, reason[k] = NoReason, NEW s \in request[k].sources
            PROVE <<"link", k>> \in listeners'[s] /\ (reason[s] # NoReason => Awaits(s, <<"link", k>>, listeners', loops'))
        <5>1. s \in Tokens /\ s # done
          BY <1>2, <2>7, <2>8, <3>2, <4>1, <4>3, Zenon DEF FlightGood
        <5> QED BY Zenon, <2>10, <2>11, <3>2, <4>1, <4>3, <5>1 DEF FlightGood
      <4> QED BY <2>11, <3>2, <4>1, <4>2, <4>3, Zenon DEF FlightGood
    <3>3. FlightGood(k, request[k], reason, listeners', loops')
      BY <3>2, Zenon DEF FlightGood
    <3> QED BY Zenon, <1>1, <3>1, <3>3 DEF RequestGood
  <2> QED BY <1>1, <2>1, <2>3, <2>6, <2>9, <2>12, Zenon DEF CancelIInv, CancelTypes, RequestGood
<1>10. \A u, l, ls : loops = <<>> => ~Awaits(u, l, ls, loops)
  BY DEF Awaits
<1>11. ASSUME NEW r \in Requests, NEW S \in SUBSET Sources, fetchExecute(r, S) PROVE CancelIInv'
  <2>1. /\ loops = <<>> /\ request[r].at = "idle" /\ UNCHANGED <<reason, loops>>
    BY Zenon, <1>11 DEF fetchExecute
  <2>2. PICK t \in createLinkedCancellationToken(r, S) :
          /\ request' = [request EXCEPT ![r] =
                [at |-> "fetching", sources |-> S, token |-> t,
                 aborted |-> reason[t], result |-> NoReason]]
          /\ listeners' = [u \in Tokens |->
                listeners[u]
                \cup (IF t = r /\ u \in S THEN {<<"link", r>>} ELSE {})
                \cup (IF t = r /\ u = r THEN {<<"unlink", r>>} ELSE {})
                \cup (IF u = t /\ ~isCancellationRequested(t) THEN {<<"abort", r>>} ELSE {})]
    BY <1>11, Zenon DEF fetchExecute
  <2>3. S \subseteq Tokens /\ r \in Tokens /\ r \notin S
    BY Zenon, CancelAssumption DEF Tokens
  <2>4. /\ t \in S \cup {r} /\ (t # r => S = {t} \/ reason[t] # NoReason)
        /\ t = r => \A s \in S : reason[s] = NoReason
    BY Zenon, <2>2, <2>3 DEF createLinkedCancellationToken, isCancellationRequested
  <2>5. t \in Tokens
    BY Zenon, <2>3, <2>4
  <2> DEFINE q == [at |-> "fetching", sources |-> S, token |-> t, aborted |-> reason[t], result |-> NoReason]
  <2>6. /\ q \in RequestStates /\ q.at = "fetching" /\ q.sources = S /\ q.token = t
        /\ q.aborted = reason[t]
    BY Zenon, <1>1, <2>5 DEF RequestStates, Reasons
  <2>7. request' = [request EXCEPT ![r] = q]
    BY Zenon, <2>2
  <2> HIDE DEF q
  <2>8. listeners' \in [Tokens -> SUBSET Callbacks]
    <3>1. \A k \in {"link", "unlink", "abort"} : <<k, r>> \in Callbacks
      BY <1>2, Zenon
    <3> QED BY <1>1, <2>2, <3>1, Zenon
  <2>9. \A u \in Tokens : /\ listeners[u] \subseteq listeners'[u]
                          /\ \A k \in Requests : \A c : k # r => (<<c, k>> \in listeners'[u] <=> <<c, k>> \in listeners[u])
    BY Zenon, <2>2
  <2>10. ASSUME NEW u \in Tokens
         PROVE /\ <<"link", r>> \in listeners'[u] <=> t = r /\ u \in S
               /\ <<"abort", r>> \in listeners'[u] <=> u = t /\ reason[t] = NoReason
               /\ <<"unlink", r>> \in listeners'[u] => u = r
    <3>1. request[r].sources = {} /\ reason[r] = NoReason
      BY Zenon, <1>1, <2>1 DEF RequestGood, ReasonGood
    <3>2. /\ <<"link", r>> \notin listeners[u] /\ <<"abort", r>> \notin listeners[u]
          /\ <<"unlink", r>> \in listeners[u] => u = r
      BY Zenon, <1>1, <2>1, <3>1 DEF RequestGood, ListenersGood
    <3> QED BY Zenon, <2>2, <3>2 DEF isCancellationRequested
  <2>11. ASSUME NEW k \in Requests PROVE RequestGood(k, request'[k], reason, listeners', loops)
    <3>1. CASE k # r
      <4>1. request'[k] = request[k]
        BY Zenon, <1>1, <2>7, <3>1
      <4>2. \A u \in Tokens, c \in {"link", "unlink", "abort"} :
               /\ <<c, k>> \in listeners'[u] <=> <<c, k>> \in listeners[u]
               /\ Awaits(u, <<c, k>>, listeners, loops) => Awaits(u, <<c, k>>, listeners', loops)
        BY Zenon, <1>10, <2>1, <2>9, <3>1
      <4> QED BY <1>1, <1>2, <4>1, <4>2, OthersGood, Zenon
    <3>2. CASE k = r
      <4>1. reason[r] = NoReason
        BY Zenon, <1>1, <2>1 DEF RequestGood, ReasonGood
      <4>2. ListenersGood(r, q, listeners')
        BY Zenon, <2>6, <2>10 DEF ListenersGood
      <4>3. ReasonGood(r, q, reason) /\ ResultGood(q, reason)
        BY Zenon, <2>6, <4>1 DEF ReasonGood, ResultGood
      <4>4. \A s \in S : t = r => <<"link", r>> \in listeners'[s]
        BY Zenon, <2>3, <2>10
      <4>5. FlightGood(r, q, reason, listeners', loops)
        BY Zenon, <2>4, <2>5, <2>6, <2>10, <4>4 DEF FlightGood
      <4> QED BY Zenon, <1>1, <2>7, <3>2, <4>2, <4>3, <4>5 DEF RequestGood
    <3> QED BY Zenon, <3>1, <3>2
  <2>12. request' \in [Requests -> RequestStates]
    BY Zenon, <1>1, <2>6, <2>7
  <2> QED BY Zenon, <1>1, <2>1, <2>8, <2>11, <2>12 DEF CancelIInv, CancelTypes, RequestGood
<1>12. ASSUME NEW r \in Requests, FetchSettles(r) PROVE CancelIInv'
  <2>1. /\ loops = <<>> /\ request[r].at = "fetching" /\ UNCHANGED <<reason, loops>>
        /\ listeners' = [t \in Tokens |-> listeners[t] \ {<<"abort", r>>}]
    BY Zenon, <1>12 DEF FetchSettles
  <2>2. PICK outcome \in IF request[r].aborted # NoReason THEN {"AbortError"} ELSE {"response", "network"} :
          request' = [request EXCEPT ![r].at = "settled",
                        ![r].result = IF outcome = "response" THEN outcome
                                      ELSE normalizeAbortError(r, outcome)]
    BY <1>12, Zenon DEF FetchSettles
  <2> DEFINE t == request[r].token
             why == IF outcome = "response" THEN outcome ELSE normalizeAbortError(r, outcome)
             q == [request[r] EXCEPT !.at = "settled", !.result = why]
  <2>3. /\ t \in Tokens /\ t \in request[r].sources \cup {r} /\ request[r].aborted = reason[t]
    BY <1>1, <1>2, <1>10, <2>1, Zenon DEF RequestGood, FlightGood
  <2>4. why = IF reason[t] # NoReason THEN reason[t] ELSE outcome
    BY Zenon, <2>2, <2>3 DEF normalizeAbortError, isCancellationRequested
  <2>5. why \in {"response", "network"} \/ (why # NoReason /\ \E s \in request[r].sources : why = reason[s])
    <3>1. CASE reason[t] = NoReason
      BY Zenon, <2>2, <2>3, <2>4, <3>1
    <3>2. CASE reason[t] # NoReason
      BY <1>1, <2>3, <2>4, <3>2 DEF RequestGood, ReasonGood
    <3> QED BY Zenon, <3>1, <3>2
  <2>6. why \in Reasons \cup {"response", "network"}
    BY Zenon, <1>1, <2>2, <2>3, <2>4
  <2> HIDE DEF why
  <2>7. /\ q \in RequestStates /\ q.at = "settled" /\ q.sources = request[r].sources
        /\ q.token = request[r].token /\ q.result = why
    BY <1>1, <2>6, Zenon DEF RequestStates
  <2>8. request' = [request EXCEPT ![r] = q]
    BY <1>1, <2>2, Zenon DEF why
  <2> HIDE DEF q, t
  <2>9. listeners' \in [Tokens -> SUBSET Callbacks] /\ \A u \in Tokens : listeners'[u] \subseteq listeners[u]
    BY Zenon, <1>1, <2>1
  <2>10. \A u \in Tokens, k \in Requests : \A c : k # r => (<<c, k>> \in listeners'[u] <=> <<c, k>> \in listeners[u])
    BY Zenon, <2>1
  <2>11. ASSUME NEW k \in Requests PROVE RequestGood(k, request'[k], reason, listeners', loops)
    <3>1. CASE k # r
      <4>1. request'[k] = request[k]
        BY Zenon, <1>1, <2>8, <3>1
      <4>2. \A u \in Tokens, c \in {"link", "unlink", "abort"} :
               /\ <<c, k>> \in listeners'[u] <=> <<c, k>> \in listeners[u]
               /\ Awaits(u, <<c, k>>, listeners, loops) => Awaits(u, <<c, k>>, listeners', loops)
        BY Zenon, <1>10, <2>1, <2>10, <3>1
      <4> QED BY <1>1, <1>2, <4>1, <4>2, OthersGood, Zenon
    <3>2. CASE k = r
      <4>1. ListenersGood(r, q, listeners')
        BY <1>1, <2>1, <2>7, <2>9, ZenonT(60) DEF ListenersGood, RequestGood
      <4>2. ReasonGood(r, q, reason)
        BY Zenon, <1>1, <2>7 DEF ReasonGood, RequestGood
      <4>3. ResultGood(q, reason) /\ FlightGood(r, q, reason, listeners', loops)
        BY Zenon, <2>5, <2>7 DEF ResultGood, FlightGood
      <4> QED BY Zenon, <1>1, <2>8, <3>2, <4>1, <4>2, <4>3 DEF RequestGood
    <3> QED BY Zenon, <3>1, <3>2
  <2>12. request' \in [Requests -> RequestStates]
    BY Zenon, <1>1, <2>7, <2>8
  <2> QED BY <1>1, <2>1, <2>9, <2>11, <2>12, Zenon DEF CancelIInv, CancelTypes, RequestGood
<1>13. CASE UNCHANGED cancelVars
  BY Zenon, <1>13 DEF cancelVars, CancelIInv, CancelTypes
<1> QED BY Zenon, <1>5, <1>6, <1>7, <1>8, <1>9, <1>11, <1>12, <1>13 DEF CancelNext

(* Once every listener has been called, a request in flight is aborted     *)
(* exactly when one of its tokens is cancelled, with the reason of one of  *)
(* them, and a settled one reports a cancellation only if there was one:   *)
(* for any number of sources and requests, however deeply cancellations    *)
(* nest.                                                                   *)
THEOREM RequestsFollow == CancelSpec => []RequestsFollowTheirTokens
<1>1. CancelInit => CancelIInv
  <2> SUFFICES ASSUME CancelInit PROVE CancelIInv
    BY Zenon
  <2>1. CancelTypes
    BY SMTT(30) DEF CancelInit, CancelTypes, NotSent, RequestStates, Reasons
  <2>2. ASSUME NEW r \in Requests
        PROVE /\ request[r].at = "idle" /\ request[r].sources = {} /\ r \in Tokens
              /\ \A t \in Tokens : reason[t] = NoReason /\ listeners[t] = {}
    BY Zenon DEF CancelInit, NotSent, Tokens
  <2> QED BY <2>1, <2>2, SMTT(30) DEF CancelInit, CancelIInv, DeliveriesGood, ListenersGood, ReasonGood,
                            FlightGood, ResultGood
<1>2. CancelIInv /\ [CancelNext]_cancelVars => CancelIInv'
  BY Zenon, CancelStep
<1>3. CancelIInv => RequestsFollowTheirTokens
  <2> SUFFICES ASSUME CancelIInv, loops = <<>>, NEW r \in Requests
               PROVE LET whys == {reason[s] : s \in request[r].sources} \ {NoReason} IN
                     /\ request[r].at = "fetching" =>
                           IF whys = {} THEN request[r].aborted = NoReason ELSE request[r].aborted \in whys
                     /\ request[r].at = "settled" => request[r].result \in {"response", "network"} \cup whys
    BY Zenon DEF RequestsFollowTheirTokens
  <2> DEFINE q == request[r]
             whys == {reason[s] : s \in q.sources} \ {NoReason}
  <2>1. /\ ReasonGood(r, q, reason) /\ ResultGood(q, reason)
        /\ FlightGood(r, q, reason, listeners, loops)
        /\ \A u, l : ~Awaits(u, l, listeners, loops)
    BY DEF CancelIInv, Awaits
  <2>2. ASSUME q.at = "fetching"
        PROVE IF whys = {} THEN q.aborted = NoReason ELSE q.aborted \in whys
    <3>1. q.aborted = reason[q.token] /\ q.token \in q.sources \cup {r}
      BY Zenon, <2>1, <2>2 DEF FlightGood
    <3>2. CASE reason[q.token] # NoReason
      <4>1. \E s \in q.sources : reason[s] = reason[q.token]
        BY Zenon, <2>1, <3>1, <3>2 DEF ReasonGood
      <4> QED BY Zenon, <3>1, <3>2, <4>1
    <3>3. CASE reason[q.token] = NoReason
      <4>1. \A s \in q.sources : reason[s] = NoReason
        BY Zenon, <2>1, <2>2, <3>1, <3>3 DEF FlightGood
      <4> QED BY Zenon, <3>1, <3>3, <4>1
    <3> QED BY <3>2, <3>3, Zenon
  <2>3. q.at = "settled" => q.result \in {"response", "network"} \cup whys
    BY Zenon, <2>1 DEF ResultGood
  <2> QED BY <2>2, <2>3, Zenon
<1> QED BY <1>1, <1>2, <1>3, PTL DEF CancelSpec

-----------------------------------------------------------------------------
(* The credential store, for any number of processes, callers, requests,   *)
(* edits and crashes.  First the data file: the store operations keep it   *)
(* well formed, for all sets of ids and names.                             *)

\* An entry of the file is a record, not None.
LEMMA EntryTyped ==
    ASSUME NEW d \in DataFile, NEW e \in Entries(d)
    PROVE  e \in EntryIds /\ d.entries[e] \in AuthEntry
  BY Zenon DEF DataFile, Entries

\* create_basic_entry and create_token_entry, once accepted, keep names unique and
\* every group id resolved.
LEMMA CreateEntryWellFormed ==
    ASSUME NEW d \in DataFile, WellFormed(d), NEW now \in Nat,
           NEW r \in Request, r.op = "create_entry", Accepts(d, r)
    PROVE  CreateEntry(d, r, now) \in DataFile /\ WellFormed(CreateEntry(d, r, now))
<1> DEFINE new == [kind |-> r.kind, name |-> r.name,
                   group_ids |-> r.group_ids, updated_at |-> now]
           n == CreateEntry(d, r, now)
<1>1. /\ r.id \in EntryIds /\ new \in AuthEntry
      /\ EntryNameIsUnique(d, r.name, None) /\ GroupsExist(d, r.group_ids)
  BY Zenon DEF Request, AuthEntry, Accepts
<1>2. /\ n \in DataFile /\ n.groups = d.groups
      /\ n.entries = [d.entries EXCEPT ![r.id] = new]
  BY Zenon, <1>1 DEF CreateEntry, DataFile
<1>3. Groups(n) = Groups(d) /\ Entries(n) = Entries(d) \cup {r.id}
  BY <1>1, <1>2, NoneAssumption DEF Groups, Entries, DataFile
<1>4. EntryNamesUnique(n)
  <2>1. \A e \in Entries(d) : e = r.id \/ d.entries[e].name # r.name
    BY <1>1, NoneAssumption, Zenon DEF EntryNameIsUnique, Entries
  <2> QED
    BY <1>1, <1>2, <1>3, <2>1
       DEF WellFormed, EntryNamesUnique, DataFile, Entries
<1>5. GroupNamesUnique(n)
  BY Zenon, <1>2, <1>3 DEF WellFormed, GroupNamesUnique
<1>6. GroupReferencesResolve(n)
  <2>1. new.group_ids \subseteq Groups(n)
    BY Zenon, <1>1, <1>3 DEF GroupsExist
  <2>2. \A e \in Entries(n) : n.entries[e] = IF e = r.id THEN new ELSE d.entries[e]
    BY Zenon, <1>1, <1>2 DEF DataFile, Entries
  <2>3. \A e \in Entries(n) : e # r.id => e \in Entries(d)
    BY Zenon, <1>3
  <2> QED
    BY Zenon, <1>3, <2>1, <2>2, <2>3 DEF WellFormed, GroupReferencesResolve
<1> QED
  BY Zenon, <1>2, <1>4, <1>5, <1>6 DEF WellFormed

\* update_entry, which may rename the entry or give it other groups, does so too.
LEMMA UpdateEntryWellFormed ==
    ASSUME NEW d \in DataFile, WellFormed(d), NEW now \in Nat,
           NEW r \in Request, r.op = "update_entry", Accepts(d, r)
    PROVE  UpdateEntry(d, r, now) \in DataFile /\ WellFormed(UpdateEntry(d, r, now))
<1> DEFINE old == d.entries[r.id]
           new == [old EXCEPT !.name = Given(r.name, old.name),
                              !.group_ids = Given(r.group_ids, old.group_ids),
                              !.updated_at = now]
           n == UpdateEntry(d, r, now)
<1>1. /\ r.id \in Entries(d)
      /\ r.name # None => EntryNameIsUnique(d, r.name, r.id)
      /\ r.group_ids # None => GroupsExist(d, r.group_ids)
      /\ r.name \in EntryNames \cup {None}
      /\ r.group_ids \in (SUBSET GroupIds) \cup {None}
  BY Zenon DEF Request, Accepts
<1>2. r.id \in EntryIds /\ old \in AuthEntry
  BY Zenon, <1>1, EntryTyped
<1>3. /\ new \in AuthEntry /\ new.name = Given(r.name, old.name)
      /\ new.group_ids = Given(r.group_ids, old.group_ids)
  <2>1. /\ Given(r.name, old.name) \in EntryNames
        /\ Given(r.group_ids, old.group_ids) \in SUBSET GroupIds
    BY Zenon, <1>1, <1>2 DEF AuthEntry, Given
  <2> QED
    BY <1>2, <2>1, Zenon DEF AuthEntry
<1>4. /\ n \in DataFile /\ n.groups = d.groups
      /\ n.entries = [d.entries EXCEPT ![r.id] = new]
  BY <1>2, <1>3, Zenon DEF UpdateEntry, DataFile
<1> HIDE DEF new, n
<1>5. Groups(n) = Groups(d) /\ Entries(n) = Entries(d)
  BY <1>1, <1>2, <1>3, <1>4, NoneAssumption DEF Groups, Entries, DataFile
<1>6. EntryNamesUnique(n)
  <2>1. \A e \in Entries(d) : e # r.id => d.entries[e].name # new.name
    BY Zenon, <1>1, <1>3 DEF EntryNameIsUnique, Given, WellFormed, EntryNamesUnique
  <2> QED
    BY <1>2, <1>4, <1>5, <2>1
       DEF WellFormed, EntryNamesUnique, DataFile, Entries
<1>7. GroupNamesUnique(n)
  BY Zenon, <1>4, <1>5 DEF WellFormed, GroupNamesUnique
<1>8. GroupReferencesResolve(n)
  <2>1. new.group_ids \subseteq Groups(d)
    BY Zenon, <1>1, <1>3 DEF WellFormed, GroupReferencesResolve, GroupsExist, Given
  <2> QED
    BY <1>2, <1>4, <1>5, <2>1, Zenon
       DEF WellFormed, GroupReferencesResolve, DataFile, Entries
<1> QED
  BY Zenon, <1>4, <1>6, <1>7, <1>8 DEF WellFormed, n

\* delete_entry takes a name out of use and disturbs nothing else.
LEMMA DeleteEntryWellFormed ==
    ASSUME NEW d \in DataFile, WellFormed(d),
           NEW r \in Request, r.op = "delete_entry", Accepts(d, r)
    PROVE  DeleteEntry(d, r) \in DataFile /\ WellFormed(DeleteEntry(d, r))
<1> DEFINE n == DeleteEntry(d, r)
<1>1. /\ n \in DataFile /\ n.groups = d.groups
      /\ n.entries = [d.entries EXCEPT ![r.id] = None]
  BY Zenon DEF DeleteEntry, DataFile
<1>2. Groups(n) = Groups(d) /\ Entries(n) = Entries(d) \ {r.id}
  BY Zenon, <1>1 DEF Groups, Entries, DataFile
<1> QED
  BY <1>1, <1>2 DEF WellFormed, EntryNamesUnique, GroupNamesUnique,
                    GroupReferencesResolve, DataFile, Entries

\* The three group operations change entries only through
\* update_group_membership: what is left to show of each is where the
\* groups of an entry may end up.
LEMMA GroupChangeWellFormed ==
    ASSUME NEW d \in DataFile, WellFormed(d), NEW n \in DataFile,
           Entries(n) = Entries(d),
           \A e \in Entries(d) : n.entries[e].name = d.entries[e].name,
           \A e \in Entries(d) : n.entries[e].group_ids \subseteq Groups(n),
           GroupNamesUnique(n)
    PROVE  WellFormed(n)
  BY Zenon DEF WellFormed, EntryNamesUnique, GroupReferencesResolve

\* create_group, which adds the new group to the listed entries, keeps the file
\* well formed.
LEMMA CreateGroupWellFormed ==
    ASSUME NEW d \in DataFile, WellFormed(d), NEW now \in Nat,
           NEW r \in Request, r.op = "create_group", Accepts(d, r)
    PROVE  CreateGroup(d, r, now) \in DataFile /\ WellFormed(CreateGroup(d, r, now))
<1> DEFINE n == CreateGroup(d, r, now)
           new(e) == IF e \in r.entry_ids
                     THEN UpdateGroupMembership(d.entries[e], r.id, TRUE, now)
                     ELSE d.entries[e]
<1>1. /\ r.id \in GroupIds /\ r.name \in GroupNames
      /\ GroupNameIsUnique(d, r.name, None)
  BY Zenon DEF Request, Accepts
<1>2. ASSUME NEW e \in Entries(d)
      PROVE  /\ new(e) \in AuthEntry /\ new(e).name = d.entries[e].name
             /\ new(e).group_ids \subseteq d.entries[e].group_ids \cup {r.id}
  <2>1. d.entries[e] \in AuthEntry
    BY Zenon, EntryTyped
  <2>2. LET u == UpdateGroupMembership(d.entries[e], r.id, TRUE, now)
        IN  /\ u \in AuthEntry /\ u.name = d.entries[e].name
            /\ u.group_ids = IF TRUE THEN d.entries[e].group_ids \cup {r.id}
                             ELSE d.entries[e].group_ids \ {r.id}
    BY <1>1, <2>1, Zenon DEF UpdateGroupMembership, AuthEntry
  <2> QED
    BY <2>1, <2>2, Zenon
<1>3. /\ n.groups = [d.groups EXCEPT ![r.id] = r.name]
      /\ n.entries = [e \in EntryIds |-> IF e \in Entries(d) THEN new(e) ELSE None]
  BY Zenon DEF CreateGroup, MapEntries
<1>4. n \in DataFile
  <2>1. n.entries \in [EntryIds -> {None} \cup AuthEntry]
    <3> HIDE DEF n, new
    <3> QED
      BY <1>2, <1>3
  <2> QED
    BY <1>1, <1>3, <2>1, Zenon DEF CreateGroup, DataFile
<1>5. Entries(n) = Entries(d)
  <2>1. \A e \in Entries(d) : new(e) # None
    BY <1>2, NoneAssumption, Zenon
  <2> HIDE DEF n, new
  <2> QED
    BY <1>3, <2>1, Zenon DEF Entries
<1>6. Groups(n) = Groups(d) \cup {r.id}
  BY <1>1, <1>3, NoneAssumption DEF Groups, DataFile
<1>7. GroupNamesUnique(n)
  <2>1. \A g \in Groups(d) : d.groups[g] # r.name
    BY Zenon, <1>1, NoneAssumption DEF GroupNameIsUnique, Groups
  <2> QED
    BY Zenon, <1>1, <1>3, <1>6, <2>1
       DEF WellFormed, GroupNamesUnique, DataFile, Groups
<1>8. \A e \in Entries(d) : n.entries[e] = new(e)
  BY <1>3, Zenon DEF Entries
<1>9. \A e \in Entries(d) : n.entries[e].group_ids \subseteq Groups(n)
  BY <1>2, <1>6, <1>8, Zenon DEF WellFormed, GroupReferencesResolve
<1> QED
  BY <1>2, <1>4, <1>5, <1>7, <1>8, <1>9, GroupChangeWellFormed, Zenon

\* update_group may rename the group and make its members exactly those listed;
\* the file stays well formed.
LEMMA UpdateGroupWellFormed ==
    ASSUME NEW d \in DataFile, WellFormed(d), NEW now \in Nat,
           NEW r \in Request, r.op = "update_group", Accepts(d, r)
    PROVE  UpdateGroup(d, r, now) \in DataFile /\ WellFormed(UpdateGroup(d, r, now))
<1> DEFINE n == UpdateGroup(d, r, now)
           member(e) == IF r.entry_ids = None
                        THEN r.id \in d.entries[e].group_ids
                        ELSE e \in r.entry_ids
           new(e) == UpdateGroupMembership(d.entries[e], r.id, member(e), now)
<1>1. /\ r.id \in Groups(d) /\ r.id \in GroupIds /\ r.name \in GroupNames
      /\ GroupNameIsUnique(d, r.name, r.id)
  BY Zenon DEF Request, Accepts
<1>2. ASSUME NEW e \in Entries(d)
      PROVE  /\ new(e) \in AuthEntry /\ new(e).name = d.entries[e].name
             /\ new(e).group_ids \subseteq d.entries[e].group_ids \cup {r.id}
  <2>1. d.entries[e] \in AuthEntry
    BY Zenon, EntryTyped
  <2>2. LET u == UpdateGroupMembership(d.entries[e], r.id, member(e), now)
        IN  /\ u \in AuthEntry /\ u.name = d.entries[e].name
            /\ u.group_ids = IF member(e) THEN d.entries[e].group_ids \cup {r.id}
                             ELSE d.entries[e].group_ids \ {r.id}
    BY <1>1, <2>1, Zenon DEF UpdateGroupMembership, AuthEntry
  <2> QED
    BY <2>1, <2>2, Zenon
<1>3. /\ n.groups = [d.groups EXCEPT ![r.id] = r.name]
      /\ n.entries = [e \in EntryIds |-> IF e \in Entries(d) THEN new(e) ELSE None]
  BY Zenon DEF UpdateGroup, MapEntries
<1>4. n \in DataFile
  <2>1. n.entries \in [EntryIds -> {None} \cup AuthEntry]
    <3> HIDE DEF n, new
    <3> QED
      BY <1>2, <1>3
  <2> QED
    BY <1>1, <1>3, <2>1, Zenon DEF UpdateGroup, DataFile
<1>5. Entries(n) = Entries(d)
  <2>1. \A e \in Entries(d) : new(e) # None
    BY Zenon, <1>2, NoneAssumption
  <2> HIDE DEF n, new
  <2> QED
    BY <1>3, <2>1, Zenon DEF Entries
<1>6. Groups(n) = Groups(d)
  BY <1>1, <1>3, NoneAssumption DEF Groups, DataFile
<1>7. GroupNamesUnique(n)
  BY <1>1, <1>3, <1>6
     DEF WellFormed, GroupNamesUnique, GroupNameIsUnique, DataFile, Groups
<1>8. \A e \in Entries(d) : n.entries[e] = new(e)
  BY <1>3, Zenon DEF Entries
<1>9. \A e \in Entries(d) : n.entries[e].group_ids \subseteq Groups(n)
  BY <1>1, <1>2, <1>6, <1>8, Zenon DEF WellFormed, GroupReferencesResolve
<1> QED
  BY <1>2, <1>4, <1>5, <1>7, <1>8, <1>9, GroupChangeWellFormed, Zenon

\* delete_group takes the id out of every entry, so that none dangles.
LEMMA DeleteGroupWellFormed ==
    ASSUME NEW d \in DataFile, WellFormed(d), NEW now \in Nat,
           NEW r \in Request, r.op = "delete_group", Accepts(d, r)
    PROVE  DeleteGroup(d, r, now) \in DataFile /\ WellFormed(DeleteGroup(d, r, now))
<1> DEFINE n == DeleteGroup(d, r, now)
           new(e) == UpdateGroupMembership(d.entries[e], r.id, FALSE, now)
<1>1. r.id \in GroupIds
  BY Zenon DEF Request
<1>2. ASSUME NEW e \in Entries(d)
      PROVE  /\ new(e) \in AuthEntry /\ new(e).name = d.entries[e].name
             /\ new(e).group_ids = d.entries[e].group_ids \ {r.id}
  <2>1. d.entries[e] \in AuthEntry
    BY Zenon, EntryTyped
  <2>2. LET u == UpdateGroupMembership(d.entries[e], r.id, FALSE, now)
        IN  /\ u \in AuthEntry /\ u.name = d.entries[e].name
            /\ u.group_ids = IF FALSE THEN d.entries[e].group_ids \cup {r.id}
                             ELSE d.entries[e].group_ids \ {r.id}
    BY <1>1, <2>1, Zenon DEF UpdateGroupMembership, AuthEntry
  <2> QED
    BY <2>1, <2>2, Zenon
<1>3. /\ n.groups = [d.groups EXCEPT ![r.id] = None]
      /\ n.entries = [e \in EntryIds |-> IF e \in Entries(d) THEN new(e) ELSE None]
  BY Zenon DEF DeleteGroup, MapEntries
<1>4. n \in DataFile
  <2>1. n.entries \in [EntryIds -> {None} \cup AuthEntry]
    <3> HIDE DEF n, new
    <3> QED
      BY <1>2, <1>3
  <2> QED
    BY <1>1, <1>3, <2>1, Zenon DEF DeleteGroup, DataFile
<1>5. Entries(n) = Entries(d)
  <2>1. \A e \in Entries(d) : new(e) # None
    BY <1>2, NoneAssumption, Zenon
  <2> HIDE DEF n, new
  <2> QED
    BY <1>3, <2>1, Zenon DEF Entries
<1>6. Groups(n) = Groups(d) \ {r.id}
  BY Zenon, <1>1, <1>3 DEF Groups, DataFile
<1>7. GroupNamesUnique(n)
  BY Zenon, <1>3, <1>6 DEF WellFormed, GroupNamesUnique, DataFile, Groups
<1>8. \A e \in Entries(d) : n.entries[e] = new(e)
  BY <1>3, Zenon DEF Entries
<1>9. \A e \in Entries(d) : n.entries[e].group_ids \subseteq Groups(n)
  BY <1>2, <1>6, <1>8, Zenon DEF WellFormed, GroupReferencesResolve
<1> QED
  BY <1>2, <1>4, <1>5, <1>7, <1>8, <1>9, GroupChangeWellFormed, Zenon

\* An accepted store operation of any kind (create_basic_entry ..
\* delete_group) leaves a data file with unique names and resolved groups.
THEOREM ApplyWellFormed ==
    ASSUME NEW d \in DataFile, WellFormed(d), NEW now \in Nat,
           NEW r \in Request, Accepts(d, r)
    PROVE  Apply(d, r, now) \in DataFile /\ WellFormed(Apply(d, r, now))
<1>1. r.op \in {"create_entry", "update_entry", "delete_entry",
                "create_group", "update_group", "delete_group"}
  BY Zenon DEF Request
<1>2. CASE r.op = "create_entry"
  BY Zenon, <1>2, CreateEntryWellFormed DEF Apply
<1>3. CASE r.op = "update_entry"
  BY Zenon, <1>3, UpdateEntryWellFormed DEF Apply
<1>4. CASE r.op = "delete_entry"
  BY Zenon, <1>4, DeleteEntryWellFormed DEF Apply
<1>5. CASE r.op = "create_group"
  BY Zenon, <1>5, CreateGroupWellFormed DEF Apply
<1>6. CASE r.op = "update_group"
  BY Zenon, <1>6, UpdateGroupWellFormed DEF Apply
<1>7. CASE r.op = "delete_group"
  BY Zenon, <1>7, DeleteGroupWellFormed DEF Apply
<1> QED
  BY Zenon, <1>1, <1>2, <1>3, <1>4, <1>5, <1>6, <1>7

-----------------------------------------------------------------------------
\* A content a store may parse is a well-formed data file.
Parses(d) == d = Corrupt \/ (d \in DataFile /\ WellFormed(d))

\* A task between reading the file and renaming its successor into place
\* holds the sidecar lock, and what it holds is the request applied to the
\* file as it still is.
StagedFromDisk ==
    \A c \in Callers :
        pc[c] = "commit" =>
            /\ fileLock = c
            /\ disk # Corrupt
            /\ req[c] \in Inputs
            /\ Accepts(disk, req[c])
            /\ staged[c] = Apply(disk, req[c], clock)

ContentsParse ==
    /\ Parses(disk)
    /\ \A p \in Procs : data[p] \in DataFile /\ WellFormed(data[p])
    /\ \A p \in Procs : syncPc[p] \in {"check", "compare", "store"} =>
          Parses(raw[p])
    /\ \A p \in Procs : syncPc[p] \in {"compare", "store"} => raw[p] # Corrupt
    /\ \A c \in Callers : pc[c] \in {"commit", "record", "publish"} =>
          staged[c] \in DataFile /\ WellFormed(staged[c])

\* A call that has begun carries one of the requests.
RequestsKnown == \A c \in Callers : pc[c] # "idle" => req[c] \in Inputs

IInv == TypeOK /\ ContentsParse /\ StagedFromDisk /\ RequestsKnown

USE DEF storeVars, callVars, syncVars, boundVars

\* A data file that parses is well formed, and no caller holds a copy of it.
LEMMA InitIInv == Init => IInv
<1> SUFFICES ASSUME Init PROVE IInv
  BY Zenon
<1>1. TypeOK
  BY StoreAssumption DEF Init, TypeOK, Contents, CallStates
<1>2. ContentsParse
  BY Zenon, StoreAssumption, WellFormedInputs DEF Init, ContentsParse, Parses
<1> QED
  BY Zenon, <1>1, <1>2 DEF Init, IInv, StagedFromDisk, RequestsKnown

\* No step of a caller, of the sync task or of a crash breaks it.
LEMMA NextIInv == IInv /\ [Next]_vars => IInv'
<1> SUFFICES ASSUME IInv, [Next]_vars PROVE IInv'
  BY Zenon
<1> USE DEF IInv
<1>1. ASSUME NEW c \in Callers, NEW r \in Inputs, Call(c, r)
      PROVE  IInv'
  <2>1. TypeOK'
    BY <1>1, StoreAssumption, Zenon DEF Call, TypeOK, Contents, CallStates, ContentsParse, Parses
  <2>2. ContentsParse'
    BY Zenon, <1>1 DEF Call, ContentsParse, Parses, TypeOK
  <2>3. StagedFromDisk' /\ RequestsKnown'
    BY Zenon, <1>1 DEF Call, StagedFromDisk, RequestsKnown, TypeOK
  <2> QED
    BY Zenon, <2>1, <2>2, <2>3
<1>2. ASSUME NEW c \in Callers, AcquireIoLock(c)
      PROVE  IInv'
  <2>1. TypeOK'
    BY <1>2, StoreAssumption, Zenon DEF AcquireIoLock, TypeOK, Contents, CallStates, ContentsParse, Parses
  <2>2. ContentsParse'
    BY Zenon, <1>2 DEF AcquireIoLock, ContentsParse, Parses, TypeOK
  <2>3. StagedFromDisk' /\ RequestsKnown'
    BY Zenon, <1>2 DEF AcquireIoLock, StagedFromDisk, RequestsKnown, TypeOK
  <2> QED
    BY Zenon, <2>1, <2>2, <2>3
<1>3. ASSUME NEW c \in Callers, ReadAndApply(c)
      PROVE  IInv'
  <2> DEFINE new == Apply(disk, req[c], clock + 1)
  <2>1. /\ disk \in DataFile /\ WellFormed(disk) /\ clock + 1 \in Nat
        /\ req[c] \in Inputs /\ req[c] \in Request /\ Accepts(disk, req[c])
    BY <1>3, StoreAssumption
       DEF ReadAndApply, ContentsParse, Parses, RequestsKnown, TypeOK
  <2>2. new \in DataFile /\ WellFormed(new)
    BY Zenon, <2>1, ApplyWellFormed
  <2>3. /\ fileLock' = c /\ clock' = clock + 1 /\ disk' = disk
        /\ staged' = [staged EXCEPT ![c] = new]
        /\ pc' = [pc EXCEPT ![c] = "commit"]
        /\ pc[c] = "file_lock" /\ fileLock = NoOne /\ disk # Corrupt
        /\ UNCHANGED <<up, data, ioLock, committed, req, attached, syncVars,
                       boundVars>>
    BY Zenon, <1>3 DEF ReadAndApply
  <2> HIDE DEF new
  <2>4. TypeOK'
    BY Zenon, <2>1, <2>2, <2>3 DEF TypeOK, Contents, CallStates
  <2>5. ContentsParse'
    BY <2>2, <2>3, Zenon DEF ContentsParse, Parses, TypeOK
  <2>6. \A o \in Callers : o # c => pc[o] # "commit"
    BY Zenon, <2>3, StoreAssumption DEF StagedFromDisk
  <2>7. StagedFromDisk' /\ RequestsKnown'
    BY Zenon, <2>1, <2>3, <2>6 DEF StagedFromDisk, RequestsKnown, TypeOK, new
  <2> QED
    BY Zenon, <2>4, <2>5, <2>7
<1>4. ASSUME NEW c \in Callers, MutateFails(c)
      PROVE  IInv'
  <2>1. TypeOK'
    BY <1>4, StoreAssumption, Zenon DEF MutateFails, ReleaseIoLock, TypeOK, Contents, CallStates, ContentsParse, Parses
  <2>2. ContentsParse'
    BY Zenon, <1>4 DEF MutateFails, ReleaseIoLock, ContentsParse, Parses, TypeOK
  <2>3. StagedFromDisk' /\ RequestsKnown'
    BY Zenon, <1>4 DEF MutateFails, ReleaseIoLock, StagedFromDisk, RequestsKnown, TypeOK
  <2> QED
    BY Zenon, <2>1, <2>2, <2>3
<1>5. ASSUME NEW c \in Callers, CommitFile(c)
      PROVE  IInv'
  <2>1. TypeOK'
    BY <1>5, StoreAssumption, Zenon DEF CommitFile, Notify, TypeOK, Contents, CallStates, ContentsParse, Parses
  <2>2. ContentsParse'
    BY Zenon, <1>5 DEF CommitFile, Notify, ContentsParse, Parses, TypeOK
  <2>3. StagedFromDisk' /\ RequestsKnown'
    BY Zenon, <1>5 DEF CommitFile, Notify, StagedFromDisk, RequestsKnown, TypeOK
  <2> QED
    BY Zenon, <2>1, <2>2, <2>3
<1>6. ASSUME NEW c \in Callers, RecordHash(c)
      PROVE  IInv'
  <2>1. TypeOK'
    BY <1>6, StoreAssumption, Zenon DEF RecordHash, TypeOK, Contents, CallStates, ContentsParse, Parses
  <2>2. ContentsParse'
    BY Zenon, <1>6 DEF RecordHash, ContentsParse, Parses, TypeOK
  <2>3. StagedFromDisk' /\ RequestsKnown'
    BY Zenon, <1>6 DEF RecordHash, StagedFromDisk, RequestsKnown, TypeOK
  <2> QED
    BY Zenon, <2>1, <2>2, <2>3
<1>7. ASSUME NEW c \in Callers, PublishSnapshot(c)
      PROVE  IInv'
  <2>1. TypeOK'
    BY <1>7, StoreAssumption, Zenon DEF PublishSnapshot, ReleaseIoLock, TypeOK, Contents, CallStates, ContentsParse, Parses
  <2>2. ContentsParse'
    BY <1>7, Zenon DEF PublishSnapshot, ReleaseIoLock, ContentsParse, Parses, TypeOK
  <2>3. StagedFromDisk' /\ RequestsKnown'
    BY Zenon, <1>7 DEF PublishSnapshot, ReleaseIoLock, StagedFromDisk, RequestsKnown, TypeOK
  <2> QED
    BY Zenon, <2>1, <2>2, <2>3
<1>8. ASSUME NEW c \in Callers, Drop(c)
      PROVE  IInv'
  <2>1. TypeOK'
    BY <1>8, StoreAssumption, Zenon DEF Drop, TypeOK, Contents, CallStates, ContentsParse, Parses
  <2>2. ContentsParse'
    BY <1>8, Zenon DEF Drop, ContentsParse, Parses, TypeOK
  <2>3. StagedFromDisk' /\ RequestsKnown'
    BY <1>8, Zenon DEF Drop, StagedFromDisk, RequestsKnown, TypeOK
  <2> QED
    BY Zenon, <2>1, <2>2, <2>3
<1>9. ASSUME NEW p \in Procs, StartWatch(p)
      PROVE  IInv'
  <2>1. TypeOK'
    BY <1>9, StoreAssumption, Zenon DEF StartWatch, TypeOK, Contents, CallStates, ContentsParse, Parses
  <2>2. ContentsParse'
    BY Zenon, <1>9 DEF StartWatch, ContentsParse, Parses, TypeOK
  <2>3. StagedFromDisk' /\ RequestsKnown'
    BY Zenon, <1>9 DEF StartWatch, StagedFromDisk, RequestsKnown, TypeOK
  <2> QED
    BY Zenon, <2>1, <2>2, <2>3
<1>10. ASSUME NEW p \in Procs, PollTick(p)
      PROVE  IInv'
  <2>1. TypeOK'
    BY <1>10, StoreAssumption, Zenon DEF PollTick, TypeOK, Contents, CallStates, ContentsParse, Parses
  <2>2. ContentsParse'
    BY Zenon, <1>10 DEF PollTick, ContentsParse, Parses, TypeOK
  <2>3. StagedFromDisk' /\ RequestsKnown'
    BY Zenon, <1>10 DEF PollTick, StagedFromDisk, RequestsKnown, TypeOK
  <2> QED
    BY Zenon, <2>1, <2>2, <2>3
<1>11. ASSUME NEW p \in Procs, ReceiveEvent(p)
      PROVE  IInv'
  <2>1. TypeOK'
    BY <1>11, StoreAssumption, Zenon DEF ReceiveEvent, TypeOK, Contents, CallStates, ContentsParse, Parses
  <2>2. ContentsParse'
    BY Zenon, <1>11 DEF ReceiveEvent, ContentsParse, Parses, TypeOK
  <2>3. StagedFromDisk' /\ RequestsKnown'
    BY Zenon, <1>11 DEF ReceiveEvent, StagedFromDisk, RequestsKnown, TypeOK
  <2> QED
    BY Zenon, <2>1, <2>2, <2>3
<1>12. ASSUME NEW p \in Procs, ReadRaw(p)
      PROVE  IInv'
  <2>1. TypeOK'
    BY <1>12, StoreAssumption, Zenon DEF ReadRaw, TypeOK, Contents, CallStates, ContentsParse, Parses
  <2>2. ContentsParse'
    BY Zenon, <1>12 DEF ReadRaw, ContentsParse, Parses, TypeOK
  <2>3. StagedFromDisk' /\ RequestsKnown'
    BY Zenon, <1>12 DEF ReadRaw, StagedFromDisk, RequestsKnown, TypeOK
  <2> QED
    BY Zenon, <2>1, <2>2, <2>3
<1>13. ASSUME NEW p \in Procs, SkipOwnWrite(p)
      PROVE  IInv'
  <2>1. TypeOK'
    BY <1>13, StoreAssumption, Zenon DEF SkipOwnWrite, ReloadReturns, TypeOK, Contents, CallStates, ContentsParse, Parses
  <2>2. ContentsParse'
    BY Zenon, <1>13 DEF SkipOwnWrite, ReloadReturns, ContentsParse, Parses, TypeOK
  <2>3. StagedFromDisk' /\ RequestsKnown'
    BY Zenon, <1>13 DEF SkipOwnWrite, ReloadReturns, StagedFromDisk, RequestsKnown, TypeOK
  <2> QED
    BY Zenon, <2>1, <2>2, <2>3
<1>14. ASSUME NEW p \in Procs, ParseExternal(p)
      PROVE  IInv'
  <2>1. TypeOK'
    BY Zenon, <1>14, StoreAssumption DEF ParseExternal, ReloadReturns, TypeOK, Contents, CallStates, ContentsParse, Parses
  <2>2. ContentsParse'
    BY <1>14 DEF ParseExternal, ReloadReturns, ContentsParse, Parses, TypeOK
  <2>3. StagedFromDisk' /\ RequestsKnown'
    BY Zenon, <1>14 DEF ParseExternal, ReloadReturns, StagedFromDisk, RequestsKnown, TypeOK
  <2> QED
    BY Zenon, <2>1, <2>2, <2>3
<1>15. ASSUME NEW p \in Procs, CompareSnapshot(p)
      PROVE  IInv'
  <2>1. TypeOK'
    BY Zenon, <1>15, StoreAssumption DEF CompareSnapshot, ReloadReturns, TypeOK, Contents, CallStates, ContentsParse, Parses
  <2>2. ContentsParse'
    BY <1>15 DEF CompareSnapshot, ReloadReturns, ContentsParse, Parses, TypeOK
  <2>3. StagedFromDisk' /\ RequestsKnown'
    BY Zenon, <1>15 DEF CompareSnapshot, ReloadReturns, StagedFromDisk, RequestsKnown, TypeOK
  <2> QED
    BY Zenon, <2>1, <2>2, <2>3
<1>16. ASSUME NEW p \in Procs, StoreReloaded(p)
      PROVE  IInv'
  <2>1. TypeOK'
    BY <1>16, StoreAssumption, Zenon DEF StoreReloaded, ReloadReturns, TypeOK, Contents, CallStates, ContentsParse, Parses
  <2>2. ContentsParse'
    BY Zenon, <1>16 DEF StoreReloaded, ReloadReturns, ContentsParse, Parses, TypeOK
  <2>3. StagedFromDisk' /\ RequestsKnown'
    BY Zenon, <1>16 DEF StoreReloaded, ReloadReturns, StagedFromDisk, RequestsKnown, TypeOK
  <2> QED
    BY Zenon, <2>1, <2>2, <2>3
<1>17. ASSUME NEW p \in Procs, Crash(p)
      PROVE  IInv'
  <2>1. TypeOK'
    <3>1. crashes \in 0..MaxCrashes /\ crashes < MaxCrashes /\ crashes' = crashes + 1 /\ MaxCrashes \in Nat
      BY <1>17, StoreAssumption, Zenon DEF Crash, TypeOK
    <3>2. crashes' \in 0..MaxCrashes
      BY <3>1
    <3> QED
      BY <1>17, <3>2, StoreAssumption, Zenon
         DEF Crash, ReloadReturns, TypeOK, Contents, CallStates, ContentsParse, Parses
  <2>2. ContentsParse'
    BY <1>17, Zenon DEF Crash, ReloadReturns, ContentsParse, Parses, TypeOK
  <2>3. StagedFromDisk' /\ RequestsKnown'
    BY <1>17, Zenon DEF Crash, ReloadReturns, StagedFromDisk, RequestsKnown, TypeOK
  <2> QED
    BY Zenon, <2>1, <2>2, <2>3
<1>18. ASSUME NEW p \in Procs, Load(p)
      PROVE  IInv'
  <2>1. TypeOK'
    BY <1>18, StoreAssumption, Zenon DEF Load, TypeOK, Contents, CallStates, ContentsParse, Parses
  <2>2. ContentsParse'
    BY Zenon, <1>18 DEF Load, ContentsParse, Parses, TypeOK
  <2>3. StagedFromDisk' /\ RequestsKnown'
    BY Zenon, <1>18 DEF Load, StagedFromDisk, RequestsKnown, TypeOK
  <2> QED
    BY Zenon, <2>1, <2>2, <2>3
<1>19. ASSUME NEW d \in Edits, ExternalEdit(d)
      PROVE  IInv'
  <2>1. TypeOK'
    <3>1. edits \in 0..MaxEdits /\ edits < MaxEdits /\ edits' = edits + 1 /\ MaxEdits \in Nat
      BY <1>19, StoreAssumption, Zenon DEF ExternalEdit, TypeOK
    <3>2. edits' \in 0..MaxEdits
      BY <3>1
    <3> QED
      BY <1>19, <3>2, StoreAssumption, Zenon
         DEF ExternalEdit, Notify, TypeOK, Contents, CallStates, ContentsParse, Parses
  <2>2. ContentsParse'
    BY <1>19, StoreAssumption, WellFormedInputs, Zenon
       DEF ExternalEdit, Notify, ContentsParse, Parses, TypeOK
  <2>3. \A o \in Callers : pc[o] # "commit"
    BY <1>19, StoreAssumption, Zenon DEF ExternalEdit, StagedFromDisk
  <2>4. StagedFromDisk' /\ RequestsKnown'
    BY Zenon, <1>19, <2>3 DEF ExternalEdit, StagedFromDisk, RequestsKnown
  <2> QED
    BY Zenon, <2>1, <2>2, <2>4
<1>20. CASE UNCHANGED vars
  BY <1>20, Zenon DEF vars, TypeOK, ContentsParse, StagedFromDisk, RequestsKnown
<1> QED
  BY <1>1, <1>2, <1>3, <1>4, <1>5, <1>6, <1>7, <1>8, <1>9, <1>10, <1>11,
     <1>12, <1>13, <1>14, <1>15, <1>16, <1>17, <1>18, <1>19, <1>20, Zenon
     DEF Next, CallStep, SyncStep

\* No interleaving of calls, reloads, dropped calls, crashes and edits makes
\* the file on disk or a snapshot in memory ill formed.
THEOREM FileStaysWellFormed == Spec => []FileWellFormed
<1>1. IInv => FileWellFormed
  BY Zenon DEF IInv, ContentsParse, Parses, FileWellFormed
<1> QED
  BY <1>1, InitIInv, NextIInv, PTL DEF Spec

\* The instance of the serial file speaks of the same operators.
LEMMA SameAccepts ==
    ASSUME NEW d, NEW r PROVE SerialFile!Accepts(d, r) <=> Accepts(d, r)
  BY Zenon DEF SerialFile!Accepts, Accepts, SerialFile!EntryNameIsUnique,
         EntryNameIsUnique, SerialFile!GroupNameIsUnique, GroupNameIsUnique,
         SerialFile!GroupsExist, GroupsExist, SerialFile!EntriesExist,
         EntriesExist, SerialFile!Entries, Entries, SerialFile!Groups, Groups

\* It applies a request to the same effect.
LEMMA SameApply ==
    ASSUME NEW d, NEW r, NEW now
    PROVE  SerialFile!Apply(d, r, now) = Apply(d, r, now)
  BY Zenon DEF SerialFile!Apply, Apply, SerialFile!CreateEntry, CreateEntry,
         SerialFile!UpdateEntry, UpdateEntry, SerialFile!DeleteEntry,
         DeleteEntry, SerialFile!CreateGroup, CreateGroup,
         SerialFile!UpdateGroup, UpdateGroup, SerialFile!DeleteGroup,
         DeleteGroup, SerialFile!MapEntries, MapEntries, SerialFile!Entries,
         Entries, SerialFile!Given, Given, SerialFile!UpdateGroupMembership,
         UpdateGroupMembership

\* A step of the store is a step of the serial file or leaves it alone.
LEMMA NextRefines ==
    ASSUME IInv, [Next]_vars
    PROVE  [SerialFile!Next]_<<disk, clock>>
<1>1. ASSUME NEW c \in Callers, ReadAndApply(c)
      PROVE  SerialFile!Tick
  BY Zenon, <1>1 DEF ReadAndApply, SerialFile!Tick
<1>2. ASSUME NEW c \in Callers, CommitFile(c)
      PROVE  \E r \in Inputs : SerialFile!Write(r)
  <2>1. /\ req[c] \in Inputs /\ disk # Corrupt /\ Accepts(disk, req[c])
        /\ disk' = Apply(disk, req[c], clock) /\ UNCHANGED clock
    BY Zenon, <1>2 DEF CommitFile, IInv, StagedFromDisk
  <2>2. SerialFile!Write(req[c])
    BY Zenon, <2>1, SameAccepts, SameApply DEF SerialFile!Write
  <2> QED
    BY Zenon, <2>1, <2>2
<1>3. ASSUME NEW d \in Edits, ExternalEdit(d)
      PROVE  SerialFile!Edit(d)
  BY Zenon, <1>3 DEF ExternalEdit, SerialFile!Edit
<1>4. ASSUME NEW c \in Callers,
             \/ \E r \in Inputs : Call(c, r)
             \/ AcquireIoLock(c) \/ MutateFails(c) \/ RecordHash(c)
             \/ PublishSnapshot(c) \/ Drop(c)
      PROVE  UNCHANGED <<disk, clock>>
  BY <1>4, ZenonT(60) DEF Call, AcquireIoLock, MutateFails, RecordHash, PublishSnapshot, Drop
<1>5. ASSUME NEW p \in Procs, SyncStep(p) \/ Crash(p) \/ Load(p)
      PROVE  UNCHANGED <<disk, clock>>
  <2>1. StartWatch(p) \/ PollTick(p) \/ ReceiveEvent(p) \/ ReadRaw(p) => UNCHANGED <<disk, clock>>
    BY Zenon DEF StartWatch, PollTick, ReceiveEvent, ReadRaw
  <2>2. SkipOwnWrite(p) \/ ParseExternal(p) => UNCHANGED <<disk, clock>>
    BY Zenon DEF SkipOwnWrite, ParseExternal
  <2>3. CompareSnapshot(p) \/ StoreReloaded(p) => UNCHANGED <<disk, clock>>
    BY Zenon DEF CompareSnapshot, StoreReloaded
  <2>4. Crash(p) \/ Load(p) => UNCHANGED <<disk, clock>>
    BY Zenon DEF Crash, Load
  <2> QED BY <1>5, <2>1, <2>2, <2>3, <2>4, Zenon DEF SyncStep
<1>6. CASE UNCHANGED vars
  BY Zenon, <1>6 DEF vars
<1> QED
  BY Zenon, <1>1, <1>2, <1>3, <1>4, <1>5, <1>6 DEF Next, CallStep, SerialFile!Next

\* The data file is a serial object: no call, reload, crash or dropped call
\* makes a store overwrite an update that it has not read.
THEOREM FileIsSerial == Spec => NoLostUpdate
<1>1. Init => SerialFile!Init
  BY Zenon DEF Init, SerialFile!Init
<1>2. IInv /\ [Next]_vars => [SerialFile!Next]_<<disk, clock>>
  BY Zenon, NextRefines
<1> QED
  BY <1>1, <1>2, InitIInv, NextIInv, PTL
     DEF Spec, NoLostUpdate, SerialFile!Spec
=============================================================================
