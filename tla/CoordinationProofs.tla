------------------------ MODULE CoordinationProofs ------------------------
(***************************************************************************)
(* Proofs about the coordination of token-set clients: the registry and    *)
(* the callback resume controller on top of it, and the logins of the      *)
(* frontend mode.                                                          *)
(***************************************************************************)
EXTENDS CallbackResume, FrontendLogin, TLAPS

-----------------------------------------------------------------------------
(* The registry                                                            *)

(* The registration of a key has made its client only if the key is ready  *)
(* or pending; a service was made by a registration of its key; one that   *)
(* was discarded is not handed out.                                        *)
KeyGood(k, rg, ro, sv, pd, fc, cl, dc) ==
    /\ ro # 0 => /\ ro \in DOMAIN rg /\ rg[ro].key = k
                 /\ sv = 0 /\ pd = 0 => cl[ro] = 0
    /\ sv # 0 => sv \in DOMAIN rg /\ rg[sv].key = k /\ fc[sv] = "done" /\ sv \notin dc

Books(rg, ro, sv, pd, fc, cl, dc) ==
    /\ \A k \in Keys : KeyGood(k, rg, ro[k], sv[k], pd[k], fc, cl, dc)
    /\ \A r \in Regs : /\ cl[r] \in {0, 1}
                       /\ cl[r] = 0 => fc[r] = "none" /\ r \notin dc
                       /\ r \notin DOMAIN rg => cl[r] = 0
                       /\ r \in dc => fc[r] = "done"

RegTypes ==
    /\ regs \in Seq(Entries) /\ Len(regs) <= MaxRegs
    /\ entries \in Seq(Keys) /\ index \in [Labels -> Seq(Keys)]
    /\ regOf \in [Keys -> 0 .. MaxRegs] /\ services \in [Keys -> 0 .. MaxRegs]
    /\ pending \in [Keys -> 0 .. MaxRegs]
    /\ factory \in [Regs -> {"none", "running", "done", "failed"}]
    /\ clients \in [Regs -> Nat] /\ discarded \subseteq Regs

RegistryIInv ==
    /\ RegTypes
    /\ Books(regs, regOf, services, pending, factory, clients, discarded)
    /\ subs = services
    /\ IndexMatchesEntries

ListsBy(q, K, ro) ==
    /\ {q[i] : i \in DOMAIN q} = K
    /\ \A i, j \in DOMAIN q : i < j => ro[q[i]] < ro[q[j]]

(* indexMeta files the key registered last at the end of a list.           *)
LEMMA FiledLast ==
    ASSUME NEW q \in Seq(Keys), NEW K, NEW ro, ListsBy(q, K, ro), NEW k \in Keys, NEW rn,
           \A j \in K : rn[j] = ro[j] /\ rn[j] < rn[k]
    PROVE Append(q, k) \in Seq(Keys) /\ ListsBy(Append(q, k), K \cup {k}, rn)
<1> DEFINE new == Append(q, k)
<1>1. /\ new \in Seq(Keys) /\ DOMAIN new = DOMAIN q \cup {Len(q) + 1} /\ new[Len(q) + 1] = k
      /\ \A i \in DOMAIN q : new[i] = q[i] /\ i < Len(q) + 1 /\ i \in Nat
  OBVIOUS
<1> HIDE DEF new
<1>2. \A i \in DOMAIN q : q[i] \in K
  BY Zenon DEF ListsBy
<1>3. {new[i] : i \in DOMAIN new} = K \cup {k}
  BY <1>1, <1>2 DEF ListsBy
<1>4. ASSUME NEW i \in DOMAIN new, NEW j \in DOMAIN new, i < j PROVE rn[new[i]] < rn[new[j]]
  <2>1. i \in DOMAIN q
    BY <1>1, <1>4
  <2>2. CASE j \in DOMAIN q
    BY <1>1, <1>2, <1>4, <2>1, <2>2 DEF ListsBy
  <2>3. CASE j = Len(q) + 1
    BY Zenon, <1>1, <1>2, <2>1, <2>3
  <2> QED BY Zenon, <1>1, <2>2, <2>3
<1> QED BY Zenon, <1>1, <1>3, <1>4 DEF ListsBy, new

(* reset takes a key out of a list and keeps the order of the others.      *)
LEMMA TakenOut ==
    ASSUME NEW q \in Seq(Keys), NEW K, NEW ro \in [Keys -> Nat], ListsBy(q, K, ro), NEW k,
           NEW rn, \A j \in Keys : j # k => rn[j] = ro[j]
    PROVE Without(q, k) \in Seq(Keys) /\ ListsBy(Without(q, k), K \ {k}, rn)
<1>1. \A i \in DOMAIN q : q[i] \in Keys /\ q[i] \in K
  BY DEF ListsBy
<1>2. CASE ~\E p \in DOMAIN q : q[p] = k
  <2>1. Without(q, k) = q
    BY Zenon, <1>2 DEF Without
  <2>2. k \notin K
    BY Zenon, <1>2 DEF ListsBy
  <2> QED BY Zenon, <1>1, <1>2, <2>1, <2>2 DEF ListsBy
<1>3. CASE \E p \in DOMAIN q : q[p] = k
  <2> DEFINE p == CHOOSE i \in DOMAIN q : q[i] = k
             new == [i \in 1 .. Len(q) - 1 |-> IF i < p THEN q[i] ELSE q[i + 1]]
             From(i) == IF i < p THEN i ELSE i + 1
  <2>1. p \in DOMAIN q /\ q[p] = k /\ Without(q, k) = new
    BY Zenon, <1>3 DEF Without
  <2> HIDE DEF p
  <2>2. Len(q) \in Nat /\ DOMAIN q = 1 .. Len(q) /\ p \in 1 .. Len(q) /\ Len(q) - 1 \in Nat
    BY <2>1
  <2>3. \A i \in DOMAIN q : i # p => q[i] # k
    <3>1. ASSUME NEW i \in DOMAIN q, i # p, q[i] = k PROVE FALSE
      <4>1. i < p \/ p < i
        BY <2>2, <3>1
      <4>2. ro[k] < ro[k] /\ ro[k] \in Nat
        BY Zenon, <1>1, <2>1, <3>1, <4>1 DEF ListsBy
      <4> QED BY <4>2
    <3> QED BY Zenon, <3>1
  <2>4. ASSUME NEW i \in 1 .. Len(q) - 1
        PROVE From(i) \in DOMAIN q /\ From(i) # p /\ new[i] = q[From(i)]
    BY <2>2
  <2>5. DOMAIN new = 1 .. Len(q) - 1 /\ new \in [1 .. Len(q) - 1 -> Keys]
    BY Zenon, <1>1, <2>4
  <2>6. new \in Seq(Keys)
    BY <2>2, <2>5
  <2>7. ASSUME NEW i \in 1 .. Len(q) - 1, NEW j \in 1 .. Len(q) - 1, i < j PROVE From(i) < From(j)
    BY <2>2, <2>7
  <2>8. ASSUME NEW i \in DOMAIN q, i # p PROVE \E j \in 1 .. Len(q) - 1 : From(j) = i
    <3>1. CASE i < p
      <4>1. i \in 1 .. Len(q) - 1 /\ From(i) = i
        BY <2>2, <3>1
      <4> QED BY Zenon, <4>1
    <3>2. CASE i > p
      <4>1. i - 1 \in 1 .. Len(q) - 1 /\ From(i - 1) = i
        BY <2>2, <3>2
      <4> QED BY Zenon, <4>1
    <3> QED BY <2>2, <2>8, <3>1, <3>2
  <2> HIDE DEF new, From
  <2>9. \A i \in DOMAIN new : new[i] \in K /\ new[i] # k
    BY <1>1, <2>3, <2>4, <2>5, Zenon
  <2>10. ASSUME NEW x \in K, x # k PROVE \E j \in DOMAIN new : new[j] = x
    <3>1. PICK i \in DOMAIN q : q[i] = x
      BY Zenon DEF ListsBy
    <3>2. i # p
      BY Zenon, <2>1, <2>10, <3>1
    <3> QED BY <2>4, <2>5, <2>8, <3>1, <3>2, ZenonT(60)
  <2>11. {new[i] : i \in DOMAIN new} = K \ {k}
    BY Zenon, <2>9, <2>10
  <2>12. ASSUME NEW i \in DOMAIN new, NEW j \in DOMAIN new, i < j PROVE rn[new[i]] < rn[new[j]]
    <3>1. /\ From(i) \in DOMAIN q /\ From(j) \in DOMAIN q /\ From(i) < From(j)
          /\ new[i] = q[From(i)] /\ new[j] = q[From(j)]
      BY <2>4, <2>5, <2>7, <2>12, Zenon
    <3>2. ro[new[i]] < ro[new[j]]
      BY Zenon, <3>1 DEF ListsBy
    <3>3. rn[new[i]] = ro[new[i]] /\ rn[new[j]] = ro[new[j]]
      BY Zenon, <1>1, <2>9, <3>1
    <3> QED BY Zenon, <3>2, <3>3
  <2> QED BY Zenon, <2>1, <2>6, <2>11, <2>12 DEF ListsBy
<1> QED BY Zenon, <1>2, <1>3

(* materializeEntry of the registration that a key has.                    *)
LEMMA MaterializeGood ==
    ASSUME NEW rg, NEW ro, Books(rg, ro, services, pending, factory, clients, discarded),
           RegTypes, subs = services, DOMAIN rg \subseteq Regs,
           NEW k \in Keys, NEW e, ro[k] # 0, MaterializeEntry(k, ro[k], e)
    PROVE /\ Books(rg, ro, services', pending', factory', clients', discarded)
          /\ services' \in [Keys -> 0 .. MaxRegs] /\ pending' \in [Keys -> 0 .. MaxRegs]
          /\ factory' \in [Regs -> {"none", "running", "done", "failed"}]
          /\ clients' \in [Regs -> Nat] /\ subs' = services'
<1> DEFINE r == ro[k]
<1>1. CASE UNCHANGED <<services, pending, factory, clients, subs>>
  BY Zenon, <1>1 DEF RegTypes
<1>2. CASE ~UNCHANGED <<services, pending, factory, clients, subs>>
  <2>1. services[k] = 0 /\ pending[k] = 0
    BY Zenon, <1>2 DEF MaterializeEntry
  <2>2. r \in DOMAIN rg /\ rg[r].key = k /\ r \in Regs /\ r # 0 /\ clients[r] = 0 /\ r \notin discarded
        /\ r \in 0 .. MaxRegs
    BY <2>1 DEF Books, KeyGood, Regs
  <2> HIDE DEF r
  <2>3. CASE /\ factory' = [factory EXCEPT ![r] = "running"]
             /\ clients' = [clients EXCEPT ![r] = @ + 1]
             /\ pending' = [pending EXCEPT ![k] = r]
             /\ UNCHANGED <<services, subs>>
    <3>1. /\ clients' \in [Regs -> Nat] /\ pending' \in [Keys -> 0 .. MaxRegs]
          /\ factory' \in [Regs -> {"none", "running", "done", "failed"}]
          /\ \A x \in Regs : /\ clients'[x] = IF x = r THEN 1 ELSE clients[x]
                             /\ factory'[x] = IF x = r THEN "running" ELSE factory[x]
          /\ \A j \in Keys : pending'[j] = IF j = k THEN r ELSE pending[j]
      BY <2>2, <2>3 DEF RegTypes
    <3>2. factory[r] = "none"
      BY Zenon, <2>2 DEF Books
    <3>3. ASSUME NEW j \in Keys
          PROVE KeyGood(j, rg, ro[j], services[j], pending'[j], factory', clients', discarded)
      <4>1. KeyGood(j, rg, ro[j], services[j], pending[j], factory, clients, discarded)
        BY Zenon DEF Books
      <4>2. CASE j = k
        BY <2>1, <2>2, <3>1, <4>1, <4>2, Zenon DEF KeyGood
      <4>3. CASE j # k
        <5>1. ro[j] # 0 => ro[j] # r
          BY Zenon, <2>2, <4>1, <4>3 DEF KeyGood
        <5>2. services[j] # 0 => services[j] # r
          BY Zenon, <3>2, <4>1 DEF KeyGood
        <5> QED BY <3>1, <4>1, <4>3, <5>1, <5>2, Zenon DEF KeyGood
      <4> QED BY Zenon, <4>2, <4>3
    <3>4. ASSUME NEW x \in Regs
          PROVE /\ clients'[x] \in {0, 1} /\ (clients'[x] = 0 => factory'[x] = "none" /\ x \notin discarded)
                /\ x \notin DOMAIN rg => clients'[x] = 0
                /\ x \in discarded => factory'[x] = "done"
      BY <2>2, <3>1 DEF Books
    <3>5. Books(rg, ro, services, pending', factory', clients', discarded)
      BY Zenon, <3>3, <3>4 DEF Books
    <3> QED BY <2>3, <3>1, <3>5, Zenon DEF RegTypes
  <2>4. CASE /\ factory' = [factory EXCEPT ![r] = "done"]
             /\ clients' = [clients EXCEPT ![r] = @ + 1]
             /\ services' = [services EXCEPT ![k] = r]
             /\ subs' = [subs EXCEPT ![k] = r]
             /\ UNCHANGED pending
    <3>1. /\ clients' \in [Regs -> Nat] /\ services' \in [Keys -> 0 .. MaxRegs] /\ subs' = services'
          /\ factory' \in [Regs -> {"none", "running", "done", "failed"}]
          /\ \A x \in Regs : /\ clients'[x] = IF x = r THEN 1 ELSE clients[x]
                             /\ factory'[x] = IF x = r THEN "done" ELSE factory[x]
          /\ \A j \in Keys : services'[j] = IF j = k THEN r ELSE services[j]
      BY <2>2, <2>4 DEF RegTypes
    <3>3. ASSUME NEW j \in Keys
          PROVE KeyGood(j, rg, ro[j], services'[j], pending[j], factory', clients', discarded)
      <4>1. KeyGood(j, rg, ro[j], services[j], pending[j], factory, clients, discarded)
        BY Zenon DEF Books
      <4>2. CASE j = k
        BY Zenon, <2>1, <2>2, <3>1, <4>1, <4>2 DEF KeyGood
      <4>3. CASE j # k
        <5>1. ro[j] # 0 => ro[j] # r
          BY Zenon, <2>2, <4>1, <4>3 DEF KeyGood
        <5> QED BY Zenon, <3>1, <4>1, <4>3, <5>1 DEF KeyGood
      <4> QED BY Zenon, <4>2, <4>3
    <3>4. ASSUME NEW x \in Regs
          PROVE /\ clients'[x] \in {0, 1} /\ (clients'[x] = 0 => factory'[x] = "none" /\ x \notin discarded)
                /\ x \notin DOMAIN rg => clients'[x] = 0
                /\ x \in discarded => factory'[x] = "done"
      BY <2>2, <3>1 DEF Books
    <3>5. Books(rg, ro, services', pending, factory', clients', discarded)
      BY Zenon, <3>3, <3>4 DEF Books
    <3> QED BY <2>4, <3>1, <3>5, Zenon DEF RegTypes
  <2> QED BY <1>2, <2>1, <2>3, <2>4, Zenon DEF MaterializeEntry, r
<1> QED BY Zenon, <1>1, <1>2

(* What the properties' lists say, with the registrations as a parameter.  *)
FiledAll(q, ix, rg, ro) ==
    /\ ListsBy(q, {k \in Keys : ro[k] # 0}, ro)
    /\ \A l \in Labels : ListsBy(ix[l], {k \in Keys : ro[k] # 0 /\ l \in rg[ro[k]].labels}, ro)

(* The registry's invariant in parts.                                      *)
LEMMA RegistryParts ==
    ASSUME RegistryIInv
    PROVE /\ RegTypes /\ Books(regs, regOf, services, pending, factory, clients, discarded)
          /\ subs = services /\ FiledAll(entries, index, regs, regOf)
          /\ DOMAIN regs \subseteq Regs /\ DOMAIN regs = 1 .. Len(regs) /\ Len(regs) \in Nat
          /\ regOf \in [Keys -> Nat] /\ MaxRegs \in Nat
<1>1. RegTypes /\ Len(regs) \in Nat /\ DOMAIN regs = 1 .. Len(regs) /\ Len(regs) <= MaxRegs
      /\ regOf \in [Keys -> 0 .. MaxRegs]
  BY DEF RegistryIInv, RegTypes
<1>2. MaxRegs \in Nat /\ DOMAIN regs \subseteq Regs /\ regOf \in [Keys -> Nat]
  BY <1>1, RegistryAssumption DEF Regs
<1>3. FiledAll(entries, index, regs, regOf)
  BY Zenon DEF RegistryIInv, IndexMatchesEntries, Lists, ListsBy, FiledAll
<1> QED BY Zenon, <1>1, <1>2, <1>3 DEF RegistryIInv

(* The parts after a step make the invariant of the registry again.        *)
LEMMA RegistryWhole ==
    ASSUME RegTypes', Books(regs', regOf', services', pending', factory', clients', discarded'),
           subs' = services', FiledAll(entries', index', regs', regOf')
    PROVE RegistryIInv'
BY Zenon DEF RegistryIInv, IndexMatchesEntries, Lists, ListsBy, FiledAll

(* register.                                                               *)
LEMMA RegisterGood ==
    ASSUME RegistryIInv, NEW e \in Entries, Register(e)
    PROVE RegistryIInv'
<1> DEFINE r == Len(regs) + 1
           k == e.key
<1>1. /\ RegTypes /\ Books(regs, regOf, services, pending, factory, clients, discarded)
      /\ subs = services /\ FiledAll(entries, index, regs, regOf)
      /\ DOMAIN regs \subseteq Regs /\ DOMAIN regs = 1 .. Len(regs) /\ Len(regs) \in Nat
      /\ regOf \in [Keys -> Nat] /\ MaxRegs \in Nat
  BY Zenon, RegistryParts
<1>2. /\ Len(regs) < MaxRegs /\ regOf[k] = 0 /\ regs' = Append(regs, e) /\ entries' = Append(entries, k)
      /\ regOf' = [regOf EXCEPT ![k] = r] /\ index' = Filed(k, e.labels) /\ UNCHANGED discarded
      /\ IF e.lazy THEN UNCHANGED <<services, pending, factory, clients, subs>>
         ELSE MaterializeEntry(k, r, e)
  BY Zenon DEF Register
<1>3. k \in Keys /\ e.labels \subseteq Labels /\ regs \in Seq(Entries)
  BY Zenon, <1>1, RegistryAssumption DEF RegTypes
<1> HIDE DEF k
<1>4. /\ regs' \in Seq(Entries) /\ Len(regs') = r /\ DOMAIN regs' = 1 .. r /\ regs'[r] = e
      /\ \A i \in DOMAIN regs : i \in DOMAIN regs' /\ regs'[i] = regs[i] /\ i < r
      /\ r \in Regs /\ r \notin DOMAIN regs /\ r # 0 /\ DOMAIN regs' \subseteq Regs
  BY <1>1, <1>2, <1>3 DEF Regs
<1>5. /\ regOf' \in [Keys -> 0 .. MaxRegs] /\ regOf'[k] = r /\ \A j \in Keys : j # k => regOf'[j] = regOf[j]
  BY <1>1, <1>2, <1>3, <1>4 DEF RegTypes, Regs
<1>6. Books(regs', regOf', services, pending, factory, clients, discarded)
  <2>1. clients[r] = 0
    BY Zenon, <1>1, <1>4 DEF Books
  <2>2. ASSUME NEW j \in Keys
        PROVE KeyGood(j, regs', regOf'[j], services[j], pending[j], factory, clients, discarded)
    <3>1. KeyGood(j, regs, regOf[j], services[j], pending[j], factory, clients, discarded)
      BY Zenon, <1>1 DEF Books
    <3>2. CASE j = k
      BY <1>4, <1>5, <2>1, <3>1, <3>2 DEF KeyGood, k
    <3>3. CASE j # k
      BY Zenon, <1>4, <1>5, <3>1, <3>3 DEF KeyGood
    <3> QED BY Zenon, <3>2, <3>3
  <2> QED BY Zenon, <1>1, <1>4, <2>2 DEF Books
<1>7. /\ Books(regs', regOf', services', pending', factory', clients', discarded)
      /\ services' \in [Keys -> 0 .. MaxRegs] /\ pending' \in [Keys -> 0 .. MaxRegs]
      /\ factory' \in [Regs -> {"none", "running", "done", "failed"}]
      /\ clients' \in [Regs -> Nat] /\ subs' = services'
  <2>1. CASE UNCHANGED <<services, pending, factory, clients, subs>>
    BY Zenon, <1>1, <1>6, <2>1 DEF RegTypes
  <2>2. CASE MaterializeEntry(k, r, e)
    <3>1. regOf'[k] # 0 /\ MaterializeEntry(k, regOf'[k], e) /\ DOMAIN regs' \subseteq Regs
      BY Zenon, <1>4, <1>5, <2>2
    <3> QED BY <1>1, <1>3, <1>6, <3>1, MaterializeGood, Zenon
  <2> QED BY Zenon, <1>2, <2>1, <2>2
<1>8. ASSUME NEW j \in Keys, regOf[j] # 0 PROVE j # k /\ regOf[j] \in DOMAIN regs /\ regOf'[j] < regOf'[k]
  BY <1>1, <1>2, <1>4, <1>5, <1>8 DEF Books, KeyGood
<1>9. entries' \in Seq(Keys) /\ ListsBy(entries', {j \in Keys : regOf'[j] # 0}, regOf')
  <2> DEFINE K == {j \in Keys : regOf[j] # 0}
  <2>1. \A j \in K : regOf'[j] = regOf[j] /\ regOf'[j] < regOf'[k]
    BY Zenon, <1>5, <1>8
  <2>2. {j \in Keys : regOf'[j] # 0} = K \cup {k}
    BY Zenon, <1>2, <1>3, <1>4, <1>5
  <2> HIDE DEF K
  <2>3. entries \in Seq(Keys) /\ ListsBy(entries, K, regOf)
    BY <1>1, Zenon DEF FiledAll, K, RegTypes
  <2>4. Append(entries, k) \in Seq(Keys) /\ ListsBy(Append(entries, k), K \cup {k}, regOf')
    BY Zenon, <1>3, <2>1, <2>3, FiledLast
  <2> QED BY <1>2, <2>2, <2>4, Zenon
<1>10. ASSUME NEW l \in Labels
       PROVE index'[l] \in Seq(Keys) /\ ListsBy(index'[l], {j \in Keys : regOf'[j] # 0 /\ l \in regs'[regOf'[j]].labels}, regOf')
  <2> DEFINE K == {j \in Keys : regOf[j] # 0 /\ l \in regs[regOf[j]].labels}
             M == {j \in Keys : regOf'[j] # 0 /\ l \in regs'[regOf'[j]].labels}
  <2>1. \A j \in K : regOf'[j] = regOf[j] /\ regOf'[j] < regOf'[k] /\ j \in Keys
    BY Zenon, <1>5, <1>8
  <2>2. M = IF l \in e.labels THEN K \cup {k} ELSE K
    BY Zenon, <1>2, <1>3, <1>4, <1>5, <1>8
  <2> HIDE DEF K, M
  <2>3. index[l] \in Seq(Keys) /\ ListsBy(index[l], K, regOf)
    BY <1>1, Zenon DEF FiledAll, K, RegTypes
  <2>4. CASE l \in e.labels
    <3>1. index'[l] = Append(index[l], k)
      BY Zenon, <1>2, <2>4 DEF Filed
    <3>2. Append(index[l], k) \in Seq(Keys) /\ ListsBy(Append(index[l], k), K \cup {k}, regOf')
      BY Zenon, <1>3, <2>1, <2>3, FiledLast
    <3> QED BY <2>2, <2>4, <3>1, <3>2, Zenon DEF M
  <2>5. CASE l \notin e.labels
    <3>1. index'[l] = index[l]
      BY Zenon, <1>2, <2>5 DEF Filed
    <3>2. \A i \in DOMAIN index[l] : index[l][i] \in K
      BY Zenon, <2>3 DEF ListsBy
    <3>3. ListsBy(index[l], K, regOf')
      BY <2>1, <2>3, <3>2, Zenon DEF ListsBy
    <3> QED BY <2>2, <2>3, <2>5, <3>1, <3>3, Zenon DEF M
  <2> QED BY Zenon, <2>4, <2>5
<1>11. index' \in [Labels -> Seq(Keys)]
  <2>1. index' = [l \in Labels |-> index'[l]]
    BY Zenon, <1>2 DEF Filed
  <2> QED BY <1>10, <2>1, Zenon
<1>12. RegTypes'
  <2>1. Len(regs') <= MaxRegs /\ discarded' \subseteq Regs
    BY <1>1, <1>2, <1>4 DEF RegTypes, Regs
  <2> QED BY <1>4, <1>5, <1>7, <1>9, <1>11, <2>1, Zenon DEF RegTypes
<1> QED BY <1>2, <1>7, <1>9, <1>10, <1>12, RegistryWhole, Zenon DEF FiledAll

(* reset.                                                                  *)
LEMMA ResetGood ==
    ASSUME RegistryIInv, NEW k \in Keys, Reset(k)
    PROVE RegistryIInv'
<1>1. /\ RegTypes /\ Books(regs, regOf, services, pending, factory, clients, discarded)
      /\ subs = services /\ FiledAll(entries, index, regs, regOf)
      /\ DOMAIN regs \subseteq Regs /\ regOf \in [Keys -> Nat] /\ MaxRegs \in Nat
  BY Zenon, RegistryParts
<1>2. /\ discarded' = discarded \cup ({services[k]} \ {0})
      /\ services' = [services EXCEPT ![k] = 0] /\ subs' = [subs EXCEPT ![k] = 0]
      /\ entries' = Without(entries, k) /\ regOf' = [regOf EXCEPT ![k] = 0]
      /\ pending' = [pending EXCEPT ![k] = 0] /\ index' = [l \in Labels |-> Without(index[l], k)]
      /\ UNCHANGED <<regs, factory, clients>>
  BY Zenon DEF Reset
<1>3. /\ services' \in [Keys -> 0 .. MaxRegs] /\ pending' \in [Keys -> 0 .. MaxRegs]
      /\ regOf' \in [Keys -> 0 .. MaxRegs]
      /\ \A j \in Keys : /\ services'[j] = IF j = k THEN 0 ELSE services[j]
                         /\ pending'[j] = IF j = k THEN 0 ELSE pending[j]
                         /\ regOf'[j] = IF j = k THEN 0 ELSE regOf[j]
  BY <1>1, <1>2 DEF RegTypes
<1>4. services[k] # 0 => services[k] \in Regs /\ factory[services[k]] = "done" /\ regs[services[k]].key = k
  BY Zenon, <1>1 DEF Books, KeyGood
<1>5. ASSUME NEW j \in Keys
      PROVE KeyGood(j, regs, regOf'[j], services'[j], pending'[j], factory, clients, discarded')
  <2>1. KeyGood(j, regs, regOf[j], services[j], pending[j], factory, clients, discarded)
    BY Zenon, <1>1 DEF Books
  <2> QED BY Zenon, <1>2, <1>3, <1>4, <2>1 DEF KeyGood
<1>6. Books(regs, regOf', services', pending', factory, clients, discarded')
  BY <1>1, <1>2, <1>4, <1>5, Zenon DEF Books
<1>7. \A j \in Keys : j # k => regOf'[j] = regOf[j]
  BY Zenon, <1>3
<1>8. entries' \in Seq(Keys) /\ ListsBy(entries', {j \in Keys : regOf'[j] # 0}, regOf')
  <2> DEFINE K == {j \in Keys : regOf[j] # 0}
  <2>1. {j \in Keys : regOf'[j] # 0} = K \ {k}
    BY Zenon, <1>3
  <2>2. entries \in Seq(Keys) /\ ListsBy(entries, K, regOf)
    BY <1>1, Zenon DEF FiledAll, RegTypes
  <2> HIDE DEF K
  <2>3. Without(entries, k) \in Seq(Keys) /\ ListsBy(Without(entries, k), K \ {k}, regOf')
    BY <1>1, <1>7, <2>2, TakenOut, Zenon
  <2> QED BY <1>2, <2>1, <2>3, Zenon
<1>9. ASSUME NEW l \in Labels
      PROVE index'[l] \in Seq(Keys) /\ ListsBy(index'[l], {j \in Keys : regOf'[j] # 0 /\ l \in regs[regOf'[j]].labels}, regOf')
  <2> DEFINE K == {j \in Keys : regOf[j] # 0 /\ l \in regs[regOf[j]].labels}
  <2>1. {j \in Keys : regOf'[j] # 0 /\ l \in regs[regOf'[j]].labels} = K \ {k}
    BY Zenon, <1>3
  <2>2. index[l] \in Seq(Keys) /\ ListsBy(index[l], K, regOf) /\ index'[l] = Without(index[l], k)
    BY <1>1, <1>2, Zenon DEF FiledAll, RegTypes
  <2> HIDE DEF K
  <2>3. Without(index[l], k) \in Seq(Keys) /\ ListsBy(Without(index[l], k), K \ {k}, regOf')
    BY <1>1, <1>7, <2>2, TakenOut, Zenon
  <2> QED BY <2>1, <2>2, <2>3, ZenonT(60)
<1>10. index' \in [Labels -> Seq(Keys)]
  BY <1>2, <1>9, Zenon
<1>11. RegTypes' /\ subs' = services'
  BY <1>1, <1>2, <1>3, <1>4, <1>8, <1>10, Zenon DEF RegTypes
<1> QED BY <1>2, <1>6, <1>8, <1>9, <1>11, RegistryWhole, Zenon DEF FiledAll

(* dispose.                                                                *)
LEMMA DisposeGood ==
    ASSUME RegistryIInv, Dispose
    PROVE RegistryIInv'
<1>1. /\ RegTypes /\ Books(regs, regOf, services, pending, factory, clients, discarded)
      /\ DOMAIN regs \subseteq Regs /\ MaxRegs \in Nat
  BY Zenon, RegistryParts
<1>2. /\ discarded' = discarded \cup ({services[k] : k \in Keys} \ {0})
      /\ services' = [k \in Keys |-> 0] /\ subs' = [k \in Keys |-> 0] /\ entries' = <<>>
      /\ regOf' = [k \in Keys |-> 0] /\ pending' = [k \in Keys |-> 0]
      /\ index' = [l \in Labels |-> <<>>] /\ UNCHANGED <<regs, factory, clients>>
  BY Zenon DEF Dispose
<1>3. ASSUME NEW r \in discarded' PROVE r \in Regs /\ factory[r] = "done" /\ clients[r] # 0
  BY <1>1, <1>2, SMTT(30) DEF Books, KeyGood, RegTypes
<1>4. Books(regs', regOf', services', pending', factory', clients', discarded')
  BY Zenon, <1>1, <1>2, <1>3 DEF Books, KeyGood
<1>5. FiledAll(entries', index', regs', regOf')
  BY <1>2 DEF FiledAll, ListsBy
<1>6. RegTypes' /\ subs' = services'
  BY <1>1, <1>2, <1>3 DEF RegTypes
<1> QED BY Zenon, <1>4, <1>5, <1>6, RegistryWhole

(* An asynchronous factory settles, perhaps after its entry was reset.     *)
LEMMA FactoryGood ==
    ASSUME RegistryIInv, NEW r \in Regs, FactoryResolves(r) \/ FactoryRejects(r)
    PROVE RegistryIInv'
<1>1. /\ RegTypes /\ Books(regs, regOf, services, pending, factory, clients, discarded)
      /\ FiledAll(entries, index, regs, regOf) /\ subs = services /\ regs \in Seq(Entries)
      /\ DOMAIN regs \subseteq Regs /\ MaxRegs \in Nat
  BY Zenon, RegistryParts DEF RegTypes
<1>2. factory[r] = "running" /\ UNCHANGED <<regs, entries, regOf, index, pending, clients, discarded>>
  BY Zenon DEF FactoryResolves, FactoryRejects
<1>3. r \in DOMAIN regs /\ r \notin discarded /\ clients[r] # 0 /\ r \in 0 .. MaxRegs /\ r # 0
  BY <1>1, <1>2, SMTT(30) DEF Books, Regs
<1>4. CASE FactoryRejects(r)
  <2>1. factory' = [factory EXCEPT ![r] = "failed"] /\ UNCHANGED <<services, subs>>
    BY Zenon, <1>4 DEF FactoryRejects
  <2>2. /\ factory' \in [Regs -> {"none", "running", "done", "failed"}]
        /\ \A x \in Regs : factory'[x] = IF x = r THEN "failed" ELSE factory[x]
    BY Zenon, <1>1, <2>1 DEF RegTypes
  <2>3. Books(regs, regOf, services, pending, factory', clients, discarded)
    BY <1>1, <1>2, <1>3, <2>2, SMTT(30) DEF Books, KeyGood
  <2> QED BY <1>1, <1>2, <2>1, <2>2, <2>3, RegistryWhole, Zenon DEF RegTypes
<1>5. CASE FactoryResolves(r)
  <2> DEFINE k == regs[r].key
  <2>1. /\ factory' = [factory EXCEPT ![r] = "done"] /\ services' = [services EXCEPT ![k] = r]
        /\ subs' = [subs EXCEPT ![k] = r]
    BY Zenon, <1>5 DEF FactoryResolves
  <2>2. k \in Keys
    BY <1>1, <1>3, RegistryAssumption
  <2> HIDE DEF k
  <2>3. /\ factory' \in [Regs -> {"none", "running", "done", "failed"}]
        /\ \A x \in Regs : factory'[x] = IF x = r THEN "done" ELSE factory[x]
        /\ services' \in [Keys -> 0 .. MaxRegs] /\ subs' = services'
        /\ \A j \in Keys : services'[j] = IF j = k THEN r ELSE services[j]
    BY Zenon, <1>1, <1>3, <2>1, <2>2 DEF RegTypes
  <2>4. ASSUME NEW j \in Keys
        PROVE KeyGood(j, regs, regOf[j], services'[j], pending[j], factory', clients, discarded)
    <3>1. KeyGood(j, regs, regOf[j], services[j], pending[j], factory, clients, discarded)
      BY Zenon, <1>1 DEF Books
    <3> QED BY Zenon, <1>1, <1>3, <2>3, <3>1 DEF KeyGood, k
  <2>5. Books(regs, regOf, services', pending, factory', clients, discarded)
    BY <1>1, <1>2, <1>3, <2>3, <2>4, Zenon DEF Books
  <2> QED BY <1>1, <1>2, <2>3, <2>5, RegistryWhole, Zenon DEF RegTypes
<1> QED BY Zenon, <1>4, <1>5

(* whenReady, preload and the idle callbacks.                              *)
LEMMA WhenReadyGood ==
    ASSUME RegistryIInv, NEW k \in Keys, WhenReady(k)
    PROVE RegistryIInv'
<1>1. /\ RegTypes /\ Books(regs, regOf, services, pending, factory, clients, discarded)
      /\ FiledAll(entries, index, regs, regOf) /\ subs = services /\ DOMAIN regs \subseteq Regs
  BY Zenon, RegistryParts
<1>2. /\ Answerable(k) /\ UNCHANGED <<regs, entries, regOf, index, discarded>>
      /\ IF services[k] # 0 \/ pending[k] # 0
         THEN UNCHANGED <<services, pending, factory, clients, subs>>
         ELSE MaterializeEntry(k, regOf[k], regs[regOf[k]])
  BY Zenon DEF WhenReady
<1>3. CASE UNCHANGED <<services, pending, factory, clients, subs>>
  BY <1>1, <1>2, <1>3, RegistryWhole, Zenon DEF RegTypes
<1>4. CASE services[k] = 0 /\ pending[k] = 0
  <2>1. regOf[k] # 0 /\ MaterializeEntry(k, regOf[k], regs[regOf[k]])
    BY Zenon, <1>2, <1>4 DEF Answerable
  <2>2. /\ Books(regs, regOf, services', pending', factory', clients', discarded)
        /\ services' \in [Keys -> 0 .. MaxRegs] /\ pending' \in [Keys -> 0 .. MaxRegs]
        /\ factory' \in [Regs -> {"none", "running", "done", "failed"}]
        /\ clients' \in [Regs -> Nat] /\ subs' = services'
    BY <1>1, <2>1, MaterializeGood, Zenon
  <2>3. RegTypes'
    BY <1>1, <1>2, <2>2, Zenon DEF RegTypes
  <2> QED BY Zenon, <1>1, <1>2, <2>2, <2>3, RegistryWhole
<1> QED BY Zenon, <1>2, <1>3, <1>4

(* One step of the registry and of the controller on top of it.            *)
LEMMA RegistryKept ==
    ASSUME RegistryIInv, [ResumeNext]_vars
    PROVE RegistryIInv'
<1>1. ASSUME UNCHANGED <<regs, entries, regOf, index, services, pending, factory, clients, subs, discarded>>
      PROVE RegistryIInv'
  BY Zenon, <1>1, RegistryParts, RegistryWhole DEF RegTypes
<1>2. ASSUME UNCHANGED regVars PROVE RegistryIInv'
  BY Zenon, <1>1, <1>2 DEF regVars
<1>3. ASSUME RegistryStep PROVE RegistryIInv'
  <2>1. CASE \E r \in Regs : FactoryResolves(r) \/ FactoryRejects(r)
    BY Zenon, <2>1, FactoryGood
  <2>2. CASE \E e \in Entries : Register(e)
    BY Zenon, <2>2, RegisterGood
  <2>3. CASE \E k \in Keys : Preload(k) \/ Reset(k)
    BY Zenon, <2>3, WhenReadyGood, ResetGood DEF Preload
  <2>4. CASE \E w \in Warmups : IdleWarmup(w) \/ CancelWarmup(w)
    BY Zenon, <1>1, <2>4 DEF IdleWarmup, CancelWarmup
  <2>5. CASE \E w \in Warmups : \E k \in Keys : IdleFires(w, k)
    BY Zenon, <1>1, <2>5, WhenReadyGood DEF IdleFires
  <2>6. CASE Dispose
    BY Zenon, <2>6, DisposeGood
  <2> QED BY Zenon, <1>3, <2>1, <2>2, <2>3, <2>4, <2>5, <2>6 DEF RegistryStep
<1>4. ASSUME NEW u \in Urls, NEW k \in Keys, Resume(u, k) PROVE RegistryIInv'
  BY Zenon, <1>2, <1>4, WhenReadyGood DEF Resume, Preload
<1>5. CASE \E u \in Urls : ResumeUnclaimed(u)
  BY Zenon, <1>2, <1>5 DEF ResumeUnclaimed
<1>6. CASE \E i \in 1 .. Len(attempts) : ClientReady(i) \/ HandleCallbackDone(i) \/ AttemptFails(i)
  BY Zenon, <1>2, <1>6 DEF ClientReady, HandleCallbackDone, AttemptFails
<1>7. CASE ResetController \/ DisposeController
  BY Zenon, <1>2, <1>7 DEF ResetController, DisposeController
<1>8. CASE UNCHANGED vars
  BY Zenon, <1>2, <1>8 DEF vars
<1> QED BY Zenon, <1>3, <1>4, <1>5, <1>6, <1>7, <1>8 DEF ResumeNext

(* Nothing is registered at first.                                         *)
LEMMA RegistryStarts ==
    ASSUME ResumeInit
    PROVE RegistryIInv
<1>1. Init /\ MaxRegs \in Nat
  BY Zenon, RegistryAssumption DEF ResumeInit
<1>2. RegTypes
  BY <1>1 DEF Init, RegTypes
<1>3. Books(regs, regOf, services, pending, factory, clients, discarded) /\ subs = services
  BY Zenon, <1>1 DEF Init, Books, KeyGood
<1>4. IndexMatchesEntries
  BY <1>1 DEF Init, IndexMatchesEntries, Lists
<1> QED BY Zenon, <1>2, <1>3, <1>4 DEF RegistryIInv

(* The books of the registry agree: one client per registration, events of *)
(* the service handed out, no disposed service handed out, and the lists   *)
(* of keys in order; for any number of keys, labels and registrations.     *)
THEOREM RegistryBooksAgree == ResumeSpec => []RegistryIsConsistent
<1>1. ResumeInit => RegistryIInv
  BY Zenon, RegistryStarts
<1>2. RegistryIInv /\ [ResumeNext]_vars => RegistryIInv'
  BY Zenon, RegistryKept
<1>3. RegistryIInv => RegistryIsConsistent
  <2> SUFFICES ASSUME RegistryIInv PROVE RegistryIsConsistent
    BY Zenon
  <2>1. OneClientPerRegistration
    BY DEF RegistryIInv, Books, OneClientPerRegistration
  <2>2. HandsOutLiveServices
    <3> SUFFICES ASSUME NEW k \in Keys PROVE services[k] \notin discarded
      BY Zenon DEF HandsOutLiveServices
    <3>1. 0 \notin discarded
      BY DEF RegistryIInv, RegTypes, Regs
    <3>2. services[k] # 0 => services[k] \notin discarded
      BY Zenon DEF RegistryIInv, Books, KeyGood
    <3> QED BY Zenon, <3>1, <3>2
  <2> QED BY Zenon, <2>1, <2>2 DEF RegistryIInv, RegistryIsConsistent, EventsFollowServices
<1> QED BY <1>1, <1>2, <1>3, PTL DEF ResumeSpec

-----------------------------------------------------------------------------
(* The callback resume controller                                          *)

ResumeRecords == [key : Keys, url : Urls, reg : Nat, epoch : Nat,
                  pc : {"waiting", "handling", "resolved", "failed"}]

(* The attempts of the current epoch are the ones in the cache, and a      *)
(* pending state has an attempt that is under way.                         *)
Remembered(a, i, c, n, shut) ==
    a.epoch <= n /\ (a.epoch = n /\ ~shut => c[<<a.key, a.url>>] = i)

ResumeIInv ==
    /\ attempts \in Seq(ResumeRecords) /\ cache \in [Keys \X Urls -> Nat] /\ resets \in Nat
    /\ \A i \in DOMAIN attempts : Remembered(attempts[i], i, cache, resets, closed)
    /\ CallbackAttemptsAreOwned

(* An attempt goes on or settles: it stays the attempt of its callback.    *)
LEMMA AttemptMoves ==
    ASSUME ResumeIInv, NEW i \in 1 .. Len(attempts), NEW pc \in {"handling", "resolved", "failed"},
           attempts' = [attempts EXCEPT ![i].pc = pc], UNCHANGED <<cache, closed, resets>>,
           \/ pc = "handling" /\ UNCHANGED shown
           \/ \E st \in {"resolved", "error"} : shown' = IF closed THEN shown ELSE Shown(attempts[i].key, st)
    PROVE ResumeIInv'
<1> DEFINE a == [attempts[i] EXCEPT !.pc = pc]
<1>1. /\ attempts \in Seq(ResumeRecords) /\ Len(attempts) \in Nat /\ DOMAIN attempts = 1 .. Len(attempts)
      /\ attempts[i] \in ResumeRecords
  BY DEF ResumeIInv
<1>2. /\ a \in ResumeRecords /\ a.key = attempts[i].key /\ a.url = attempts[i].url
      /\ a.epoch = attempts[i].epoch /\ a.pc = pc
  BY <1>1, Zenon DEF ResumeRecords
<1>3. attempts' = [attempts EXCEPT ![i] = a]
  BY Zenon, <1>1
<1> HIDE DEF a
<1>4. /\ attempts' \in Seq(ResumeRecords) /\ Len(attempts') = Len(attempts)
      /\ DOMAIN attempts' = DOMAIN attempts
      /\ \A j \in DOMAIN attempts : attempts'[j] = IF j = i THEN a ELSE attempts[j]
  BY <1>1, <1>2, <1>3
<1>5. \A j \in DOMAIN attempts : /\ attempts'[j].key = attempts[j].key /\ attempts'[j].url = attempts[j].url
                                 /\ attempts'[j].epoch = attempts[j].epoch
                                 /\ attempts'[j].pc = IF j = i THEN pc ELSE attempts[j].pc
  BY Zenon, <1>2, <1>4
<1>6. \A j \in DOMAIN attempts' : Remembered(attempts'[j], j, cache', resets', closed')
  BY <1>4, <1>5 DEF ResumeIInv, Remembered
<1>7. OneAttemptPerCallback'
  <2> SUFFICES ASSUME NEW j \in DOMAIN attempts, NEW l \in DOMAIN attempts,
                      attempts'[j].key = attempts'[l].key, attempts'[j].url = attempts'[l].url,
                      attempts'[j].epoch = attempts'[l].epoch
               PROVE j = l
    BY <1>1, <1>4 DEF OneAttemptPerCallback
  <2>1. /\ attempts[j].key = attempts[l].key /\ attempts[j].url = attempts[l].url
        /\ attempts[j].epoch = attempts[l].epoch
    BY Zenon, <1>5
  <2> QED BY <1>1, <2>1, Zenon DEF ResumeIInv, CallbackAttemptsAreOwned, OneAttemptPerCallback
<1>8. PendingIsOwned'
  <2>1. CASE pc = "handling" /\ UNCHANGED shown
    <3>1. PendingIsOwned
      BY Zenon DEF ResumeIInv, CallbackAttemptsAreOwned
    <3> SUFFICES ASSUME shown.status = "pending", ~closed
                 PROVE \E j \in 1 .. Len(attempts') :
                         attempts'[j].key = shown.key /\ attempts'[j].pc \in {"waiting", "handling"}
      BY Zenon, <2>1 DEF PendingIsOwned
    <3>2. PICK j \in 1 .. Len(attempts) : attempts[j].key = shown.key /\ attempts[j].pc \in {"waiting", "handling"}
      BY Zenon, <3>1 DEF PendingIsOwned
    <3>3. j \in 1 .. Len(attempts') /\ attempts'[j].key = shown.key /\ attempts'[j].pc \in {"waiting", "handling"}
      BY Zenon, <1>1, <1>4, <1>5, <2>1, <3>2
    <3> QED BY Zenon, <3>3
  <2>2. CASE \E st \in {"resolved", "error"} : shown' = IF closed THEN shown ELSE Shown(attempts[i].key, st)
    BY <2>2 DEF PendingIsOwned, Shown
  <2> QED BY Zenon, <2>1, <2>2
<1> QED BY <1>4, <1>6, <1>7, <1>8, Zenon DEF ResumeIInv, CallbackAttemptsAreOwned

(* resume starts an attempt, the first of its callback since the reset.    *)
LEMMA ResumeStarts ==
    ASSUME ResumeIInv, RegistryIInv, NEW u \in Urls, NEW k \in Keys, Resume(u, k)
    PROVE ResumeIInv'
<1> DEFINE n == Len(attempts) + 1
           a == NewAttempt(k, u)
<1>1. /\ ~closed /\ cache[<<k, u>>] = 0 /\ attempts' = Append(attempts, a)
      /\ cache' = [cache EXCEPT ![<<k, u>>] = n] /\ shown' = Shown(k, "pending") /\ UNCHANGED <<closed, resets>>
  BY Zenon DEF Resume
<1>2. /\ attempts \in Seq(ResumeRecords) /\ Len(attempts) \in Nat /\ DOMAIN attempts = 1 .. Len(attempts)
      /\ cache \in [Keys \X Urls -> Nat] /\ resets \in Nat
      /\ \A i \in DOMAIN attempts : attempts[i] \in ResumeRecords
  BY DEF ResumeIInv
<1>3. /\ a \in ResumeRecords /\ a.key = k /\ a.url = u /\ a.epoch = resets /\ a.pc = "waiting"
  <2>1. AnsweredBy(k) \in Nat
    BY RegistryAssumption DEF AnsweredBy, RegistryIInv, RegTypes
  <2> QED BY Zenon, <1>2, <2>1 DEF NewAttempt, ResumeRecords
<1> HIDE DEF a
<1>4. /\ attempts' \in Seq(ResumeRecords) /\ Len(attempts') = n /\ DOMAIN attempts' = 1 .. n
      /\ attempts'[n] = a /\ \A i \in DOMAIN attempts : attempts'[i] = attempts[i] /\ i # n /\ i \in Nat \ {0}
  BY <1>1, <1>2, <1>3
<1>5. ASSUME NEW i \in DOMAIN attempts' PROVE i \in DOMAIN attempts \/ i = n
  BY <1>2, <1>4
<1>6. /\ cache' \in [Keys \X Urls -> Nat] /\ cache'[<<k, u>>] = n
      /\ \A p \in Keys \X Urls : p # <<k, u>> => cache'[p] = cache[p]
  BY <1>1, <1>2
<1>7. ASSUME NEW i \in DOMAIN attempts, attempts[i].epoch = resets
      PROVE <<attempts[i].key, attempts[i].url>> # <<k, u>> /\ <<attempts[i].key, attempts[i].url>> \in Keys \X Urls
  <2>1. cache[<<attempts[i].key, attempts[i].url>>] = i /\ i # 0
    BY Zenon, <1>1, <1>4, <1>7 DEF ResumeIInv, Remembered
  <2>2. attempts[i].key \in Keys /\ attempts[i].url \in Urls
    BY Zenon, <1>2 DEF ResumeRecords
  <2> QED BY <1>1, <2>1, <2>2, Zenon
<1>8. ASSUME NEW i \in DOMAIN attempts' PROVE Remembered(attempts'[i], i, cache', resets', closed')
  <2>1. CASE i = n
    BY <1>1, <1>2, <1>3, <1>4, <1>6, <2>1, SMTT(30) DEF Remembered
  <2>2. CASE i \in DOMAIN attempts
    <3>1. Remembered(attempts[i], i, cache, resets, closed)
      BY Zenon, <2>2 DEF ResumeIInv
    <3>2. attempts'[i] = attempts[i] /\ resets' = resets /\ closed' = closed
      BY <1>1, <1>4, <2>2, Zenon
    <3>3. attempts[i].epoch = resets =>
             cache'[<<attempts[i].key, attempts[i].url>>] = cache[<<attempts[i].key, attempts[i].url>>]
      BY <1>6, <1>7, <2>2, Zenon
    <3> QED BY <3>1, <3>2, <3>3, Zenon DEF Remembered
  <2> QED BY Zenon, <1>5, <2>1, <2>2
<1>9. OneAttemptPerCallback'
  <2> SUFFICES ASSUME NEW i \in DOMAIN attempts', NEW j \in DOMAIN attempts',
                      attempts'[i].key = attempts'[j].key, attempts'[i].url = attempts'[j].url,
                      attempts'[i].epoch = attempts'[j].epoch
               PROVE i = j
    BY Zenon, <1>4 DEF OneAttemptPerCallback
  <2>1. CASE i \in DOMAIN attempts /\ j \in DOMAIN attempts
    BY Zenon, <1>2, <1>4, <2>1 DEF ResumeIInv, CallbackAttemptsAreOwned, OneAttemptPerCallback
  <2>2. CASE i \in DOMAIN attempts /\ j = n
    BY <1>3, <1>4, <1>7, <2>2, Zenon
  <2>3. CASE j \in DOMAIN attempts /\ i = n
    BY <1>3, <1>4, <1>7, <2>3, Zenon
  <2> QED BY Zenon, <1>5, <2>1, <2>2, <2>3
<1>10. PendingIsOwned'
  <2>1. n \in 1 .. Len(attempts') /\ attempts'[n].key = shown'.key /\ attempts'[n].pc = "waiting"
    BY <1>1, <1>2, <1>3, <1>4 DEF Shown
  <2> QED BY Zenon, <2>1 DEF PendingIsOwned
<1> QED BY <1>1, <1>2, <1>4, <1>6, <1>8, <1>9, <1>10, Zenon DEF ResumeIInv, CallbackAttemptsAreOwned

(* One step of the controller.                                             *)
LEMMA ResumeStep ==
    ASSUME ResumeIInv, RegistryIInv, [ResumeNext]_vars
    PROVE ResumeIInv'
<1>1. ASSUME UNCHANGED resumeVars PROVE ResumeIInv'
  BY Zenon, <1>1 DEF resumeVars, ResumeIInv, CallbackAttemptsAreOwned, OneAttemptPerCallback, PendingIsOwned
<1>2. CASE RegistryStep /\ UNCHANGED resumeVars
  BY Zenon, <1>1, <1>2
<1>3. ASSUME NEW u \in Urls, ResumeUnclaimed(u) PROVE ResumeIInv'
  BY Zenon, <1>3 DEF ResumeUnclaimed, Shown, ResumeIInv, CallbackAttemptsAreOwned, OneAttemptPerCallback, PendingIsOwned
<1>4. ASSUME NEW i \in 1 .. Len(attempts), ClientReady(i) \/ HandleCallbackDone(i) \/ AttemptFails(i)
      PROVE ResumeIInv'
  BY <1>4, AttemptMoves, Zenon DEF ClientReady, HandleCallbackDone, AttemptFails
<1>5. CASE ResetController
  <2>1. /\ resets' = resets + 1 /\ cache' = [p \in Keys \X Urls |-> 0] /\ shown' = Shown(NoKey, "idle")
        /\ UNCHANGED <<attempts, closed>>
    BY Zenon, <1>5 DEF ResetController
  <2>2. \A i \in DOMAIN attempts : Remembered(attempts[i], i, cache', resets', closed')
    <3> TAKE i \in DOMAIN attempts
    <3>1. attempts[i] \in ResumeRecords /\ resets \in Nat
      BY DEF ResumeIInv
    <3>3. attempts[i].epoch <= resets
      BY Zenon DEF ResumeIInv, Remembered
    <3>2. attempts[i].epoch <= resets + 1 /\ attempts[i].epoch # resets + 1
      BY <3>1, <3>3 DEF ResumeRecords
    <3> QED BY Zenon, <2>1, <3>2 DEF Remembered
  <2>3. PendingIsOwned' /\ OneAttemptPerCallback'
    BY Zenon, <2>1 DEF Shown, ResumeIInv, CallbackAttemptsAreOwned, OneAttemptPerCallback, PendingIsOwned
  <2> QED BY <2>1, <2>2, <2>3 DEF ResumeIInv, CallbackAttemptsAreOwned
<1>6. CASE DisposeController
  <2>1. /\ closed' = TRUE /\ cache' = [p \in Keys \X Urls |-> 0] /\ UNCHANGED <<attempts, shown, resets>>
    BY Zenon, <1>6 DEF DisposeController
  <2>2. \A i \in DOMAIN attempts : Remembered(attempts[i], i, cache', resets', closed')
    BY <2>1, Zenon DEF ResumeIInv, Remembered
  <2>3. PendingIsOwned' /\ OneAttemptPerCallback'
    BY Zenon, <2>1 DEF ResumeIInv, CallbackAttemptsAreOwned, OneAttemptPerCallback, PendingIsOwned
  <2> QED BY <2>1, <2>2, <2>3, Zenon DEF ResumeIInv, CallbackAttemptsAreOwned
<1>7. CASE UNCHANGED vars
  BY Zenon, <1>1, <1>7 DEF vars
<1> QED BY Zenon, <1>2, <1>3, <1>4, <1>5, <1>6, <1>7, ResumeStarts DEF ResumeNext

(* Every callback has one attempt until the controller is reset, and a     *)
(* pending state is owned by an attempt of its client that is under way:   *)
(* for any number of clients, URLs, attempts and resets.                   *)
THEOREM CallbackAttemptsOwned == ResumeSpec => []CallbackAttemptsAreOwned
<1>1. ResumeInit => RegistryIInv /\ ResumeIInv
  <2> SUFFICES ASSUME ResumeInit PROVE RegistryIInv /\ ResumeIInv
    BY Zenon
  <2>1. ResumeIInv
    BY DEF ResumeInit, ResumeIInv, CallbackAttemptsAreOwned, OneAttemptPerCallback, PendingIsOwned, Shown
  <2> QED BY Zenon, <2>1, RegistryStarts
<1>2. RegistryIInv /\ ResumeIInv /\ [ResumeNext]_vars => RegistryIInv' /\ ResumeIInv'
  BY Zenon, RegistryKept, ResumeStep
<1>3. ResumeIInv => CallbackAttemptsAreOwned
  BY Zenon DEF ResumeIInv
<1> QED BY <1>1, <1>2, <1>3, PTL DEF ResumeSpec

-----------------------------------------------------------------------------
(* The logins of FrontendLogin.                                            *)

Records == {Nothing} \cup [client : LoginClients, at : Nat]

FlowPcs == {"server", "saving", "opening", "waiting", "callback", "lookup", "taken", "marked",
            "provider", "exchanging", "checking"}

FlowRecords == [pc : FlowPcs, client : LoginClients, kind : {"redirect", "popup", "callback"},
                state : States \cup {NoState}, held : Records]

(* A call under way knows its state unless it waits for one, and reaches   *)
(* the provider with a record of its own client.                           *)
GoodFlow(r) ==
    \/ r = NoFlow
    \/ /\ r \in FlowRecords
       /\ r.pc \notin {"server", "waiting"} => r.state \in States
       /\ r.pc = "provider" => r.held.client = r.client

GoodPopup(w) == w \in [state : States \cup {NoState}, open : BOOLEAN] /\ (w.open = TRUE => w.state \in States)

(* A call holds a state from the draw to the save, and from the take to    *)
(* the exchange.                                                           *)
Holds(r, s) == r.pc \in {"saving", "taken", "marked", "provider"} /\ r.state = s

(* A state that may still be exchanged is in one place: drawn by no one    *)
(* yet, pending in the store, or held by one call.                         *)
Placed(s, fl, pend, x) ==
    /\ x.drawn = FALSE => x.times = 0 /\ pend = Nothing /\ \A f \in Flows : ~Holds(fl[f], s)
    /\ pend # Nothing => x.times = 0 /\ \A f \in Flows : ~Holds(fl[f], s)
    /\ \A f \in Flows : Holds(fl[f], s) =>
         x.times = 0 /\ \A g \in Flows : Holds(fl[g], s) => g = f
    /\ x.times <= 1 /\ x.own = TRUE

Drawn == [drawn : BOOLEAN, times : Nat, own : BOOLEAN]

GoodFlows(fl) == DOMAIN fl = Flows /\ \A f \in Flows : GoodFlow(fl[f])

GoodWindows(w, m) ==
    /\ DOMAIN w = Flows /\ \A f \in Flows : GoodPopup(w[f])
    /\ m \subseteq [state : States, error : BOOLEAN]

Book == exchanges \in [States -> Drawn] /\ pendingStates \in [States -> Records] /\ loginTime \in Nat

LoginIInv ==
    /\ GoodFlows(flows)
    /\ GoodWindows(popups, relayed)
    /\ Book
    /\ \A s \in States : Placed(s, flows, pendingStates[s], exchanges[s])

(* A call under way is a record with all the fields of a call.             *)
LEMMA UnderWay ==
    ASSUME LoginIInv, NEW f \in Flows, flows[f].pc # "none"
    PROVE /\ DOMAIN flows = Flows /\ flows[f] \in FlowRecords /\ flows[f].client \in LoginClients
          /\ flows[f].pc \notin {"server", "waiting"} => flows[f].state \in States
          /\ flows[f].held \in Records
          /\ flows[f].pc = "provider" => flows[f].held.client = flows[f].client
BY DEF LoginIInv, GoodFlows, GoodFlow, NoFlow, FlowRecords

(* One call goes on, or ends, with the state it held or with none.         *)
LEMMA FlowGoesOn ==
    ASSUME LoginIInv, NEW f \in Flows, NEW r, GoodFlow(r),
           flows' = [flows EXCEPT ![f] = r], UNCHANGED <<pendingStates, exchanges, loginTime>>,
           \A s \in States : Holds(r, s) => Holds(flows[f], s),
           GoodWindows(popups', relayed')
    PROVE LoginIInv'
<1>1. /\ DOMAIN flows = Flows /\ flows'[f] = r /\ DOMAIN flows' = Flows
      /\ \A g \in Flows : g # f => flows'[g] = flows[g]
  BY Zenon DEF LoginIInv, GoodFlows
<1>2. GoodFlows(flows')
  BY Zenon, <1>1 DEF LoginIInv, GoodFlows
<1>3. ASSUME NEW s \in States PROVE Placed(s, flows', pendingStates[s], exchanges[s])
  <2>1. Placed(s, flows, pendingStates[s], exchanges[s])
    BY Zenon DEF LoginIInv
  <2>2. \A g \in Flows : Holds(flows'[g], s) => Holds(flows[g], s)
    BY Zenon, <1>1
  <2> QED BY Zenon, <2>1, <2>2 DEF Placed
<1>4. Book'
  BY Zenon DEF LoginIInv, Book
<1> QED BY <1>2, <1>3, <1>4, Zenon DEF LoginIInv

(* A call that ends holds nothing.                                         *)
LEMMA FlowEnded ==
    ASSUME LoginIInv, NEW f \in Flows, FlowEnds(f), UNCHANGED <<pendingStates, exchanges, loginTime>>,
           GoodWindows(popups', relayed')
    PROVE LoginIInv'
<1>1. GoodFlow(NoFlow) /\ \A s \in States : ~Holds(NoFlow, s)
  BY Zenon DEF GoodFlow, Holds, NoFlow
<1>2. flows' = [flows EXCEPT ![f] = NoFlow]
  BY Zenon DEF FlowEnds
<1> QED BY <1>1, <1>2, FlowGoesOn, Zenon

(* A call that goes on keeps its fields.                                   *)
LEMMA FlowGoes ==
    ASSUME LoginIInv, NEW f \in Flows, NEW pc \in FlowPcs \ {"server", "waiting"},
           flows[f].pc \notin {"none", "server", "waiting"}, Goes(f, pc),
           pc = "provider" => flows[f].held.client = flows[f].client,
           pc \in {"saving", "taken", "marked", "provider"} =>
             flows[f].pc \in {"saving", "taken", "marked", "provider"},
           UNCHANGED <<pendingStates, exchanges, popups, relayed, loginTime>>
    PROVE LoginIInv'
<1> DEFINE r == [flows[f] EXCEPT !.pc = pc]
<1>0. flows[f] \in FlowRecords /\ flows[f].state \in States /\ DOMAIN flows = Flows
  BY Zenon, UnderWay
<1>1. flows' = [flows EXCEPT ![f] = r]
  BY Zenon, <1>0 DEF Goes
<1>2. r \in FlowRecords /\ r.pc = pc /\ r.state = flows[f].state /\ r.held = flows[f].held /\ r.client = flows[f].client
  BY Zenon, <1>0 DEF FlowRecords
<1> HIDE DEF r
<1>3. GoodFlow(r) /\ \A s \in States : Holds(r, s) => Holds(flows[f], s)
  BY Zenon, <1>0, <1>2 DEF GoodFlow, Holds
<1>4. GoodWindows(popups', relayed')
  BY Zenon DEF LoginIInv
<1> QED BY <1>1, <1>3, <1>4, FlowGoesOn, ZenonT(60)

(* StartFlow: a call that waits for the provider holds nothing.            *)
LEMMA LoginStarts ==
    ASSUME LoginIInv, NEW f \in Flows, NEW c \in LoginClients, NEW kind \in {"redirect", "popup"},
           StartFlow(f, c, kind)
    PROVE LoginIInv'
<1> DEFINE r == [pc |-> "server", client |-> c, kind |-> kind, state |-> NoState, held |-> Nothing]
<1>1. flows' = [flows EXCEPT ![f] = r] /\ UNCHANGED <<pendingStates, popups, relayed, loginTime, exchanges>>
  BY Zenon DEF StartFlow, Call, Stores, Windows
<1>2. GoodFlow(r) /\ \A s \in States : ~Holds(r, s)
  BY Zenon DEF GoodFlow, Holds, FlowRecords, FlowPcs, Records
<1> HIDE DEF r
<1>3. GoodWindows(popups', relayed')
  BY <1>1, Zenon DEF LoginIInv
<1> QED BY <1>1, <1>2, <1>3, FlowGoesOn, ZenonT(60)

(* _buildAuthorizeUrl holds a state that no one has drawn.                 *)
LEMMA LoginDraws ==
    ASSUME LoginIInv, NEW f \in Flows, NEW s \in States, _buildAuthorizeUrl(f, s)
    PROVE LoginIInv'
<1> DEFINE r == [flows[f] EXCEPT !.pc = "saving", !.state = s, !.held = [client |-> Client(f), at |-> loginTime]]
           x == [exchanges[s] EXCEPT !.drawn = TRUE]
<1>0. /\ exchanges \in [States -> Drawn] /\ exchanges[s] \in Drawn /\ loginTime \in Nat
      /\ flows[f] \in FlowRecords /\ Client(f) \in LoginClients /\ DOMAIN flows = Flows
  BY Zenon, UnderWay DEF LoginIInv, Book, _buildAuthorizeUrl, Flow, Client
<1>1. flows' = [flows EXCEPT ![f] = r] /\ UNCHANGED <<pendingStates, popups, relayed, loginTime>>
  BY <1>0, Zenon DEF _buildAuthorizeUrl, Windows
<1>2. exchanges' = [exchanges EXCEPT ![s] = x] /\ exchanges[s].drawn = FALSE
  BY Zenon, <1>0 DEF _buildAuthorizeUrl, Drawn
<1>3. r \in FlowRecords /\ r.pc = "saving" /\ r.state = s
  BY <1>0, Zenon DEF FlowRecords, FlowPcs, Records
<1>4. x \in Drawn /\ x.times = exchanges[s].times /\ x.own = exchanges[s].own /\ x.drawn = TRUE
  BY <1>0, Zenon DEF Drawn
<1> HIDE DEF r, x
<1>5. /\ flows'[f] = r /\ DOMAIN flows' = Flows
      /\ \A g \in Flows : g # f => flows'[g] = flows[g]
  BY Zenon, <1>0, <1>1
<1>6. GoodFlows(flows')
  BY Zenon, <1>3, <1>5 DEF LoginIInv, GoodFlows, GoodFlow
<1>7. ASSUME NEW t \in States PROVE Placed(t, flows', pendingStates[t], exchanges'[t])
  <2>1. Placed(t, flows, pendingStates[t], exchanges[t])
    BY Zenon DEF LoginIInv
  <2>2. CASE t = s
    <3>1. exchanges'[t] = x /\ x.times = 0 /\ x.own = TRUE /\ x.drawn = TRUE
      BY Zenon, <1>0, <1>2, <1>4, <2>1, <2>2 DEF Placed
    <3>2. pendingStates[t] = Nothing /\ \A g \in Flows : Holds(flows'[g], t) => g = f
      BY Zenon, <1>2, <1>5, <2>1, <2>2 DEF Placed
    <3> QED BY <3>1, <3>2, SMTT(30) DEF Placed
  <2>3. CASE t # s
    <3>1. exchanges'[t] = exchanges[t] /\ \A g \in Flows : Holds(flows'[g], t) => Holds(flows[g], t)
      BY Zenon, <1>0, <1>2, <1>3, <1>5, <2>3 DEF Holds
    <3> QED BY Zenon, <2>1, <3>1 DEF Placed
  <2> QED BY Zenon, <2>2, <2>3
<1>8. Book'
  BY Zenon, <1>0, <1>1, <1>2, <1>4 DEF LoginIInv, Book
<1> QED BY <1>1, <1>6, <1>7, <1>8, Zenon DEF LoginIInv

(* _savePendingState gives the state of the call to the store.             *)
LEMMA LoginSaves ==
    ASSUME LoginIInv, NEW f \in Flows, _savePendingState(f)
    PROVE LoginIInv'
<1> DEFINE r == [flows[f] EXCEPT !.pc = "opening", !.held = Nothing]
<1>0. /\ flows[f] \in FlowRecords /\ flows[f].state \in States /\ flows[f].held \in Records
      /\ DOMAIN flows = Flows /\ pendingStates \in [States -> Records] /\ flows[f].pc = "saving"
  BY Zenon, UnderWay DEF LoginIInv, Book, _savePendingState, Flow
<1>1. PICK q \in {NoFlow, r} : flows' = [flows EXCEPT ![f] = q]
  BY <1>0, Zenon DEF _savePendingState, FlowEnds
<1>2. /\ pendingStates' = [pendingStates EXCEPT ![flows[f].state] = flows[f].held]
      /\ UNCHANGED <<exchanges, popups, relayed, loginTime>>
  BY Zenon DEF _savePendingState, Windows
<1>3. r \in FlowRecords /\ r.pc = "opening" /\ r.state \in States
  BY <1>0, Zenon DEF FlowRecords, FlowPcs, Records
<1> HIDE DEF r
<1>4. GoodFlow(q) /\ \A t \in States : ~Holds(q, t)
  BY <1>1, <1>3 DEF GoodFlow, Holds, NoFlow
<1>5. /\ flows'[f] = q /\ DOMAIN flows' = Flows
      /\ \A g \in Flows : g # f => flows'[g] = flows[g]
  BY Zenon, <1>0, <1>1
<1>6. GoodFlows(flows')
  BY Zenon, <1>4, <1>5 DEF LoginIInv, GoodFlows
<1>7. ASSUME NEW t \in States PROVE Placed(t, flows', pendingStates'[t], exchanges[t])
  <2>1. Placed(t, flows, pendingStates[t], exchanges[t])
    BY Zenon DEF LoginIInv
  <2>2. CASE t = flows[f].state
    <3>1. Holds(flows[f], t)
      BY Zenon, <1>0, <2>2 DEF Holds
    <3>2. exchanges[t].drawn # FALSE /\ exchanges[t].times = 0 /\ \A g \in Flows : ~Holds(flows'[g], t)
      BY <1>4, <1>5, <2>1, <3>1, ZenonT(60) DEF Placed
    <3> QED BY <2>1, <3>2, Zenon DEF Placed
  <2>3. CASE t # flows[f].state
    <3>1. pendingStates'[t] = pendingStates[t] /\ \A g \in Flows : Holds(flows'[g], t) => Holds(flows[g], t)
      BY <1>0, <1>2, <1>4, <1>5, <2>3, Zenon
    <3> QED BY Zenon, <2>1, <3>1 DEF Placed
  <2> QED BY Zenon, <2>2, <2>3
<1>8. Book'
  BY <1>0, <1>2, ZenonT(60) DEF LoginIInv, Book
<1> QED BY <1>2, <1>6, <1>7, <1>8, Zenon DEF LoginIInv

(* take gives the pending state to one call, and leaves none in the store. *)
LEMMA LoginTakes ==
    ASSUME LoginIInv, NEW f \in Flows, NEW s \in States, NEW call \in FlowRecords, Take(f, s, call),
           UNCHANGED <<exchanges, popups, relayed, loginTime>>, \A t \in States : ~Holds(flows[f], t)
    PROVE LoginIInv'
<1> DEFINE r == [call EXCEPT !.pc = IF pendingStates[s] = Nothing THEN "lookup" ELSE "taken",
                             !.held = pendingStates[s], !.state = s]
<1>0. pendingStates \in [States -> Records] /\ pendingStates[s] \in Records /\ DOMAIN flows = Flows
  BY Zenon DEF LoginIInv, Book, GoodFlows
<1>1. /\ flows' = [flows EXCEPT ![f] = r]
      /\ pendingStates' = [pendingStates EXCEPT ![s] = Nothing]
  BY Zenon DEF Take
<1>2. /\ r \in FlowRecords /\ r.state = s
      /\ r.pc = IF pendingStates[s] = Nothing THEN "lookup" ELSE "taken"
  BY <1>0, ZenonT(60) DEF FlowRecords, FlowPcs
<1> HIDE DEF r
<1>3. GoodFlow(r) /\ \A t \in States : Holds(r, t) => t = s /\ pendingStates[s] # Nothing
  BY Zenon, <1>2 DEF GoodFlow, Holds
<1>4. /\ flows'[f] = r /\ DOMAIN flows' = Flows
      /\ \A g \in Flows : g # f => flows'[g] = flows[g]
  BY Zenon, <1>0, <1>1
<1>5. GoodFlows(flows')
  BY <1>3, <1>4, Zenon DEF LoginIInv, GoodFlows
<1>6. ASSUME NEW t \in States PROVE Placed(t, flows', pendingStates'[t], exchanges[t])
  <2>1. Placed(t, flows, pendingStates[t], exchanges[t])
    BY Zenon DEF LoginIInv
  <2>2. CASE t = s /\ pendingStates[s] # Nothing
    <3>1. pendingStates'[t] = Nothing /\ exchanges[t].drawn # FALSE /\ exchanges[t].times = 0
      BY <1>0, <1>1, <2>1, <2>2, ZenonT(60) DEF Placed
    <3>2. \A g \in Flows : Holds(flows'[g], t) => g = f
      BY <1>4, <2>1, <2>2, ZenonT(60) DEF Placed
    <3> QED BY <2>1, <3>1, <3>2, ZenonT(60) DEF Placed
  <2>3. CASE t # s \/ pendingStates[s] = Nothing
    <3>1. pendingStates'[t] = pendingStates[t] /\ \A g \in Flows : Holds(flows'[g], t) => Holds(flows[g], t)
      BY Zenon, <1>0, <1>1, <1>3, <1>4, <2>3
    <3> QED BY Zenon, <2>1, <3>1 DEF Placed
  <2> QED BY <2>2, <2>3, ZenonT(60)
<1>7. Book'
  BY Zenon, <1>0, <1>1 DEF LoginIInv, Book, Records
<1> QED BY Zenon, <1>5, <1>6, <1>7 DEF LoginIInv

(* exchangeCode gives the state up: it is not exchanged again.             *)
LEMMA LoginExchanges ==
    ASSUME LoginIInv, NEW f \in Flows, exchangeCode(f)
    PROVE LoginIInv'
<1> DEFINE r == [flows[f] EXCEPT !.pc = "exchanging"]
           s == flows[f].state
           x == [drawn |-> TRUE, times |-> exchanges[s].times + 1,
                 own |-> exchanges[s].own /\ flows[f].held.client = Client(f)]
<1>0. /\ flows[f] \in FlowRecords /\ s \in States /\ flows[f].held.client = Client(f)
      /\ DOMAIN flows = Flows /\ exchanges \in [States -> Drawn] /\ exchanges[s] \in Drawn
      /\ flows[f].pc = "provider"
  BY UnderWay, Zenon DEF LoginIInv, Book, exchangeCode, Flow, Client
<1>1. flows' = [flows EXCEPT ![f] = r] /\ UNCHANGED <<pendingStates, popups, relayed, loginTime>>
  BY Zenon, <1>0 DEF exchangeCode, Goes, Stores, Windows
<1>2. exchanges' = [exchanges EXCEPT ![s] = x]
  BY <1>0, Zenon DEF exchangeCode
<1>3. r \in FlowRecords /\ r.pc = "exchanging" /\ r.state = s
  BY Zenon, <1>0 DEF FlowRecords, FlowPcs
<1>4. Holds(flows[f], s) /\ Placed(s, flows, pendingStates[s], exchanges[s])
  BY Zenon, <1>0 DEF Holds, LoginIInv
<1>5. exchanges[s].times = 0 /\ exchanges[s].own = TRUE /\ pendingStates[s] = Nothing
  BY <1>4, Zenon DEF Placed
<1>6. x \in Drawn /\ x.drawn = TRUE /\ x.times = 1 /\ x.own = TRUE
  BY <1>0, <1>5 DEF Drawn
<1> HIDE DEF r, s, x
<1>7. /\ flows'[f] = r /\ DOMAIN flows' = Flows
      /\ \A g \in Flows : g # f => flows'[g] = flows[g]
  BY Zenon, <1>0, <1>1
<1>8. GoodFlows(flows')
  BY Zenon, <1>0, <1>3, <1>7 DEF LoginIInv, GoodFlows, GoodFlow
<1>9. ASSUME NEW t \in States PROVE Placed(t, flows', pendingStates[t], exchanges'[t])
  <2>1. Placed(t, flows, pendingStates[t], exchanges[t])
    BY Zenon DEF LoginIInv
  <2>2. ~Holds(flows'[f], t)
    BY Zenon, <1>3, <1>7 DEF Holds
  <2>3. CASE t = s
    <3>1. exchanges'[t] = x /\ \A g \in Flows : ~Holds(flows'[g], t)
      BY <1>0, <1>2, <1>4, <1>7, <2>1, <2>2, <2>3, Zenon DEF Placed
    <3> QED BY <1>5, <1>6, <2>3, <3>1, SMTT(30) DEF Placed
  <2>4. CASE t # s
    <3>1. exchanges'[t] = exchanges[t] /\ \A g \in Flows : Holds(flows'[g], t) => Holds(flows[g], t)
      BY Zenon, <1>0, <1>2, <1>7, <2>2, <2>4
    <3> QED BY <2>1, <3>1, Zenon DEF Placed
  <2> QED BY Zenon, <2>3, <2>4
<1>10. Book'
  BY Zenon, <1>0, <1>1, <1>2, <1>6 DEF LoginIInv, Book
<1> QED BY <1>1, <1>8, <1>9, <1>10, ZenonT(60) DEF LoginIInv

(* A window that is forgotten is no window, and the others stay.           *)
LEMMA WindowsForgotten ==
    ASSUME LoginIInv, NEW fs
    PROVE DOMAIN Forgotten(fs) = Flows /\ \A f \in Flows : GoodPopup(Forgotten(fs)[f])
<1>1. GoodPopup(NoPopup)
  BY Zenon DEF GoodPopup, NoPopup
<1> QED BY Zenon, <1>1 DEF LoginIInv, GoodWindows, Forgotten

(* openPopupWindow: the window takes the state of its login along.         *)
LEMMA LoginOpens ==
    ASSUME LoginIInv, NEW f \in Flows, openPopupWindow(f)
    PROVE LoginIInv'
<1> DEFINE r == [flows[f] EXCEPT !.pc = "waiting", !.state = NoState]
           w == [state |-> flows[f].state, open |-> TRUE]
<1>0. flows[f] \in FlowRecords /\ flows[f].state \in States /\ DOMAIN flows = Flows
  BY Zenon, UnderWay DEF openPopupWindow, Flow
<1>1. /\ flows' = [flows EXCEPT ![f] = r] /\ popups' = [popups EXCEPT ![f] = w]
      /\ UNCHANGED <<pendingStates, exchanges, relayed, loginTime>>
  BY <1>0, Zenon DEF openPopupWindow, Stores
<1>2. r \in FlowRecords /\ r.pc = "waiting"
  BY <1>0, Zenon DEF FlowRecords, FlowPcs
<1>3. GoodPopup(w)
  BY Zenon, <1>0 DEF GoodPopup
<1> HIDE DEF r, w
<1>4. GoodFlow(r) /\ \A s \in States : ~Holds(r, s)
  BY Zenon, <1>2 DEF GoodFlow, Holds
<1>5. GoodWindows(popups', relayed')
  BY Zenon, <1>1, <1>3 DEF LoginIInv, GoodWindows
<1> QED BY <1>1, <1>4, <1>5, FlowGoesOn, Zenon

(* Windows relay, close and go; no call moves.                             *)
LEMMA WindowsMove ==
    ASSUME LoginIInv, NEW f \in Flows,
           (\E error \in BOOLEAN : relayPopupCallback(f, error)) \/ PopupCloses(f)
    PROVE LoginIInv'
<1>1. UNCHANGED <<flows, pendingStates, exchanges, loginTime>>
  BY Zenon DEF relayPopupCallback, PopupCloses, Stores
<1>2. GoodWindows(popups', relayed')
  <2>1. ASSUME NEW error \in BOOLEAN, relayPopupCallback(f, error) PROVE GoodWindows(popups', relayed')
    <3>1. popups[f].state \in States
      BY <2>1, Zenon DEF relayPopupCallback, LoginIInv, GoodWindows, GoodPopup
    <3> QED BY <2>1, <3>1, SMTT(30) DEF relayPopupCallback, LoginIInv, GoodWindows
  <2>2. CASE PopupCloses(f)
    <3> DEFINE w == [popups[f] EXCEPT !.open = FALSE]
    <3>1. popups[f] \in [state : States \cup {NoState}, open : BOOLEAN] /\ DOMAIN popups = Flows
      BY Zenon DEF LoginIInv, GoodWindows, GoodPopup
    <3>2. GoodPopup(w) /\ GoodPopup(NoPopup)
      BY <3>1, Zenon DEF GoodPopup, NoPopup
    <3> HIDE DEF w
    <3>3. popups' \in {[popups EXCEPT ![f] = w], [popups EXCEPT ![f] = NoPopup]} /\ UNCHANGED relayed
      BY <2>2, <3>1, Zenon DEF PopupCloses, w
    <3> QED BY Zenon, <3>1, <3>2, <3>3 DEF LoginIInv, GoodWindows
  <2> QED BY Zenon, <2>1, <2>2
<1>3. Book'
  BY Zenon, <1>1 DEF LoginIInv, Book
<1> QED BY Zenon, <1>1, <1>2, <1>3 DEF LoginIInv

(* The message handler settles the calls that wait: none of them holds a   *)
(* state before or after.                                                  *)
LEMMA LoginHears ==
    ASSUME LoginIInv, NEW message \in relayed, OnMessage(message)
    PROVE LoginIInv'
<1>1. /\ \E fs : popups' = Forgotten(fs)
      /\ relayed' \subseteq relayed /\ UNCHANGED <<pendingStates, exchanges, loginTime>>
  BY Zenon DEF OnMessage, Stores
<1>2. message.state \in States
  BY Zenon DEF LoginIInv, GoodWindows
<1>3. ASSUME NEW f \in Flows
      PROVE GoodFlow(flows'[f]) /\ \A s \in States : Holds(flows'[f], s) => Holds(flows[f], s)
  <2>1. CASE flows[f].pc # "waiting"
    <3>1. flows'[f] = flows[f]
      BY Zenon, <2>1 DEF OnMessage, Flow
    <3> QED BY Zenon, <3>1 DEF LoginIInv, GoodFlows
  <2>2. CASE flows[f].pc = "waiting"
    <3> DEFINE r == [flows[f] EXCEPT !.pc = "callback", !.state = message.state]
    <3>1. flows[f] \in FlowRecords
      BY Zenon, <2>2, UnderWay
    <3>2. r \in FlowRecords /\ r.pc = "callback" /\ r.state \in States
      BY <1>2, <3>1, Zenon DEF FlowRecords, FlowPcs
    <3>3. flows'[f] \in {NoFlow, r}
      BY <2>2, Zenon DEF OnMessage, RelaySettled, Flow
    <3> HIDE DEF r
    <3> QED BY <3>2, <3>3, SMTT(30) DEF GoodFlow, Holds, NoFlow
  <2> QED BY Zenon, <2>1, <2>2
<1>4. GoodFlows(flows')
  BY Zenon, <1>3 DEF GoodFlows, OnMessage
<1>5. GoodWindows(popups', relayed')
  BY Zenon, <1>1, WindowsForgotten DEF LoginIInv, GoodWindows
<1>6. ASSUME NEW s \in States PROVE Placed(s, flows', pendingStates[s], exchanges[s])
  <2>1. Placed(s, flows, pendingStates[s], exchanges[s])
    BY Zenon DEF LoginIInv
  <2> QED BY Zenon, <1>3, <2>1 DEF Placed
<1>7. Book'
  BY Zenon, <1>1 DEF LoginIInv, Book
<1> QED BY Zenon, <1>1, <1>4, <1>5, <1>6, <1>7 DEF LoginIInv

(* A reload ends every call; the records stay in the session store.        *)
LEMMA LoginReloads ==
    ASSUME LoginIInv, PageReload
    PROVE LoginIInv'
<1>1. /\ flows' = [f \in Flows |-> NoFlow] /\ popups' = [f \in Flows |-> NoPopup] /\ relayed' = {}
      /\ UNCHANGED <<pendingStates, exchanges, loginTime>>
  BY Zenon DEF PageReload, Stores
<1>2. GoodFlows(flows') /\ \A f \in Flows : \A s \in States : ~Holds(flows'[f], s)
  BY Zenon, <1>1 DEF GoodFlows, GoodFlow, Holds, NoFlow
<1>3. GoodWindows(popups', relayed')
  BY Zenon, <1>1 DEF GoodWindows, GoodPopup, NoPopup
<1>4. ASSUME NEW s \in States PROVE Placed(s, flows', pendingStates[s], exchanges[s])
  <2>1. Placed(s, flows, pendingStates[s], exchanges[s])
    BY Zenon DEF LoginIInv
  <2> QED BY Zenon, <1>2, <2>1 DEF Placed
<1>5. Book'
  BY Zenon, <1>1 DEF LoginIInv, Book
<1> QED BY Zenon, <1>1, <1>2, <1>3, <1>4, <1>5 DEF LoginIInv

(* The steps of a call that move no record.                                *)
LEMMA LoginGoes ==
    ASSUME LoginIInv, NEW f \in Flows,
           \/ PollClosed(f) \/ RelayTimeout(f) \/ _loadConsumedState(f) \/ _takePendingState(f)
           \/ OwnPending(f) \/ FlowFails(f)
           \/ \E b \in BOOLEAN : ExchangeAnswers(f, b) \/ _performClaimsCheck(f, b)
    PROVE LoginIInv'
<1>0. UNCHANGED <<pendingStates, exchanges, loginTime>> /\ GoodWindows(popups, relayed)
  BY Zenon DEF PollClosed, RelayTimeout, _loadConsumedState, _takePendingState, OwnPending, FlowFails,
         ExchangeAnswers, _performClaimsCheck, Stores, LoginIInv
<1>1. CASE PollClosed(f)
  <2>1. GoodWindows(popups', relayed') /\ FlowEnds(f)
    BY <1>0, <1>1, WindowsForgotten, Zenon DEF PollClosed, GoodWindows
  <2> QED BY Zenon, <1>0, <2>1, FlowEnded
<1>2. CASE RelayTimeout(f)
  <2>1. GoodPopup(NoPopup)
    BY Zenon DEF GoodPopup, NoPopup
  <2>2. GoodWindows(popups', relayed') /\ FlowEnds(f)
    BY Zenon, <1>0, <1>2, <2>1 DEF RelayTimeout, GoodWindows
  <2> QED BY Zenon, <1>0, <2>2, FlowEnded
<1>3. ASSUME FlowEnds(f), UNCHANGED <<popups, relayed>> PROVE LoginIInv'
  BY Zenon, <1>0, <1>3, FlowEnded
<1>4. CASE _loadConsumedState(f)
  BY Zenon, <1>3, <1>4 DEF _loadConsumedState, Windows
<1>5. CASE _takePendingState(f)
  <2>1. CASE FlowEnds(f)
    BY <1>3, <1>5, <2>1, ZenonT(60) DEF _takePendingState, Windows
  <2>2. CASE Goes(f, "marked")
    BY <1>0, <1>5, <2>2, FlowGoes, Zenon DEF _takePendingState, Windows, Flow, FlowPcs
  <2> QED BY <1>5, <2>1, <2>2, Zenon DEF _takePendingState
<1>6. CASE OwnPending(f)
  <2>1. CASE FlowEnds(f)
    BY Zenon, <1>3, <1>6, <2>1 DEF OwnPending, Windows
  <2>2. CASE ~FlowEnds(f)
    BY <1>0, <1>6, <2>2, FlowGoes, Zenon DEF OwnPending, Windows, Flow, FlowPcs, Client
  <2> QED BY Zenon, <2>1, <2>2
<1>7. ASSUME NEW b \in BOOLEAN, ExchangeAnswers(f, b) PROVE LoginIInv'
  <2>1. CASE FlowEnds(f)
    BY Zenon, <1>3, <1>7, <2>1 DEF ExchangeAnswers, Windows
  <2>2. CASE ~FlowEnds(f)
    BY <1>0, <1>7, <2>2, FlowGoes, Zenon DEF ExchangeAnswers, Windows, Flow, FlowPcs
  <2> QED BY Zenon, <2>1, <2>2
<1>8. ASSUME NEW b \in BOOLEAN, _performClaimsCheck(f, b) PROVE LoginIInv'
  BY Zenon, <1>3, <1>8 DEF _performClaimsCheck, Windows
<1>9. CASE FlowFails(f)
  BY Zenon, <1>3, <1>9 DEF FlowFails, Windows
<1> QED BY Zenon, <1>1, <1>2, <1>4, <1>5, <1>6, <1>7, <1>8, <1>9

(* Both ways into the take: a callback page, and a relayed URL.            *)
LEMMA LoginCallsBack ==
    ASSUME LoginIInv, NEW f \in Flows,
           \/ \E c \in LoginClients, s \in States : handleCallback(f, c, s)
           \/ PopupCallback(f)
    PROVE LoginIInv'
<1>1. ASSUME NEW c \in LoginClients, NEW s \in States, handleCallback(f, c, s) PROVE LoginIInv'
  <2>1. CallbackFlow(c) \in FlowRecords
    BY Zenon DEF CallbackFlow, FlowRecords, FlowPcs, Records
  <2>2. /\ Take(f, s, CallbackFlow(c)) /\ UNCHANGED <<exchanges, popups, relayed, loginTime>>
        /\ \A t \in States : ~Holds(flows[f], t)
    BY <1>1, Zenon DEF handleCallback, Windows, Flow, Holds
  <2> QED BY Zenon, <2>1, <2>2, LoginTakes
<1>2. CASE PopupCallback(f)
  <2>1. flows[f] \in FlowRecords /\ flows[f].state \in States
    BY Zenon, <1>2, UnderWay DEF PopupCallback, Flow
  <2>2. /\ Take(f, flows[f].state, flows[f]) /\ UNCHANGED <<exchanges, popups, relayed, loginTime>>
        /\ \A t \in States : ~Holds(flows[f], t)
    BY Zenon, <1>2 DEF PopupCallback, Windows, Flow, Holds
  <2> QED BY Zenon, <2>1, <2>2, LoginTakes
<1> QED BY Zenon, <1>1, <1>2

(* One step of the logins.                                                 *)
LEMMA LoginStep ==
    ASSUME LoginIInv, [LoginNext]_loginVars
    PROVE LoginIInv'
<1>1. CASE LoginNext
  <2>1. ASSUME NEW f \in Flows, LoginFlowStep(f) PROVE LoginIInv'
    BY <2>1, LoginDraws, LoginSaves, LoginOpens, LoginCallsBack, LoginExchanges, LoginGoes, Zenon DEF LoginFlowStep
  <2>2. CASE (\E c \in LoginClients : LoginDispose(c)) \/ LoginTick
    BY <2>2, SMTT(30) DEF LoginDispose, LoginTick, Stores, Windows, LoginIInv, Book
  <2> QED BY <1>1, <2>1, <2>2, LoginStarts, LoginCallsBack, WindowsMove, LoginHears, LoginReloads, Zenon DEF LoginNext
<1>2. CASE UNCHANGED loginVars
  BY Zenon, <1>2 DEF loginVars, LoginIInv, Book
<1> QED BY Zenon, <1>1, <1>2

(* The code that comes with a state is exchanged at most once, by the      *)
(* client that asked for it: for any number of clients, calls, popups,     *)
(* reloads and states.                                                     *)
THEOREM OneExchange == LoginSpec => []OneExchangePerState
<1>1. LoginInit => LoginIInv
  <2> SUFFICES ASSUME LoginInit PROVE LoginIInv
    BY Zenon
  <2>1. GoodFlows(flows) /\ \A f \in Flows : \A s \in States : ~Holds(flows[f], s)
    BY ZenonT(60) DEF LoginInit, GoodFlows, GoodFlow, Holds, NoFlow
  <2>2. GoodWindows(popups, relayed)
    BY Zenon DEF LoginInit, GoodWindows, GoodPopup, NoPopup
  <2>3. Book /\ \A s \in States : pendingStates[s] = Nothing /\ exchanges[s].times = 0 /\ exchanges[s].own = TRUE
    BY Zenon DEF LoginInit, Book, Drawn, Records
  <2>4. \A s \in States : Placed(s, flows, pendingStates[s], exchanges[s])
    BY <2>1, <2>3, SMTT(30) DEF Placed
  <2> QED BY Zenon, <2>1, <2>2, <2>3, <2>4 DEF LoginIInv
<1>2. LoginIInv /\ [LoginNext]_loginVars => LoginIInv'
  BY Zenon, LoginStep
<1>3. LoginIInv => OneExchangePerState
  BY Zenon DEF LoginIInv, Placed, OneExchangePerState
<1> QED BY <1>1, <1>2, <1>3, PTL DEF LoginSpec
=============================================================================
