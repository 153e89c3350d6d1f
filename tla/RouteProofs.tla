---------------------------- MODULE RouteProofs ----------------------------
(***************************************************************************)
(* Proofs about the decisions a request or a route goes through: the       *)
(* requirement orchestrator, the web router and the guards of the          *)
(* frameworks' routers, the zones of basic auth, and the real-ip resolver. *)
(*                                                                         *)
(* The code loops over chains, zones and headers.  The models write a loop *)
(* as a recursive function; the first lemmas show that its values exist    *)
(* and that what a round keeps holds after all of them.  The induction is  *)
(* stated for sets, which stand for the predicates.                        *)
(***************************************************************************)
EXTENDS RouteOrchestrator, WebRouter, RouteGuards, BasicZones, Realip, TLAPS
LOCAL INSTANCE WellFoundedInduction

(* Every set of numbers that is not empty has a least element.             *)
LEMMA LeastNumber ==
    ASSUME NEW T, T \subseteq Nat, T # {}
    PROVE  \E m \in T : \A k \in T : m <= k
<1> DEFINE R == OpToRel(<, Nat)
<1>1. IsWellFoundedOn(R, Nat)
  BY Zenon, NatLessThanWellFounded
<1>2. \A j, k \in Nat : j < k => <<j, k>> \in R
  BY Zenon DEF OpToRel
<1> HIDE DEF R
<1>3. PICK m \in T : \A k \in T : ~(<<k, m>> \in R)
  BY <1>1, WFMin, Zenon
<1>4. ASSUME NEW k \in T PROVE m <= k
  <2>1. ~(k < m)
    BY <1>2, <1>3, Zenon
  <2> QED
    BY <2>1
<1> QED
  BY <1>4, Zenon

(* The rounds of a loop and the values between them.                       *)
LEMMA InLoop ==
    ASSUME NEW N \in Nat
    PROVE  /\ 0 \in 0..N /\ N \in 0..N
           /\ \A n \in 1..N : n \in 0..N /\ n - 1 \in 0..N /\ n # 0 /\ n \in Nat
           /\ \A n \in 0..N : n = 0 \/ n \in 1..N
  OBVIOUS

(* What holds at 0, and of a number when it holds of the one before, holds *)
(* up to the last number of the loop.                                      *)
LEMMA UpTo ==
    ASSUME NEW N \in Nat, NEW S, 0 \in S, \A n \in 1..N : n - 1 \in S => n \in S
    PROVE  \A n \in 0..N : n \in S
<1>1. SUFFICES ASSUME NEW n \in 0..N, n \notin S PROVE FALSE
  BY Zenon
<1> DEFINE T == {k \in 0..N : k \notin S}
<1>2. T \subseteq Nat /\ T # {}
  BY <1>1
<1>3. PICK m \in T : \A k \in T : m <= k
  <2> HIDE DEF T
  <2> QED
    BY <1>2, LeastNumber, Zenon
<1>4. m \in 1..N /\ m - 1 \in 0..N /\ ~(m <= m - 1)
  BY <1>3
<1>5. m - 1 \in S
  BY Zenon, <1>3, <1>4
<1> QED
  BY Zenon, <1>3, <1>4, <1>5

(* The values of a loop stay in a set that its body does not leave.        *)
LEMMA Reached ==
    ASSUME NEW A, NEW N \in Nat, NEW f, f[0] \in A,
           \A n \in 1..N : f[n - 1] \in A => f[n] \in A
    PROVE  \A n \in 0..N : f[n] \in A
<1> DEFINE S == {n \in 0..N : f[n] \in A}
<1>1. 0 \in S
  OBVIOUS
<1>2. ASSUME NEW n \in 1..N, n - 1 \in S PROVE n \in S
  BY <1>2
<1>3. \A n \in 0..N : n \in S
  <2> HIDE DEF S
  <2> QED
    BY <1>1, <1>2, UpTo, Zenon
<1> QED
  BY Zenon, <1>3

(* g runs a loop of N rounds over the values in A.                         *)
Iterates(g, A, N, base, h) ==
    g \in [0..N -> A] /\ g[0] = base /\ \A i \in 1..N : g[i] = h[i][g[i - 1]]

(* Such a loop has values: the recursive functions of the modules below    *)
(* are defined.                                                            *)
LEMMA Recursion ==
    ASSUME NEW A, NEW N \in Nat, NEW base \in A, NEW h \in [1..N -> [A -> A]]
    PROVE  \E g : Iterates(g, A, N, base, h)
<1> DEFINE P(n) == \E g \in [0..n -> A] :
                     g[0] = base /\ \A i \in 1..n : g[i] = h[i][g[i - 1]]
           S == {n \in Nat : P(n)}
<1>1. 0 \in S
  <2> DEFINE z == [i \in 0..0 |-> base]
  <2>1. z \in [0..0 -> A] /\ z[0] = base /\ \A i \in 1..0 : z[i] = h[i][z[i - 1]]
    OBVIOUS
  <2>2. P(0)
    <3> HIDE DEF z
    <3> QED
      BY Zenon, <2>1
  <2> QED
    BY Zenon, <2>2
<1>2. ASSUME NEW n \in 1..N, n - 1 \in S PROVE n \in S
  <2>1. PICK g \in [0..(n - 1) -> A] :
           g[0] = base /\ \A i \in 1..(n - 1) : g[i] = h[i][g[i - 1]]
    BY Zenon, <1>2
  <2> DEFINE e == [i \in 0..n |-> IF i = n THEN h[n][g[n - 1]] ELSE g[i]]
  <2>2. h[n][g[n - 1]] \in A
    BY <2>1
  <2>3. e \in [0..n -> A]
    BY <2>1, <2>2
  <2>4. e[0] = base
    BY <2>1
  <2>5. ASSUME NEW i \in 1..n PROVE e[i] = h[i][e[i - 1]]
    BY <2>1
  <2>6. P(n)
    <3> HIDE DEF e
    <3> QED
      BY Zenon, <2>3, <2>4, <2>5
  <2> QED
    BY <2>6
<1>3. N \in S
  <2> HIDE DEF S
  <2>1. \A n \in 0..N : n \in S
    BY <1>1, <1>2, UpTo, Zenon
  <2> QED
    BY <2>1
<1> QED
  BY Zenon, <1>3 DEF Iterates

(* Lists of requirements that name no id twice.                            *)
Unique(R) == {s \in Seq(R) : \A i, j \in 1..Len(s) : s[i].id = s[j].id => i = j}

(* A requirement with an id of its own may follow such a list.             *)
LEMMA AppendUnique ==
    ASSUME NEW R, NEW s \in Unique(R), NEW r \in R, \A i \in 1..Len(s) : s[i].id # r.id
    PROVE  Append(s, r) \in Unique(R)
<1> DEFINE longer == Append(s, r)
<1>1. s \in Seq(R) /\ \A i, j \in 1..Len(s) : s[i].id = s[j].id => i = j
  BY Zenon DEF Unique
<1>2. /\ longer \in Seq(R) /\ Len(s) \in Nat /\ Len(longer) = Len(s) + 1
      /\ longer[Len(s) + 1] = r
      /\ \A i \in 1..Len(s) : longer[i] = s[i]
  BY <1>1
<1> HIDE DEF longer
<1>3. \A i \in 1..Len(longer) : i \in 1..Len(s) \/ i = Len(s) + 1
  BY <1>2
<1>4. \A i, j \in 1..Len(longer) : longer[i].id = longer[j].id => i = j
  BY <1>1, <1>2, <1>3, Zenon
<1>5. longer \in Unique(R)
  BY <1>2, <1>4, Zenon DEF Unique
<1> QED
  BY <1>5, Zenon DEF longer

-----------------------------------------------------------------------------
(* The route orchestrator *)

(* A requirement is pushed unless its id has been seen: no id is lost, and *)
(* none is there twice.                                                    *)
LEMMA PushUnseenKeeps ==
    ASSUME NEW R, NEW merged \in Unique(R), NEW r \in R
    PROVE  PushUnseen(merged, r) \in Unique(R)
<1>1. merged \in Seq(R) /\ \A i, j \in 1..Len(merged) : merged[i].id = merged[j].id => i = j
  BY Zenon DEF Unique
<1>2. CASE r.id \in Ids(merged)
  BY <1>2, Zenon DEF PushUnseen
<1>3. CASE r.id \notin Ids(merged)
  <2>1. \A i \in 1..Len(merged) : merged[i].id # r.id
    BY <1>1, <1>3 DEF Ids
  <2> QED
    BY <1>3, <2>1, AppendUnique, Zenon DEF PushUnseen
<1> QED
  BY <1>2, <1>3, Zenon

(* The inner loop of mergeChainRequirements: lists without an id twice     *)
(* stay such.                                                              *)
LEMMA MergeNodeSteps ==
    ASSUME NEW R, NEW merged \in Unique(R), NEW requirements \in Seq(R)
    PROVE  \E f \in [0..Len(requirements) -> Unique(R)] :
             /\ f[0] = merged
             /\ \A i \in 1..Len(requirements) : f[i] = PushUnseen(f[i - 1], requirements[i])
             /\ mergeNodeRequirements(merged, requirements) = f[Len(requirements)]
<1> DEFINE top == Len(requirements)
           A == Unique(R)
           Body(g) == [i \in 0..top |-> IF i = 0 THEN merged ELSE PushUnseen(g[i - 1], requirements[i])]
           h == [i \in 1..top |-> [s \in A |-> PushUnseen(s, requirements[i])]]
           f == CHOOSE g : g = Body(g)
<1>1. top \in Nat /\ merged \in A
  OBVIOUS
<1>2. \A i \in 1..top : \A s \in A : PushUnseen(s, requirements[i]) \in A
  BY PushUnseenKeeps
<1>3. h \in [1..top -> [A -> A]]
  BY <1>2, Zenon
<1>4. PICK g : Iterates(g, A, top, merged, h)
  <2> HIDE DEF top, A, h
  <2> QED
    BY <1>1, <1>3, Recursion, Zenon
<1>5. g = Body(g)
  <2>1. ASSUME NEW i \in 1..top PROVE g[i] = PushUnseen(g[i - 1], requirements[i])
    <3>1. i - 1 \in 0..top
      <4> HIDE DEF top
      <4> QED
        BY <1>1
    <3>2. g[i - 1] \in A /\ g[i] = h[i][g[i - 1]]
      BY <3>1, <1>4, Zenon DEF Iterates
    <3> HIDE DEF top, A
    <3> QED
      BY <3>2, Zenon
  <2> HIDE DEF top, A
  <2> QED
    BY <2>1, <1>1, <1>4 DEF Iterates
<1>6. f = Body(f)
  <2> HIDE DEF Body
  <2> QED
    BY <1>5, Zenon
<1>7. mergeNodeRequirements(merged, requirements) = f[top]
  BY Zenon DEF mergeNodeRequirements
<1> HIDE DEF f
<1>8. f[0] = merged /\ \A i \in 1..top : f[i] = PushUnseen(f[i - 1], requirements[i])
  <2> HIDE DEF top, A
  <2>1. 0 \in 0..top /\ \A i \in 1..top : i \in 0..top /\ i # 0
    BY <1>1
  <2> QED
    BY <1>6, <2>1, Zenon
<1>9. \A i \in 0..top : f[i] \in A
  <2>1. ASSUME NEW n \in 1..top, f[n - 1] \in A PROVE f[n] \in A
    BY <1>2, <2>1, <1>8, Zenon
  <2> HIDE DEF top, A
  <2> QED
    BY <2>1, <1>8, Reached, <1>1, Zenon
<1>10. f \in [0..top -> A]
  <2> HIDE DEF top, A
  <2> QED
    BY Zenon, <1>9, <1>6
<1> QED
  BY <1>7, <1>8, <1>10, Zenon

(* Its result.                                                             *)
LEMMA MergeNodeUnique ==
    ASSUME NEW R, NEW merged \in Unique(R), NEW requirements \in Seq(R)
    PROVE  mergeNodeRequirements(merged, requirements) \in Unique(R)
<1>1. PICK f \in [0..Len(requirements) -> Unique(R)] :
         /\ f[0] = merged
         /\ \A i \in 1..Len(requirements) : f[i] = PushUnseen(f[i - 1], requirements[i])
         /\ mergeNodeRequirements(merged, requirements) = f[Len(requirements)]
  <2>1. merged \in Unique(R) /\ requirements \in Seq(R)
    BY Zenon
  <2> QED
    BY <2>1, MergeNodeSteps
<1> QED
  BY <1>1

(* The outer loop.                                                         *)
LEMMA MergeChainSteps ==
    ASSUME NEW R, NEW chain, chain.nodes \in Seq(Seq(R))
    PROVE  \E f \in [0..Len(chain.nodes) -> Unique(R)] :
             /\ f[0] = << >>
             /\ \A i \in 1..Len(chain.nodes) : f[i] = mergeNodeRequirements(f[i - 1], chain.nodes[i])
             /\ mergeChainRequirements(chain) = f[Len(chain.nodes)]
<1> DEFINE top == Len(chain.nodes)
           A == Unique(R)
           Body(g) == [i \in 0..top |-> IF i = 0 THEN << >> ELSE mergeNodeRequirements(g[i - 1], chain.nodes[i])]
           h == [i \in 1..top |-> [s \in A |-> mergeNodeRequirements(s, chain.nodes[i])]]
           f == CHOOSE g : g = Body(g)
<1>1. top \in Nat /\ << >> \in A
  BY DEF Unique
<1>2. \A i \in 1..top : \A s \in A : mergeNodeRequirements(s, chain.nodes[i]) \in A
  BY MergeNodeUnique
<1>3. h \in [1..top -> [A -> A]]
  BY <1>2, Zenon
<1>4. PICK g : Iterates(g, A, top, << >>, h)
  <2> HIDE DEF top, A, h
  <2> QED
    BY <1>1, <1>3, Recursion, Zenon
<1>5. g = Body(g)
  <2>1. ASSUME NEW i \in 1..top PROVE g[i] = mergeNodeRequirements(g[i - 1], chain.nodes[i])
    <3>1. i - 1 \in 0..top
      <4> HIDE DEF top
      <4> QED
        BY <1>1
    <3>2. g[i - 1] \in A /\ g[i] = h[i][g[i - 1]]
      BY <3>1, <1>4, Zenon DEF Iterates
    <3> HIDE DEF top, A
    <3> QED
      BY <3>2, Zenon
  <2> HIDE DEF top, A
  <2> QED
    BY <2>1, <1>1, <1>4 DEF Iterates
<1>6. f = Body(f)
  <2> HIDE DEF Body
  <2> QED
    BY <1>5, Zenon
<1>7. mergeChainRequirements(chain) = f[top]
  BY Zenon DEF mergeChainRequirements
<1> HIDE DEF f
<1>8. f[0] = << >> /\ \A i \in 1..top : f[i] = mergeNodeRequirements(f[i - 1], chain.nodes[i])
  <2> HIDE DEF top, A
  <2>1. 0 \in 0..top /\ \A i \in 1..top : i \in 0..top /\ i # 0
    BY <1>1
  <2> QED
    BY <1>6, <2>1, Zenon
<1>9. \A i \in 0..top : f[i] \in A
  <2>1. ASSUME NEW n \in 1..top, f[n - 1] \in A PROVE f[n] \in A
    BY <1>2, <2>1, <1>8, Zenon
  <2> HIDE DEF top, A
  <2> QED
    BY <2>1, <1>8, Reached, <1>1, Zenon
<1>10. f \in [0..top -> A]
  <2> HIDE DEF top, A
  <2> QED
    BY Zenon, <1>9, <1>6
<1> QED
  BY <1>7, <1>8, <1>10, Zenon

(* A plan names every requirement once.                                    *)
LEMMA MergeChainUnique ==
    ASSUME NEW R, NEW chain, chain.nodes \in Seq(Seq(R))
    PROVE  mergeChainRequirements(chain) \in Unique(R)
<1>1. PICK f \in [0..Len(chain.nodes) -> Unique(R)] :
         mergeChainRequirements(chain) = f[Len(chain.nodes)]
  BY MergeChainSteps, Zenon
<1> QED
  BY <1>1

(* sharedPrefixLength finds a prefix that both plans have.                 *)
LEMMA SharedPrefix ==
    ASSUME NEW R, NEW old \in Seq(R), NEW new \in Seq(R), NEW n, n = sharedPrefixLength(old, new)
    PROVE  n \in 0..Len(old) /\ n <= Len(new) /\ \A i \in 1..n : old[i] = new[i]
<1> DEFINE T == {k \in 0..Len(old) :
                   k <= Len(new) /\ (k < Len(old) /\ k < Len(new) => old[k + 1] # new[k + 1])}
           Fits(k) == /\ k <= Len(new) /\ \A i \in 1..k : old[i] = new[i]
                      /\ k < Len(old) /\ k < Len(new) => old[k + 1] # new[k + 1]
<1>1. T \subseteq Nat /\ T # {}
  <2>1. CASE Len(old) <= Len(new)
    <3>1. Len(old) \in T
      BY <2>1
    <3> QED
      BY <3>1
  <2>2. CASE Len(new) < Len(old)
    <3>1. Len(new) \in T
      BY <2>2
    <3> QED
      BY <3>1
  <2> QED
    BY <2>1, <2>2
<1>2. PICK m \in T : \A k \in T : m <= k
  <2> HIDE DEF T
  <2> QED
    BY <1>1, LeastNumber, Zenon
<1>3. ASSUME NEW i \in 1..m PROVE old[i] = new[i]
  <2>1. i - 1 \in 0..Len(old) /\ i - 1 < Len(old) /\ i - 1 < Len(new) /\ ~(m <= i - 1)
    BY <1>2
  <2>2. i - 1 \notin T
    <3> HIDE DEF T
    <3> QED
      BY <1>2, <2>1, Zenon
  <2> QED
    BY <2>1, <2>2
<1>4. m \in 0..Len(old) /\ Fits(m)
  BY Zenon, <1>2, <1>3
<1>5. n \in 0..Len(old) /\ Fits(n)
  <2>1. n = CHOOSE k \in 0..Len(old) : Fits(k)
    BY Zenon DEF sharedPrefixLength
  <2> HIDE DEF Fits
  <2> QED
    BY <1>4, <2>1, Zenon
<1> QED
  BY Zenon, <1>5


(* Requirements that occur, and what can be answered to them.              *)
Planable == UNION {RequirementsOf(c) : c \in Chains}
AnswerRecords == [id : {r.id : r \in Planable}, kind : {r.kind : r \in Planable}, status : Statuses]

(* The last callback is about the state that is current, whichever calls   *)
(* still wait for callbacks.                                               *)
ToldIsCurrent ==
    Planned =>
        told = IF Settled
               THEN [callback |-> "settled", route |-> route, answers |-> answers]
               ELSE [callback |-> "pending", requirement |-> NextPending]

OrchestratorIInv ==
    /\ plan \in Unique(Planable) /\ answers \in Seq(AnswerRecords)
    /\ AnswersBelong
    /\ ToldIsCurrent

(* A plan is made of the requirements of the chain.                        *)
LEMMA PlanOfChain ==
    ASSUME NEW chain \in Chains
    PROVE  mergeChainRequirements(chain) \in Unique(Planable)
<1>1. chain.nodes \in Seq(Seq(RequirementsOf(chain)))
  BY Zenon, ChainsAssumption
<1>2. RequirementsOf(chain) \subseteq Planable
  BY Zenon DEF Planable
<1>3. chain.nodes \in Seq(Seq(Planable))
  <2> HIDE DEF Planable, RequirementsOf
  <2> QED
    BY <1>1, <1>2
<1> QED
  BY <1>3, MergeChainUnique, Zenon

(* Whatever is carried over stays with its requirement.                    *)
LEMMA ActivateKeeps ==
    ASSUME OrchestratorIInv, NEW chain \in Chains, ActivateMatchedRoutes(chain)
    PROVE  OrchestratorIInv'
<1> DEFINE merged == mergeChainRequirements(chain)
           shared == sharedPrefixLength(plan, merged)
           kept == IF shared < Len(answers) THEN shared ELSE Len(answers)
<1>1. merged \in Unique(Planable) /\ merged \in Seq(Planable)
  BY Zenon, PlanOfChain DEF Unique
<1>2. plan \in Seq(Planable) /\ answers \in Seq(AnswerRecords) /\ AnswersBelong
  BY Zenon DEF OrchestratorIInv, Unique
<1>3. shared \in 0..Len(plan) /\ shared <= Len(merged) /\ \A i \in 1..shared : plan[i] = merged[i]
  <2>1. plan \in Seq(Planable) /\ merged \in Seq(Planable)
    BY <1>1, <1>2, Zenon
  <2> HIDE DEF merged
  <2>2. PICK n : n = sharedPrefixLength(plan, merged)
    OBVIOUS
  <2>3. n \in 0..Len(plan) /\ n <= Len(merged) /\ \A i \in 1..n : plan[i] = merged[i]
    BY <2>1, <2>2, SharedPrefix
  <2> QED
    BY <2>2, <2>3, Zenon
<1>4. plan' = merged /\ answers' = SubSeq(answers, 1, kept) /\ route' = chain.route
  BY Zenon DEF ActivateMatchedRoutes
<1>5. told' = IF Settled' THEN [callback |-> "settled", route |-> route', answers |-> answers']
              ELSE [callback |-> "pending", requirement |-> NextPending']
  BY Zenon DEF ActivateMatchedRoutes, TellSettled, TellPending
<1> HIDE DEF merged, shared
<1>6. kept \in 0..Len(answers) /\ kept <= shared
  BY <1>2, <1>3
<1> HIDE DEF kept
<1>7. answers' \in Seq(AnswerRecords) /\ Len(answers') = kept /\ \A i \in 1..kept : answers'[i] = answers[i]
  BY <1>2, <1>4, <1>6
<1>8. AnswersBelong'
  <2>1. Len(answers') <= Len(plan') /\ DOMAIN answers' = 1..kept
    BY <1>1, <1>2, <1>3, <1>4, <1>6, <1>7
  <2>2. ASSUME NEW i \in 1..kept PROVE i \in DOMAIN answers /\ i \in 1..shared
    BY <1>2, <1>3, <1>6
  <2>3. ASSUME NEW i \in 1..kept
        PROVE  answers'[i].id = plan'[i].id /\ answers'[i].kind = plan'[i].kind
    <3>1. answers'[i] = answers[i] /\ plan'[i] = plan[i]
      BY <1>3, <1>4, <1>7, <2>2, Zenon
    <3> QED
      BY <1>2, <2>2, <3>1, Zenon DEF AnswersBelong
  <2> QED
    BY <2>1, <2>3, Zenon DEF AnswersBelong
<1>9. ToldIsCurrent'
  BY <1>5, Zenon DEF ToldIsCurrent
<1> QED
  BY <1>1, <1>4, <1>7, <1>8, <1>9, Zenon DEF OrchestratorIInv

(* An answer goes to the requirement that is next.                         *)
LEMMA ResolveKeeps ==
    ASSUME OrchestratorIInv, NEW status \in Statuses, Planned, ~Settled,
           Resolve(NextPending.id, status)
    PROVE  OrchestratorIInv'
<1> DEFINE given == [id |-> NextPending.id, kind |-> NextPending.kind, status |-> status]
<1>1. plan \in Seq(Planable) /\ answers \in Seq(AnswerRecords) /\ AnswersBelong /\ plan \in Unique(Planable)
  BY Zenon DEF OrchestratorIInv, Unique
<1>2. Len(answers) + 1 \in 1..Len(plan)
  BY <1>1 DEF AnswersBelong, Settled
<1>3. given \in AnswerRecords
  <2>1. NextPending \in Planable
    BY <1>1, <1>2 DEF NextPending
  <2> HIDE DEF Planable
  <2> QED
    BY Zenon, <2>1 DEF AnswerRecords
<1>4. answers' = Append(answers, given) /\ plan' = plan /\ route' = route
  BY Zenon DEF Resolve
<1>5. told' = IF Settled' THEN [callback |-> "settled", route |-> route', answers |-> answers']
              ELSE [callback |-> "pending", requirement |-> NextPending']
  BY Zenon DEF Resolve, TellSettled, TellPending
<1>6. given.id = plan[Len(answers) + 1].id /\ given.kind = plan[Len(answers) + 1].kind
  BY Zenon DEF NextPending
<1> HIDE DEF given
<1>7. AnswersBelong'
  BY <1>1, <1>2, <1>4, <1>6 DEF AnswersBelong
<1>8. ToldIsCurrent'
  BY <1>5, Zenon DEF ToldIsCurrent
<1>9. answers' \in Seq(AnswerRecords)
  BY <1>1, <1>3, <1>4
<1> QED
  BY <1>1, <1>4, <1>7, <1>8, <1>9, Zenon DEF OrchestratorIInv

(* Without a plan nothing is left to settle.                               *)
LEMMA NoPlanGood ==
    ASSUME plan' = << >>, answers' = << >>
    PROVE  OrchestratorIInv'
  BY DEF OrchestratorIInv, AnswersBelong, ToldIsCurrent, Planned, Unique

(* A callback that returns changes no plan, and what it tells is current.  *)
LEMMA ReturnKeeps ==
    ASSUME OrchestratorIInv, UNCHANGED <<route, plan, answers>>,
           \/ told' = told
           \/ Settled /\ told' = [callback |-> "settled", route |-> route', answers |-> answers']
           \/ ~Settled /\ told' = [callback |-> "pending", requirement |-> NextPending']
    PROVE  OrchestratorIInv'
<1>1. AnswersBelong'
  BY Zenon DEF OrchestratorIInv, AnswersBelong
<1>2. ToldIsCurrent'
  BY Zenon DEF OrchestratorIInv, ToldIsCurrent, Planned, Settled, NextPending
<1> QED
  BY <1>1, <1>2, Zenon DEF OrchestratorIInv

(* Answers stay with their requirements, and the host knows where things   *)
(* stand, through route changes, answers, reentrant calls and exceptions   *)
(* of the orchestrator's callbacks: for all chains and depths of calls.    *)
THEOREM RequirementsSettledOnce == OrchestratorSpec => []RequirementsAreSettledOnce
<1>1. OrchestratorInit => OrchestratorIInv
  BY DEF OrchestratorInit, OrchestratorIInv, AnswersBelong, ToldIsCurrent, Planned, Unique
<1>2. OrchestratorIInv /\ [OrchestratorNext]_orchestratorVars => OrchestratorIInv'
  <2> SUFFICES ASSUME OrchestratorIInv, [OrchestratorNext]_orchestratorVars PROVE OrchestratorIInv'
    BY Zenon
  <2>1. ASSUME NEW chain \in Chains, ActivateNothing(chain) PROVE OrchestratorIInv'
    BY <2>1, NoPlanGood, Zenon DEF ActivateNothing
  <2>2. ASSUME NEW chain \in Chains, ActivateMatchedRoutes(chain) PROVE OrchestratorIInv'
    BY <2>2, ActivateKeeps, Zenon
  <2>3. ASSUME NEW status \in Statuses, Planned, ~Settled, Resolve(NextPending.id, status)
        PROVE OrchestratorIInv'
    BY <2>3, ResolveKeeps, Zenon
  <2>4. ASSUME NEW id, ApplyChooserDecision(id) PROVE OrchestratorIInv'
    BY <2>4, ReturnKeeps, Zenon DEF ApplyChooserDecision
  <2>5. CASE DeactivateRoute
    BY <2>5, NoPlanGood, Zenon DEF DeactivateRoute
  <2>6. CASE ReturnToActivating
    BY <2>6, ReturnKeeps, Zenon DEF ReturnToActivating, TellSettled, Leave
  <2>7. CASE ReturnToResolving
    <3>1. CASE Settled
      <4>1. told' = told /\ UNCHANGED <<route, plan, answers>>
        BY Zenon, <2>7, <3>1 DEF ReturnToResolving, Leave, Settled
      <4> QED
        BY <4>1, ReturnKeeps, Zenon
    <3>2. CASE ~Settled
      <4>1. \/ told' = told
            \/ told' = [callback |-> "pending", requirement |-> NextPending']
        BY Zenon, <2>7, <3>2 DEF ReturnToResolving, TellPending
      <4>2. UNCHANGED <<route, plan, answers>>
        BY <2>7, Zenon DEF ReturnToResolving
      <4> QED
        BY <3>2, <4>1, <4>2, ReturnKeeps, Zenon
    <3> QED
      BY <3>1, <3>2, Zenon
  <2>8. CASE ReturnToEnd
    BY <2>8, ReturnKeeps, Zenon DEF ReturnToEnd, Leave
  <2>9. CASE CallbackThrows
    BY <2>9, ReturnKeeps, Zenon DEF CallbackThrows
  <2>10. CASE UNCHANGED orchestratorVars
    BY <2>10, ReturnKeeps, Zenon DEF orchestratorVars
  <2> QED
    BY <2>1, <2>2, <2>3, <2>4, <2>5, <2>6, <2>7, <2>8, <2>9, <2>10, Zenon DEF OrchestratorNext
<1>3. OrchestratorIInv => RequirementsAreSettledOnce
  BY Zenon DEF OrchestratorIInv, RequirementsAreSettledOnce, HostIsTold, ToldIsCurrent
<1> QED
  BY <1>1, <1>2, <1>3, PTL DEF OrchestratorSpec

-----------------------------------------------------------------------------
(* The web router *)

OptionsOf(chain) == UNION {chain[i].requirements : i \in DOMAIN chain}

(* What RoutesAssumption says of the chain of a URL.                       *)
GoodRoute(chain) ==
    /\ DOMAIN chain = 1..Len(chain) /\ Len(chain) \in Nat
    /\ \A i \in 1..Len(chain) :
         /\ chain[i].composition \in {"inherit", "merge", "replace"}
         /\ \A o, p \in chain[i].requirements : o.id = p.id => o = p

(* Counts and Required, looking at the first k segments only.              *)
CountsIn(chain, k, i) ==
    /\ chain[i].composition # "inherit"
    /\ \A j \in 1..k : j > i => chain[j].composition # "replace"

RequiredIn(chain, k) ==
    {o \in OptionsOf(chain) :
        \E i \in 1..k :
            /\ CountsIn(chain, k, i) /\ o \in chain[i].requirements
            /\ \A j \in 1..k :
                 j > i /\ CountsIn(chain, k, j) => o.id \notin OptionIds(chain[j].requirements)}

(* The loop of extractFullRouteRequirements over the segments.             *)
LEMMA ExtractSteps ==
    ASSUME NEW chain, GoodRoute(chain)
    PROVE  \E f \in [0..Len(chain) -> SUBSET OptionsOf(chain)] :
             /\ f[0] = {}
             /\ \A i \in 1..Len(chain) : f[i] = resolveEffectiveClientSet(f[i - 1], chain[i])
             /\ extractFullRouteRequirements(chain) = f[Len(chain)]
<1> DEFINE top == Len(chain)
           A == SUBSET OptionsOf(chain)
           Body(g) == [i \in 0..top |-> IF i = 0 THEN {} ELSE resolveEffectiveClientSet(g[i - 1], chain[i])]
           h == [i \in 1..top |-> [s \in A |-> resolveEffectiveClientSet(s, chain[i])]]
           f == CHOOSE g : g = Body(g)
<1>1. top \in Nat /\ {} \in A
  BY Zenon DEF GoodRoute
<1>2. \A i \in 1..top : \A s \in A : resolveEffectiveClientSet(s, chain[i]) \in A
  <2> SUFFICES ASSUME NEW i \in 1..top, NEW s \in A
               PROVE resolveEffectiveClientSet(s, chain[i]) \in A
    BY Zenon
  <2>1. chain[i].requirements \subseteq OptionsOf(chain)
    BY Zenon DEF GoodRoute, OptionsOf
  <2>2. chain[i].composition \in {"inherit", "merge", "replace"}
    BY Zenon DEF GoodRoute
  <2> QED
    BY Zenon, <2>1, <2>2 DEF resolveEffectiveClientSet
<1>3. h \in [1..top -> [A -> A]]
  BY <1>2, Zenon
<1>4. PICK g : Iterates(g, A, top, {}, h)
  <2> HIDE DEF top, A, h
  <2> QED
    BY <1>1, <1>3, Recursion, Zenon
<1>5. g = Body(g)
  <2>1. ASSUME NEW i \in 1..top PROVE g[i] = resolveEffectiveClientSet(g[i - 1], chain[i])
    <3>1. i - 1 \in 0..top
      <4> HIDE DEF top
      <4> QED
        BY <1>1
    <3>2. g[i - 1] \in A /\ g[i] = h[i][g[i - 1]]
      BY <3>1, <1>4, Zenon DEF Iterates
    <3> HIDE DEF top, A
    <3> QED
      BY <3>2, Zenon
  <2> HIDE DEF top, A
  <2> QED
    BY <2>1, <1>1, <1>4 DEF Iterates
<1>6. f = Body(f)
  <2> HIDE DEF Body
  <2> QED
    BY <1>5, Zenon
<1>7. extractFullRouteRequirements(chain) = f[top]
  BY Zenon DEF extractFullRouteRequirements
<1> HIDE DEF f
<1>8. f[0] = {} /\ \A i \in 1..top : f[i] = resolveEffectiveClientSet(f[i - 1], chain[i])
  <2>1. \A i \in 0..top :
           f[i] = IF i = 0 THEN {} ELSE resolveEffectiveClientSet(f[i - 1], chain[i])
    BY <1>6, Zenon
  <2> HIDE DEF top
  <2> QED
    BY <1>1, <2>1, InLoop, Zenon
<1>9. \A i \in 0..top : f[i] \in A
  <2>1. ASSUME NEW n \in 1..top, f[n - 1] \in A PROVE f[n] \in A
    BY <1>2, <2>1, <1>8, Zenon
  <2> HIDE DEF top, A
  <2> QED
    <3>1. f[0] \in A
      BY <1>1, <1>8, Zenon
    <3> QED
      BY <1>1, <2>1, <3>1, Reached, Zenon
<1>10. f \in [0..top -> A]
  <2> HIDE DEF top, A
  <2> QED
    BY Zenon, <1>9, <1>6
<1> QED
  BY <1>7, <1>8, <1>10, Zenon

(* One more segment: what resolveEffectiveClientSet makes of the options   *)
(* required so far is what is required with it.                            *)
LEMMA OneMoreSegment ==
    ASSUME NEW chain, GoodRoute(chain), NEW k \in 1..Len(chain)
    PROVE  resolveEffectiveClientSet(RequiredIn(chain, k - 1), chain[k]) = RequiredIn(chain, k)
<1> DEFINE before == RequiredIn(chain, k - 1)
           own == chain[k].requirements
<1>0. k \in Nat /\ k - 1 \in Nat /\ 1..k = 1..(k - 1) \cup {k} /\ own \subseteq OptionsOf(chain)
  BY DEF GoodRoute, OptionsOf
<1>1. CASE chain[k].composition = "inherit"
  <2>1. \A i \in 1..k : CountsIn(chain, k, i) <=> i # k /\ CountsIn(chain, k - 1, i)
    BY Zenon, <1>0, <1>1 DEF CountsIn
  <2>2. RequiredIn(chain, k) = before
    BY <1>0, <2>1 DEF RequiredIn
  <2> QED
    BY Zenon, <2>2, <1>1 DEF resolveEffectiveClientSet
<1>2. CASE chain[k].composition = "replace"
  <2>1. \A i \in 1..k : CountsIn(chain, k, i) <=> i = k
    BY <1>0, <1>2 DEF CountsIn
  <2>2. RequiredIn(chain, k) = own
    BY <1>0, <2>1 DEF RequiredIn
  <2> QED
    BY Zenon, <2>2, <1>2 DEF resolveEffectiveClientSet
<1>3. CASE chain[k].composition = "merge"
  <2>1. CountsIn(chain, k, k) /\ \A i \in 1..(k - 1) : CountsIn(chain, k, i) <=> CountsIn(chain, k - 1, i)
    BY <1>0, <1>3 DEF CountsIn
  <2>2. ASSUME NEW o \in RequiredIn(chain, k), o \notin own
        PROVE o \in before /\ o.id \notin OptionIds(own)
    BY <1>0, <2>1, <2>2 DEF RequiredIn
  <2>3. ASSUME NEW o \in before, o.id \notin OptionIds(own) PROVE o \in RequiredIn(chain, k)
    BY Zenon, <1>0, <2>1, <2>3 DEF RequiredIn
  <2>4. own \subseteq RequiredIn(chain, k)
    BY <1>0, <2>1 DEF RequiredIn
  <2>5. RequiredIn(chain, k) = {o \in before : o.id \notin OptionIds(own)} \cup own
    <3> HIDE DEF before, own
    <3> QED
      BY Zenon, <2>2, <2>3, <2>4
  <2> QED
    BY Zenon, <2>5, <1>3 DEF resolveEffectiveClientSet
<1> QED
  BY Zenon, <1>1, <1>2, <1>3 DEF GoodRoute

(* The options that the loop extracts from the chain of segments are those *)
(* that the segments require as declared: each id from its deepest segment *)
(* that counts, and nothing else.                                          *)
LEMMA ExtractedIsRequired ==
    ASSUME NEW u \in Pages
    PROVE  extractFullRouteRequirements(Routes[u]) = Required(Routes[u])
<1> DEFINE chain == Routes[u]
<1>1. GoodRoute(chain)
  <2>1. chain \in Seq({chain[i] : i \in DOMAIN chain})
    BY Zenon, RoutesAssumption
  <2>2. DOMAIN chain = 1..Len(chain) /\ Len(chain) \in Nat
    <3> HIDE DEF chain
    <3> QED
      BY <2>1
  <2> QED
    <3>1. \A i \in DOMAIN chain :
             /\ chain[i].composition \in {"inherit", "merge", "replace"}
             /\ \A o, p \in chain[i].requirements :
                  o.client \in Clients /\ (o.id = p.id => o = p)
      BY RoutesAssumption, Zenon
    <3> HIDE DEF chain
    <3> QED
      BY <2>2, <3>1, Zenon DEF GoodRoute
<1> HIDE DEF chain
<1>2. PICK f \in [0..Len(chain) -> SUBSET OptionsOf(chain)] :
         /\ f[0] = {}
         /\ \A i \in 1..Len(chain) : f[i] = resolveEffectiveClientSet(f[i - 1], chain[i])
         /\ extractFullRouteRequirements(chain) = f[Len(chain)]
  BY <1>1, ExtractSteps, Zenon
<1> DEFINE S == {n \in 0..Len(chain) : f[n] = RequiredIn(chain, n)}
<1>3. Len(chain) \in Nat
  BY Zenon, <1>1 DEF GoodRoute
<1>4. 0 \in S
  <2>1. RequiredIn(chain, 0) = {}
    BY DEF RequiredIn
  <2> QED
    BY <2>1, <1>2, <1>3, InLoop, Zenon
<1>5. ASSUME NEW n \in 1..Len(chain), n - 1 \in S PROVE n \in S
  <2>1. f[n] = resolveEffectiveClientSet(RequiredIn(chain, n - 1), chain[n])
    BY <1>2, <1>5, Zenon
  <2>2. f[n] = RequiredIn(chain, n)
    BY <1>1, <2>1, OneMoreSegment, Zenon
  <2> QED
    BY <1>3, <2>2
<1>6. \A n \in 0..Len(chain) : n \in S
  <2> HIDE DEF S
  <2> QED
    BY <1>3, <1>4, <1>5, UpTo, Zenon
<1>7. extractFullRouteRequirements(chain) = RequiredIn(chain, Len(chain))
  BY <1>2, <1>3, <1>6
<1>8. RequiredIn(chain, Len(chain)) = Required(chain)
  <2>1. DOMAIN chain = 1..Len(chain)
    BY Zenon, <1>1 DEF GoodRoute
  <2> QED
    BY <2>1, Zenon DEF RequiredIn, Required, CountsIn, Counts, OptionsOf
<1> QED
  BY <1>7, <1>8, Zenon DEF chain

(* A navigation in flight: while its guard waits, it was not let by; and   *)
(* the guard let it by only with all that the chain requires.              *)
NavRecords == [pc : {"allowed", "choosing", "asking", "redirected"}, url : Pages,
               cause : {"push", "traverse"}, by : {"nobody", "guard", "handler"},
               signedIn : SUBSET Clients]

GoodNav(nav) ==
    \/ nav = NoNav
    \/ /\ nav \in NavRecords
       /\ nav.pc # "allowed" => nav.by = "handler"
       /\ nav.by = "guard" => \A o \in Required(Routes[nav.url]) : o.client \in nav.signedIn

RouterIInv ==
    /\ authenticated \subseteq Clients
    /\ navs \in [Navs -> {NoNav} \cup NavRecords]
    /\ \A n \in Navs : GoodNav(navs[n])

(* What the before-listener answers is good.                               *)
LEMMA GuardedGood ==
    ASSUME RouterIInv, NEW u \in Pages, NEW cause \in {"push", "traverse"}
    PROVE  Guarded(u, cause) \in NavRecords /\ GoodNav(Guarded(u, cause))
<1>1. authenticated \subseteq Clients
  BY Zenon DEF RouterIInv
<1>2. Guarded(u, cause) \in NavRecords
  BY Zenon, <1>1 DEF Guarded, NavRecords
<1>3. CASE destroyed \/ matchUrl(u) = NoMatch
  BY Zenon, <1>2, <1>3 DEF Guarded, GoodNav
<1>4. CASE ~(destroyed \/ matchUrl(u) = NoMatch) /\ Unauthenticated(u) = {}
  <2>1. \A o \in Required(Routes[u]) : o.client \in authenticated
    BY Zenon, <1>4, ExtractedIsRequired DEF Unauthenticated
  <2> QED
    BY Zenon, <1>2, <1>4, <2>1 DEF Guarded, GoodNav
<1>5. CASE ~(destroyed \/ matchUrl(u) = NoMatch) /\ Unauthenticated(u) # {}
  BY Zenon, <1>2, <1>5 DEF Guarded, GoodNav
<1> QED
  BY <1>2, <1>3, <1>4, <1>5, Zenon

(* A step that gives one navigation a good record.                         *)
LEMMA OneNavChanges ==
    ASSUME RouterIInv, NEW n \in Navs, NEW nav, nav \in {NoNav} \cup NavRecords, GoodNav(nav),
           navs' = [navs EXCEPT ![n] = nav], authenticated' = authenticated
    PROVE  RouterIInv'
<1>1. navs \in [Navs -> {NoNav} \cup NavRecords] /\ authenticated \subseteq Clients
      /\ \A k \in Navs : GoodNav(navs[k])
  BY Zenon DEF RouterIInv
<1>2. navs' \in [Navs -> {NoNav} \cup NavRecords] /\ \A k \in Navs : navs'[k] = IF k = n THEN nav ELSE navs[k]
  BY Zenon, <1>1
<1>3. \A k \in Navs : GoodNav(navs'[k])
  BY <1>1, <1>2, Zenon
<1>4. (\A k \in Navs : GoodNav(navs[k]))'
  BY <1>3, Zenon DEF GoodNav
<1> QED
  BY <1>1, <1>2, <1>4, Zenon DEF RouterIInv

(* A step that only signs clients in or out, or moves the page.            *)
LEMMA NoNavChanges ==
    ASSUME RouterIInv, navs' = navs, authenticated' \subseteq Clients
    PROVE  RouterIInv'
  BY Zenon DEF RouterIInv, GoodNav

(* GuardCoversChain holds for all routes, clients and navigations.         *)
THEOREM GuardsCoverChains == RouterSpec => []GuardCoversChain
<1>1. RouterInit => RouterIInv
  BY Zenon DEF RouterInit, RouterIInv, GoodNav
<1>2. RouterIInv /\ [RouterNext]_routerVars => RouterIInv'
  <2> SUFFICES ASSUME RouterIInv, [RouterNext]_routerVars PROVE RouterIInv'
    BY Zenon
  <2>0. authenticated \subseteq Clients /\ \A n \in Navs : GoodNav(navs[n])
    BY Zenon DEF RouterIInv
  <2>a. ASSUME NEW n \in Navs, Ends(n), authenticated' = authenticated PROVE RouterIInv'
    BY <2>a, OneNavChanges, Zenon DEF Ends, GoodNav
  <2>1. ASSUME NEW c \in Clients, SignIn(c) PROVE RouterIInv'
    <3>1. navs' = navs /\ authenticated' \subseteq Clients
      BY Zenon, <2>0, <2>1 DEF SignIn
    <3> QED
      BY <3>1, NoNavChanges, Zenon
  <2>2. ASSUME NEW c \in Clients, SignOut(c) PROVE RouterIInv'
    <3>1. navs' = navs /\ authenticated' \subseteq Clients
      BY Zenon, <2>0, <2>2 DEF SignOut
    <3> QED
      BY <3>1, NoNavChanges, Zenon
  <2>3. ASSUME NEW u \in Pages, AddRoute(u) \/ RemoveRoute(u) PROVE RouterIInv'
    BY <2>0, <2>3, NoNavChanges, Zenon DEF AddRoute, RemoveRoute
  <2>4. ASSUME NEW n \in Navs, NEW u \in Pages, Navigate(n, u) PROVE RouterIInv'
    <3>1. Guarded(u, "push") \in NavRecords /\ GoodNav(Guarded(u, "push"))
      BY Zenon, GuardedGood
    <3> QED
      BY <2>4, <3>1, OneNavChanges, Zenon DEF Navigate
  <2>5. ASSUME NEW n \in Navs, NEW u \in Pages, Popstate(n, u) PROVE RouterIInv'
    <3>1. Guarded(u, "traverse") \in NavRecords /\ GoodNav(Guarded(u, "traverse"))
      BY Zenon, GuardedGood
    <3> QED
      BY <2>5, <3>1, OneNavChanges, Zenon DEF Popstate
  <2>6. ASSUME NEW n \in Navs, SelectCandidate(n) PROVE RouterIInv'
    <3> DEFINE nav == [navs[n] EXCEPT !.pc = "asking"]
    <3>1. navs' = [navs EXCEPT ![n] = nav] /\ authenticated' = authenticated /\ navs[n].pc = "choosing"
      BY Zenon, <2>6 DEF SelectCandidate
    <3>2. navs[n] \in NavRecords /\ navs[n].by = "handler"
      BY <2>0, <3>1 DEF GoodNav, NoNav
    <3>3. nav \in NavRecords /\ nav.by = "handler"
      BY Zenon, <3>2 DEF NavRecords
    <3>4. GoodNav(nav)
      BY Zenon, <3>3 DEF GoodNav
    <3> HIDE DEF nav
    <3> QED
      BY <3>1, <3>3, <3>4, OneNavChanges, Zenon
  <2>7. ASSUME NEW n \in Navs, NEW outcome \in {"true"} \cup Pages, OnUnauthenticated(n, outcome)
        PROVE RouterIInv'
    <3> DEFINE nav == [navs[n] EXCEPT
                         !.pc = IF outcome \in Pages THEN "redirected" ELSE "allowed",
                         !.url = IF outcome \in Pages THEN outcome ELSE @,
                         !.cause = IF outcome \in Pages THEN "push" ELSE @]
    <3>1. navs' = [navs EXCEPT ![n] = nav] /\ authenticated' = authenticated /\ navs[n].pc = "asking"
      BY Zenon, <2>7 DEF OnUnauthenticated, RouterIInv
    <3>2. navs[n] \in NavRecords /\ navs[n].by = "handler"
      BY <2>0, <3>1 DEF GoodNav, NoNav
    <3>3. nav \in NavRecords /\ nav.by = "handler"
      BY Zenon, <3>2 DEF NavRecords
    <3>4. GoodNav(nav)
      BY Zenon, <3>3 DEF GoodNav
    <3> HIDE DEF nav
    <3> QED
      BY <3>1, <3>3, <3>4, OneNavChanges, Zenon
  <2>8. ASSUME NEW n \in Navs, Prevented(n) \/ HistoryCommits(n) \/ InterceptedCommits(n) PROVE RouterIInv'
    BY <2>8, <2>a, Zenon DEF Prevented, HistoryCommits, InterceptedCommits
  <2>9. ASSUME NEW n \in Navs, InterceptedRedirects(n) PROVE RouterIInv'
    <3> DEFINE u == navs[n].url
    <3>1. navs' = [navs EXCEPT ![n] = Guarded(u, "push")] /\ authenticated' = authenticated
      BY <2>9, Zenon DEF InterceptedRedirects
    <3>2. u \in Pages
      BY <2>0, <2>9 DEF InterceptedRedirects, GoodNav, NoNav, NavRecords
    <3> HIDE DEF u
    <3>3. Guarded(u, "push") \in NavRecords /\ GoodNav(Guarded(u, "push"))
      BY Zenon, <3>2, GuardedGood
    <3> QED
      BY <3>1, <3>3, OneNavChanges, Zenon
  <2>10. CASE HandleSuccess \/ Destroy \/ UNCHANGED routerVars
    BY <2>0, <2>10, NoNavChanges, Zenon DEF HandleSuccess, Destroy, routerVars
  <2> QED
    BY <2>1, <2>2, <2>3, <2>4, <2>5, <2>6, <2>7, <2>8, <2>9, <2>10, Zenon DEF RouterNext
<1>3. RouterIInv => GuardCoversChain
  BY DEF RouterIInv, GuardCoversChain, GoodNav, NoNav
<1> QED
  BY <1>1, <1>2, <1>3, PTL DEF RouterSpec

-----------------------------------------------------------------------------
(* The guards of the frameworks' routers *)

DeclaredIn(chain) == UNION {Elements(chain[i].requirements) : i \in DOMAIN chain}

(* Setting a key of the Map leaves no key twice.                           *)
LEMMA MapSetKeeps ==
    ASSUME NEW R, NEW s \in Unique(R), NEW r \in R
    PROVE  MapSet(s, r) \in Unique(R)
<1>1. s \in Seq(R) /\ \A i, j \in 1..Len(s) : s[i].id = s[j].id => i = j
  BY Zenon DEF Unique
<1>2. CASE r.id \in RequirementIds(s)
  <2> DEFINE t == [i \in DOMAIN s |-> IF s[i].id = r.id THEN r ELSE s[i]]
  <2>1. t \in Seq(R) /\ Len(t) = Len(s)
    BY <1>1
  <2>2. \A i \in 1..Len(s) : t[i].id = s[i].id
    BY <1>1
  <2>3. MapSet(s, r) = t
    BY <1>2, Zenon DEF MapSet
  <2> HIDE DEF t
  <2> QED
    BY Zenon, <1>1, <2>1, <2>2, <2>3 DEF Unique
<1>3. CASE r.id \notin RequirementIds(s)
  <2>1. MapSet(s, r) = Append(s, r)
    BY <1>3, Zenon DEF MapSet
  <2>2. \A i \in 1..Len(s) : s[i].id # r.id
    BY <1>1, <1>3 DEF RequirementIds
  <2> QED
    BY <2>1, <2>2, AppendUnique, Zenon
<1> QED
  BY <1>2, <1>3, Zenon

(* The value that was set is there, and so are those of other keys.        *)
LEMMA MapSetHolds ==
    ASSUME NEW R, NEW s \in Seq(R), NEW r \in R
    PROVE  /\ r \in Elements(MapSet(s, r))
           /\ \A q \in Elements(s) : q.id # r.id => q \in Elements(MapSet(s, r))
<1>1. CASE r.id \in RequirementIds(s)
  BY Zenon, <1>1 DEF MapSet, RequirementIds, Elements
<1>2. CASE r.id \notin RequirementIds(s)
  <2>1. MapSet(s, r) = Append(s, r)
    BY <1>2, Zenon DEF MapSet
  <2> DEFINE t == Append(s, r)
  <2>2. DOMAIN s = 1..Len(s) /\ DOMAIN t = 1..(Len(s) + 1) /\ t[Len(s) + 1] = r /\ Len(s) \in Nat
        /\ \A i \in 1..Len(s) : t[i] = s[i]
    OBVIOUS
  <2> HIDE DEF t
  <2> QED
    BY <2>1, <2>2 DEF Elements, t
<1> QED
  BY <1>1, <1>2, Zenon

(* The loop that fills the Map.                                            *)
LEMMA MapSteps ==
    ASSUME NEW R, NEW reqs \in Seq(R)
    PROVE  \E f \in [0..Len(reqs) -> Unique(R)] :
             /\ f[0] = <<>>
             /\ \A i \in 1..Len(reqs) : f[i] = MapSet(f[i - 1], reqs[i])
             /\ MapOf(reqs) = f[Len(reqs)]
<1> DEFINE top == Len(reqs)
           A == Unique(R)
           Body(g) == [i \in 0..top |-> IF i = 0 THEN <<>> ELSE MapSet(g[i - 1], reqs[i])]
           h == [i \in 1..top |-> [s \in A |-> MapSet(s, reqs[i])]]
           f == CHOOSE g : g = Body(g)
<1>1. top \in Nat /\ <<>> \in A
  BY DEF Unique
<1>2. \A i \in 1..top : \A s \in A : MapSet(s, reqs[i]) \in A
  BY MapSetKeeps
<1>3. h \in [1..top -> [A -> A]]
  BY <1>2, Zenon
<1>4. PICK g : Iterates(g, A, top, <<>>, h)
  <2> HIDE DEF top, A, h
  <2> QED
    BY <1>1, <1>3, Recursion, Zenon
<1>5. g = Body(g)
  <2>1. ASSUME NEW i \in 1..top PROVE g[i] = MapSet(g[i - 1], reqs[i])
    <3>1. i - 1 \in 0..top
      <4> HIDE DEF top
      <4> QED
        BY <1>1
    <3>2. g[i - 1] \in A /\ g[i] = h[i][g[i - 1]]
      BY <3>1, <1>4, Zenon DEF Iterates
    <3> HIDE DEF top, A
    <3> QED
      BY <3>2, Zenon
  <2> HIDE DEF top, A
  <2> QED
    BY <2>1, <1>1, <1>4 DEF Iterates
<1>6. f = Body(f)
  <2> HIDE DEF Body
  <2> QED
    BY <1>5, Zenon
<1>7. MapOf(reqs) = f[top]
  BY Zenon DEF MapOf
<1> HIDE DEF f
<1>8. f[0] = <<>> /\ \A i \in 1..top : f[i] = MapSet(f[i - 1], reqs[i])
  <2> HIDE DEF top
  <2> QED
    BY <1>6, <1>1
<1>9. \A i \in 0..top : f[i] \in A
  <2>1. ASSUME NEW n \in 1..top, f[n - 1] \in A PROVE f[n] \in A
    BY <1>2, <2>1, <1>8, Zenon
  <2> HIDE DEF top, A
  <2> QED
    BY <2>1, <1>8, Reached, <1>1, Zenon
<1>10. f \in [0..top -> A]
  <2> HIDE DEF top, A
  <2> QED
    BY Zenon, <1>9, <1>6
<1> QED
  BY <1>7, <1>8, <1>10, Zenon

(* The Map keeps, for each key, what was set last.                         *)
LEMMA LastSetStays ==
    ASSUME NEW R, NEW reqs \in Seq(R), NEW j \in 1..Len(reqs),
           \A l \in (j + 1)..Len(reqs) : reqs[l].id # reqs[j].id
    PROVE  reqs[j] \in Elements(MapOf(reqs))
<1> DEFINE top == Len(reqs)
<1>1. top \in Nat /\ \A i \in 1..top : reqs[i] \in R
  OBVIOUS
<1>2. PICK f \in [0..top -> Unique(R)] :
         /\ f[0] = <<>>
         /\ \A i \in 1..top : f[i] = MapSet(f[i - 1], reqs[i])
         /\ MapOf(reqs) = f[top]
  BY MapSteps, Zenon
<1> DEFINE S == {n \in 0..top : n >= j => reqs[j] \in Elements(f[n])}
<1> HIDE DEF top
<1>3. 0 \in S
  BY <1>1
<1>4. ASSUME NEW n \in 1..top, n - 1 \in S PROVE n \in S
  <2>1. f[n - 1] \in Seq(R) /\ reqs[n] \in R /\ f[n] = MapSet(f[n - 1], reqs[n])
    BY <1>1, <1>2 DEF Unique
  <2>2. CASE n = j
    <3>1. reqs[n] \in Elements(f[n])
      BY <2>1, MapSetHolds, Zenon
    <3> QED
      BY <1>1, <2>2, <3>1
  <2>3. CASE n > j
    <3>1. reqs[j] \in Elements(f[n - 1]) /\ reqs[j].id # reqs[n].id
      BY <1>1, <1>4, <2>3 DEF top
    <3>2. reqs[j] \in Elements(f[n])
      BY <2>1, <3>1, MapSetHolds, Zenon
    <3> QED
      BY <1>1, <3>2
  <2>4. CASE n < j
    BY <1>1, <2>4
  <2> QED
    BY <1>1, <2>2, <2>3, <2>4
<1>5. \A n \in 0..top : n \in S
  <2> HIDE DEF S
  <2> QED
    BY <1>1, <1>3, <1>4, UpTo, Zenon
<1>6. top \in S /\ top >= j
  BY <1>1, <1>5 DEF top
<1> QED
  BY Zenon, <1>2, <1>6

(* What GuardAssumption says of a chain.                                   *)
LEMMA GuardChainGood ==
    ASSUME NEW chain \in GuardChains
    PROVE  /\ Len(chain) \in Nat /\ DOMAIN chain = 1..Len(chain)
           /\ \A i \in 1..Len(chain) :
                /\ chain[i].composition \in {"none", "inherit", "merge", "replace"}
                /\ chain[i].requirements \in Unique(DeclaredIn(chain))
<1>1. Len(chain) \in Nat /\ DOMAIN chain = 1..Len(chain)
  <2>1. chain \in Seq(Elements(chain))
    BY Zenon, GuardAssumption
  <2> QED
    BY <2>1
<1>2. ASSUME NEW i \in 1..Len(chain)
      PROVE /\ chain[i].composition \in {"none", "inherit", "merge", "replace"}
            /\ chain[i].requirements \in Unique(DeclaredIn(chain))
  <2> DEFINE own == chain[i].requirements
  <2>1. /\ chain[i].composition \in {"none", "inherit", "merge", "replace"}
        /\ own \in Seq(Elements(own))
        /\ \A j, k \in DOMAIN own : own[j].id = own[k].id => j = k
    BY <1>1, GuardAssumption
  <2>2. Elements(own) \subseteq DeclaredIn(chain)
    BY Zenon, <1>1 DEF DeclaredIn
  <2> HIDE DEF own
  <2>3. own \in Seq(DeclaredIn(chain)) /\ DOMAIN own = 1..Len(own)
    BY <2>1, <2>2
  <2> QED
    BY Zenon, <2>1, <2>3 DEF Unique, own
<1> QED
  BY Zenon, <1>1, <1>2

(* Composing leaves no id twice.                                           *)
LEMMA ComposedUnique ==
    ASSUME NEW R, NEW parent \in Unique(R), NEW child, child.requirements \in Unique(R)
    PROVE  resolveEffectiveRequirements(parent, child) \in Unique(R)
<1> DEFINE all == parent \o child.requirements
<1>1. all \in Seq(R)
  BY DEF Unique
<1>2. MapOf(all) \in Unique(R)
  <2>0. Len(all) \in Nat
    BY <1>1
  <2> HIDE DEF all
  <2>1. PICK f \in [0..Len(all) -> Unique(R)] : MapOf(all) = f[Len(all)]
    BY <1>1, MapSteps, Zenon
  <2> QED
    BY <2>0, <2>1
<1> QED
  BY Zenon, <1>2 DEF resolveEffectiveRequirements

(* The loop over the segments of a chain.                                  *)
LEMMA EffectiveSteps ==
    ASSUME NEW chain \in GuardChains
    PROVE  \E f \in [0..Len(chain) -> Unique(DeclaredIn(chain))] :
             /\ f[0] = <<>>
             /\ \A i \in 1..Len(chain) : f[i] = resolveEffectiveRequirements(f[i - 1], chain[i])
             /\ EffectiveRequirements(chain) = f[Len(chain)]
<1> DEFINE top == Len(chain)
           A == Unique(DeclaredIn(chain))
           Body(g) == [i \in 0..top |-> IF i = 0 THEN <<>> ELSE resolveEffectiveRequirements(g[i - 1], chain[i])]
           h == [i \in 1..top |-> [s \in A |-> resolveEffectiveRequirements(s, chain[i])]]
           f == CHOOSE g : g = Body(g)
<1>1. top \in Nat /\ <<>> \in A
  BY GuardChainGood DEF Unique
<1>2. \A i \in 1..top : \A s \in A : resolveEffectiveRequirements(s, chain[i]) \in A
  BY ComposedUnique, GuardChainGood, Zenon
<1>3. h \in [1..top -> [A -> A]]
  BY <1>2, Zenon
<1>4. PICK g : Iterates(g, A, top, <<>>, h)
  <2> HIDE DEF top, A, h
  <2> QED
    BY <1>1, <1>3, Recursion, Zenon
<1>5. g = Body(g)
  <2>1. ASSUME NEW i \in 1..top PROVE g[i] = resolveEffectiveRequirements(g[i - 1], chain[i])
    <3>1. i - 1 \in 0..top
      <4> HIDE DEF top
      <4> QED
        BY <1>1
    <3>2. g[i - 1] \in A /\ g[i] = h[i][g[i - 1]]
      BY <3>1, <1>4, Zenon DEF Iterates
    <3> HIDE DEF top, A
    <3> QED
      BY <3>2, Zenon
  <2> HIDE DEF top, A
  <2> QED
    BY <2>1, <1>1, <1>4 DEF Iterates
<1>6. f = Body(f)
  <2> HIDE DEF Body
  <2> QED
    BY <1>5, Zenon
<1>7. EffectiveRequirements(chain) = f[top]
  BY Zenon DEF EffectiveRequirements
<1> HIDE DEF f
<1>8. f[0] = <<>> /\ \A i \in 1..top : f[i] = resolveEffectiveRequirements(f[i - 1], chain[i])
  <2> HIDE DEF top
  <2> QED
    BY <1>6, <1>1
<1>9. \A i \in 0..top : f[i] \in A
  <2>1. ASSUME NEW n \in 1..top, f[n - 1] \in A PROVE f[n] \in A
    BY <1>2, <2>1, <1>8, Zenon
  <2> HIDE DEF top, A
  <2> QED
    BY <2>1, <1>8, Reached, <1>1, Zenon
<1>10. f \in [0..top -> A]
  <2> HIDE DEF top, A
  <2> QED
    BY Zenon, <1>9, <1>6
<1> QED
  BY <1>7, <1>8, <1>10, Zenon

(* Binding, looking at the first k segments only: r is declared by one of  *)
(* them and by none below it that counts.                                  *)
BoundIn(chain, k, r) ==
    \E i \in 1..k :
        /\ chain[i].composition # "inherit"
        /\ r \in Elements(chain[i].requirements)
        /\ \A l \in 1..k : l > i =>
             /\ chain[l].composition # "replace"
             /\ \/ chain[l].composition = "inherit"
                \/ r.id \notin RequirementIds(chain[l].requirements)

(* Merging keeps the child's requirements and those of the parent that it  *)
(* does not declare again.                                                 *)
LEMMA MergeHolds ==
    ASSUME NEW R, NEW parent \in Unique(R), NEW own \in Unique(R)
    PROVE  /\ Elements(own) \subseteq Elements(MapOf(parent \o own))
           /\ \A r \in Elements(parent) :
                r.id \notin RequirementIds(own) => r \in Elements(MapOf(parent \o own))
<1> DEFINE all == parent \o own
<1>1. /\ parent \in Seq(R) /\ \A i, j \in 1..Len(parent) : parent[i].id = parent[j].id => i = j
      /\ own \in Seq(R) /\ \A i, j \in 1..Len(own) : own[i].id = own[j].id => i = j
  BY Zenon DEF Unique
<1>2. /\ all \in Seq(R) /\ Len(all) = Len(parent) + Len(own)
      /\ Len(parent) \in Nat /\ Len(own) \in Nat
      /\ \A i \in 1..Len(parent) : all[i] = parent[i]
      /\ \A i \in 1..Len(own) : all[Len(parent) + i] = own[i]
  BY <1>1
<1> HIDE DEF all
<1>3. ASSUME NEW j \in 1..Len(own) PROVE own[j] \in Elements(MapOf(all))
  <2> DEFINE k == Len(parent) + j
  <2>1. k \in 1..Len(all) /\ all[k] = own[j]
    BY <1>2
  <2>2. ASSUME NEW l \in (k + 1)..Len(all) PROVE all[l].id # all[k].id
    <3>1. l - Len(parent) \in 1..Len(own) /\ l - Len(parent) # j /\ l = Len(parent) + (l - Len(parent))
      BY <1>2
    <3>2. all[l] = own[l - Len(parent)]
      BY Zenon, <1>2, <3>1
    <3> QED
      BY Zenon, <1>1, <2>1, <3>1, <3>2
  <2> HIDE DEF k
  <2>3. all[k] \in Elements(MapOf(all))
    BY <1>2, <2>1, <2>2, LastSetStays, Zenon
  <2> QED
    BY Zenon, <2>1, <2>3
<1>4. ASSUME NEW j \in 1..Len(parent), parent[j].id \notin RequirementIds(own)
      PROVE parent[j] \in Elements(MapOf(all))
  <2>1. j \in 1..Len(all) /\ all[j] = parent[j]
    BY <1>2
  <2>2. ASSUME NEW l \in (j + 1)..Len(all) PROVE all[l].id # all[j].id
    <3>1. CASE l \in 1..Len(parent)
      <4>1. all[l] = parent[l] /\ l # j
        BY <1>2, <3>1
      <4> QED
        BY Zenon, <1>1, <2>1, <3>1, <4>1
    <3>2. CASE l \notin 1..Len(parent)
      <4>1. l - Len(parent) \in 1..Len(own) /\ l = Len(parent) + (l - Len(parent))
        BY <1>2, <3>2
      <4>2. all[l] = own[l - Len(parent)]
        BY Zenon, <1>2, <4>1
      <4>3. own[l - Len(parent)].id \in RequirementIds(own)
        BY <1>1, <4>1 DEF RequirementIds
      <4> QED
        BY Zenon, <1>4, <2>1, <4>2, <4>3
    <3> QED
      BY Zenon, <3>1, <3>2
  <2>3. all[j] \in Elements(MapOf(all))
    BY <1>2, <2>1, <2>2, LastSetStays, Zenon
  <2> QED
    BY Zenon, <2>1, <2>3
<1>5. Elements(own) = {own[i] : i \in 1..Len(own)} /\ Elements(parent) = {parent[i] : i \in 1..Len(parent)}
  BY <1>1 DEF Elements
<1>6. Elements(own) \subseteq Elements(MapOf(all))
  BY Zenon, <1>3, <1>5
<1>7. ASSUME NEW r \in Elements(parent), r.id \notin RequirementIds(own)
      PROVE r \in Elements(MapOf(all))
  BY Zenon, <1>4, <1>5, <1>7
<1> QED
  BY Zenon, <1>6, <1>7 DEF all

(* Every requirement that binds a route is among its effective ones.       *)
LEMMA BindingIsEffective ==
    ASSUME NEW chain \in GuardChains
    PROVE  Binding(chain) \subseteq Elements(EffectiveRequirements(chain))
<1> DEFINE top == Len(chain)
           R == DeclaredIn(chain)
<1>1. /\ top \in Nat /\ DOMAIN chain = 1..top
      /\ \A i \in 1..top : chain[i].requirements \in Unique(R)
  BY GuardChainGood, Zenon
<1>2. PICK f \in [0..top -> Unique(R)] :
         /\ f[0] = <<>>
         /\ \A i \in 1..top : f[i] = resolveEffectiveRequirements(f[i - 1], chain[i])
         /\ EffectiveRequirements(chain) = f[top]
  BY EffectiveSteps, Zenon
<1> HIDE DEF top, R
<1> DEFINE S == {n \in 0..top : \A r \in R : BoundIn(chain, n, r) => r \in Elements(f[n])}
<1>3. 0 \in S
  BY <1>1 DEF BoundIn
<1>4. ASSUME NEW n \in 1..top, n - 1 \in S PROVE n \in S
  <2> DEFINE own == chain[n].requirements
             before == f[n - 1]
  <2>1. before \in Unique(R) /\ own \in Unique(R) /\ 1..n = 1..(n - 1) \cup {n} /\ n \in 0..top
    BY <1>1, <1>2
  <2>2. f[n] = resolveEffectiveRequirements(before, chain[n])
    BY Zenon, <1>2
  <2>3. \A r \in R : BoundIn(chain, n - 1, r) => r \in Elements(before)
    BY Zenon, <1>4
  <2>4. ASSUME NEW r \in R, BoundIn(chain, n, r) PROVE r \in Elements(f[n])
    <3>1. PICK i \in 1..n :
            /\ chain[i].composition # "inherit"
            /\ r \in Elements(chain[i].requirements)
            /\ \A l \in 1..n : l > i =>
                 /\ chain[l].composition # "replace"
                 /\ \/ chain[l].composition = "inherit"
                    \/ r.id \notin RequirementIds(chain[l].requirements)
      BY <2>4, Zenon DEF BoundIn
    <3>2. CASE i = n
      <4>1. r \in Elements(own) /\ chain[n].composition # "inherit"
        BY <3>1, <3>2, Zenon
      <4>2. CASE chain[n].composition = "replace"
        BY Zenon, <2>2, <4>1, <4>2 DEF resolveEffectiveRequirements
      <4>3. CASE chain[n].composition # "replace"
        <5>1. f[n] = MapOf(before \o own)
          BY Zenon, <2>2, <4>1, <4>3 DEF resolveEffectiveRequirements
        <5>2. Elements(own) \subseteq Elements(MapOf(before \o own))
          BY <2>1, MergeHolds, Zenon
        <5> QED
          BY <4>1, <5>1, <5>2, Zenon
      <4> QED
        BY <4>2, <4>3, Zenon
    <3>3. CASE i # n
      <4>0. i \in 1..(n - 1) /\ n > i /\ n \in 1..n
        BY <3>3
      <4>1. BoundIn(chain, n - 1, r)
        BY Zenon, <3>1, <4>0, <2>1 DEF BoundIn
      <4>2. r \in Elements(before) /\ chain[n].composition # "replace"
            /\ (chain[n].composition = "inherit" \/ r.id \notin RequirementIds(own))
        BY <2>3, <3>1, <4>0, <4>1, Zenon
      <4>3. CASE chain[n].composition = "inherit"
        BY Zenon, <2>2, <4>2, <4>3 DEF resolveEffectiveRequirements
      <4>4. CASE chain[n].composition # "inherit"
        <5>1. f[n] = MapOf(before \o own)
          BY Zenon, <2>2, <4>2, <4>4 DEF resolveEffectiveRequirements
        <5>2. r.id \notin RequirementIds(own)
          BY <4>2, <4>4, Zenon
        <5>3. r \in Elements(MapOf(before \o own))
          BY <2>1, <4>2, <5>2, MergeHolds, Zenon
        <5> QED
          BY <5>1, <5>3, Zenon
      <4> QED
        BY <4>3, <4>4, Zenon
    <3> QED
      BY <3>2, <3>3, Zenon
  <2> QED
    BY <2>1, <2>4, Zenon
<1>5. \A n \in 0..top : n \in S
  <2> HIDE DEF S
  <2> QED
    BY <1>1, <1>3, <1>4, UpTo, Zenon
<1>6. top \in S
  BY <1>1, <1>5
<1>7. ASSUME NEW r \in Binding(chain) PROVE r \in R /\ BoundIn(chain, top, r)
  BY <1>1, Zenon DEF Binding, BoundIn, R, DeclaredIn
<1> QED
  BY <1>2, <1>6, <1>7, Zenon

(* The guards of the navigations: which requirements they look at, and     *)
(* which they have found met.                                              *)
GuardNeeds == UNION {DeclaredIn(chain) : chain \in GuardChains}

CheckingGuards ==
    [at : {"checking"}, router : {"tanstack"}, chain : GuardChains,
     need : Seq(GuardNeeds), i : Nat, seen : SUBSET GuardNeeds]
AngularGuards ==
    [at : {"resolving", "barrier", "choosing"}, router : {"angular"}, chain : GuardChains,
     need : SUBSET GuardNeeds, waits : SUBSET (GuardClients \cup GuardNeeds), seen : SUBSET GuardNeeds]
DoneGuards ==
    [at : {"done"}, router : {"tanstack", "angular"}, chain : GuardChains,
     fate : {"admitted", "redirected", "left", "blocked", "failed"},
     by : {"checks", "handler", "registry", "no host"}, seen : SUBSET GuardNeeds]

Checked(guard) ==
    \A r \in Binding(guard.chain) :
        r \in guard.seen \/ (guard.router = "angular" /\ ClientsFor[r.kind] = {})

(* A TanStack guard has seen the requirements before the one it asks for.  *)
GoodChecking == {x \in CheckingGuards :
    /\ x.need = EffectiveRequirements(x.chain) /\ x.i \in 1..Len(x.need)
    /\ \A j \in 1..(x.i - 1) : x.need[j] \in x.seen}
GoodAngular == {x \in AngularGuards : x.need = Mapped(EffectiveRequirements(x.chain))}
GoodDone == {x \in DoneGuards : x.fate = "admitted" /\ x.by = "checks" => Checked(x)}

GoodGuards == {NoGuard} \cup GoodChecking \cup GoodAngular \cup GoodDone

GuardIInv == guards \in [Guards -> GoodGuards]

(* The effective requirements are requirements of the chain.               *)
LEMMA EffectiveTyped ==
    ASSUME NEW chain \in GuardChains
    PROVE  /\ EffectiveRequirements(chain) \in Seq(GuardNeeds)
           /\ Mapped(EffectiveRequirements(chain)) \subseteq GuardNeeds
<1>1. Len(chain) \in Nat
  BY GuardChainGood, Zenon
<1>2. PICK f \in [0..Len(chain) -> Unique(DeclaredIn(chain))] :
         EffectiveRequirements(chain) = f[Len(chain)]
  BY EffectiveSteps, Zenon
<1>3. EffectiveRequirements(chain) \in Seq(DeclaredIn(chain))
  BY <1>1, <1>2 DEF Unique
<1>4. DeclaredIn(chain) \subseteq GuardNeeds
  BY Zenon DEF GuardNeeds
<1> HIDE DEF GuardNeeds
<1>5. EffectiveRequirements(chain) \in Seq(GuardNeeds)
  BY <1>3, <1>4
<1> QED
  BY <1>5 DEF Mapped, Elements

(* The next check, after those up to guard.i have succeeded.               *)
LEMMA NextCheckGood ==
    ASSUME NEW x \in CheckingGuards, x.need = EffectiveRequirements(x.chain),
           x.i \in 0..Len(x.need), \A j \in 1..x.i : x.need[j] \in x.seen
    PROVE  NextCheck(x) \in GoodGuards
<1>1. x.chain \in GuardChains /\ x.need \in Seq(GuardNeeds) /\ x.i \in Nat /\ x.seen \in SUBSET GuardNeeds
      /\ x.router = "tanstack"
  BY Zenon DEF CheckingGuards
<1>2. CASE x.i = Len(x.need)
  <2> DEFINE y == [at |-> "done", router |-> x.router, chain |-> x.chain,
                   fate |-> "admitted", by |-> "checks", seen |-> x.seen]
  <2>1. NextCheck(x) = y
    BY <1>2, Zenon DEF NextCheck
  <2>2. y \in DoneGuards
    BY Zenon, <1>1 DEF DoneGuards
  <2>3. Elements(x.need) \subseteq x.seen
    BY <1>1, <1>2 DEF Elements
  <2>4. y.chain = x.chain /\ y.seen = x.seen
    BY Zenon
  <2> HIDE DEF y
  <2>5. Checked(y)
    BY <1>1, <2>3, <2>4, BindingIsEffective, Zenon DEF Checked
  <2> QED
    BY <2>1, <2>2, <2>5, Zenon DEF GoodGuards, GoodDone
<1>3. CASE x.i # Len(x.need)
  <2> DEFINE y == [x EXCEPT !.i = @ + 1]
  <2>1. NextCheck(x) = y
    BY <1>3, Zenon DEF NextCheck
  <2>2. y \in CheckingGuards /\ y.need = x.need /\ y.chain = x.chain /\ y.seen = x.seen /\ y.i = x.i + 1
    BY <1>1 DEF CheckingGuards
  <2> HIDE DEF y
  <2>3. y.i \in 1..Len(y.need) /\ (y.i - 1) = x.i
    BY <1>1, <1>3, <2>2
  <2>4. y \in GoodChecking
    BY <2>2, <2>3, Zenon DEF GoodChecking
  <2> QED
    BY <2>1, <2>4, Zenon DEF GoodGuards
<1> QED
  BY <1>2, <1>3, Zenon

(* One guard changes.                                                      *)
LEMMA OneGuardChanges ==
    ASSUME GuardIInv, NEW g \in Guards, NEW x \in GoodGuards, guards' = [guards EXCEPT ![g] = x]
    PROVE  GuardIInv'
  BY Zenon DEF GuardIInv

(* A guard that ends without admitting on its own.                         *)
LEMMA FinishGood ==
    ASSUME GuardIInv, NEW g \in Guards,
           guards[g] \in GoodChecking \cup GoodAngular,
           NEW fate \in {"admitted", "redirected", "left", "blocked", "failed"},
           NEW by \in {"handler", "registry"}, Finish(g, fate, by)
    PROVE  GuardIInv'
<1> DEFINE x == guards[g]
           y == [at |-> "done", router |-> x.router, chain |-> x.chain,
                 fate |-> fate, by |-> by, seen |-> x.seen]
<1>1. guards' = [guards EXCEPT ![g] = y]
  BY Zenon DEF Finish, GuardIInv
<1>2. x.router \in {"tanstack", "angular"} /\ x.chain \in GuardChains /\ x.seen \in SUBSET GuardNeeds
  BY Zenon DEF GoodChecking, GoodAngular, CheckingGuards, AngularGuards
<1> HIDE DEF x
<1>3. y \in DoneGuards /\ y.by # "checks"
  BY Zenon, <1>2 DEF DoneGuards
<1> HIDE DEF y
<1>4. y \in GoodGuards
  BY <1>3, Zenon DEF GoodGuards, GoodDone
<1> QED
  BY <1>1, <1>4, OneGuardChanges, Zenon

(* Which kind of guard is in which phase.                                  *)
LEMMA GuardKinds ==
    ASSUME GuardIInv, NEW g \in Guards
    PROVE  /\ guards[g].at = "checking" => guards[g] \in GoodChecking
           /\ guards[g].at \in {"resolving", "barrier", "choosing"} => guards[g] \in GoodAngular
<1>1. guards[g] \in GoodGuards
  BY Zenon DEF GuardIInv
<1>2. /\ NoGuard.at = "idle"
      /\ \A x \in GoodChecking : x.at = "checking"
      /\ \A x \in GoodAngular : x.at \in {"resolving", "barrier", "choosing"}
      /\ \A x \in GoodDone : x.at = "done"
  BY Zenon DEF NoGuard, GoodChecking, GoodAngular, GoodDone, CheckingGuards, AngularGuards, DoneGuards
<1> QED
  BY Zenon, <1>1, <1>2 DEF GoodGuards

(* beforeLoad starts with no check done.                                   *)
LEMMA SecureBeforeLoadKeeps ==
    ASSUME GuardIInv, NEW g \in Guards, NEW chain \in GuardChains, createSecureBeforeLoad(g, chain)
    PROVE  GuardIInv'
<1> DEFINE x == [at |-> "checking", router |-> "tanstack", chain |-> chain,
                 need |-> EffectiveRequirements(chain), i |-> 0, seen |-> {}]
<1>1. guards' = [guards EXCEPT ![g] = NextCheck(x)]
  BY Zenon DEF createSecureBeforeLoad, extractTanStackRouteRequirements
<1>2. EffectiveRequirements(chain) \in Seq(GuardNeeds)
  BY EffectiveTyped, Zenon
<1>3. x \in CheckingGuards /\ x.need = EffectiveRequirements(x.chain) /\ x.i \in 0..Len(x.need)
      /\ \A j \in 1..x.i : x.need[j] \in x.seen
  BY <1>2 DEF CheckingGuards
<1> HIDE DEF x
<1>4. NextCheck(x) \in GoodGuards
  BY <1>3, NextCheckGood, Zenon
<1> QED
  BY <1>1, <1>4, OneGuardChanges, Zenon

(* beforeLoad asks for one requirement.                                    *)
LEMMA EnsureKeeps ==
    ASSUME GuardIInv, NEW g \in Guards, ensureTanStackRequirement(g)
    PROVE  GuardIInv'
<1> DEFINE x == guards[g]
           req == Pending(g)
           y == [x EXCEPT !.seen = @ \cup {req}]
<1>1. x \in GoodChecking
  BY GuardKinds, Zenon DEF ensureTanStackRequirement
<1>2. ASSUME NEW answer, handleSecureBeforeLoadAction(g, answer) PROVE GuardIInv'
  <2>1. \E fate \in {"redirected", "left", "blocked"} : Finish(g, fate, "handler")
    BY Zenon, <1>2 DEF handleSecureBeforeLoadAction
  <2> QED
    BY Zenon, <1>1, <2>1, FinishGood
<1>3. ASSUME Finish(g, "failed", "registry") PROVE GuardIInv'
  BY Zenon, <1>1, <1>3, FinishGood
<1>4. ASSUME guards' = [guards EXCEPT ![g] = NextCheck([guards[g] EXCEPT !.seen = @ \cup {req}])] PROVE GuardIInv'
  <2>1. guards' = [guards EXCEPT ![g] = NextCheck(y)]
    BY <1>4, Zenon
  <2>2. x \in CheckingGuards /\ x.need = EffectiveRequirements(x.chain) /\ x.i \in 1..Len(x.need)
        /\ x.need \in Seq(GuardNeeds) /\ (\A j \in 1..(x.i - 1) : x.need[j] \in x.seen)
        /\ req = x.need[x.i]
    BY Zenon, <1>1 DEF GoodChecking, CheckingGuards, Pending
  <2>3. req \in GuardNeeds
    BY <2>2
  <2> HIDE DEF x, req
  <2>4. y \in CheckingGuards /\ y.need = x.need /\ y.chain = x.chain /\ y.i = x.i
        /\ y.seen = x.seen \cup {req}
    BY Zenon, <2>2, <2>3 DEF CheckingGuards
  <2> HIDE DEF y
  <2>5. y.i \in 0..Len(y.need) /\ \A j \in 1..y.i : y.need[j] \in y.seen
    BY <2>2, <2>4
  <2>6. NextCheck(y) \in GoodGuards
    BY <2>2, <2>4, <2>5, NextCheckGood, Zenon
  <2> QED
    BY <2>1, <2>6, OneGuardChanges, Zenon
<1>5. \/ \E answer : handleSecureBeforeLoadAction(g, answer)
      \/ Finish(g, "failed", "registry")
      \/ guards' = [guards EXCEPT ![g] = NextCheck([guards[g] EXCEPT !.seen = @ \cup {req}])]
  BY Zenon DEF ensureTanStackRequirement
<1> QED
  BY <1>2, <1>3, <1>4, <1>5, Zenon

(* The aggregation guard may end at once.                                  *)
LEMMA AggregationKeeps ==
    ASSUME GuardIInv, NEW g \in Guards, NEW chain \in GuardChains,
           createTokenSetRouteAggregationGuard(g, chain)
    PROVE  GuardIInv'
<1> DEFINE need == Mapped(EffectiveRequirements(chain))
           start == [at |-> "resolving", router |-> "angular", chain |-> chain,
                     need |-> need, waits |-> ClientsOf(need), seen |-> {}]
           End(fate, by) == [at |-> "done", router |-> "angular", chain |-> chain,
                             fate |-> fate, by |-> by, seen |-> {}]
<1>1. \/ guards' = [guards EXCEPT ![g] = End("failed", "no host")]
      \/ need = {} /\ guards' = [guards EXCEPT ![g] = End("admitted", "checks")]
      \/ guards' = [guards EXCEPT ![g] = start]
  BY Zenon DEF createTokenSetRouteAggregationGuard, extractAngularRouteRequirements
<1>2. need \subseteq GuardNeeds
  BY EffectiveTyped, Zenon
<1>3. End("failed", "no host") \in GoodGuards
  <2>1. End("failed", "no host") \in DoneGuards /\ End("failed", "no host").by # "checks"
    BY Zenon DEF DoneGuards
  <2> HIDE DEF End
  <2> QED
    BY <2>1, Zenon DEF GoodGuards, GoodDone
<1>4. need = {} => End("admitted", "checks") \in GoodGuards
  <2> SUFFICES ASSUME need = {} PROVE End("admitted", "checks") \in GoodGuards
    BY Zenon
  <2>1. End("admitted", "checks") \in DoneGuards /\ End("admitted", "checks").chain = chain
        /\ End("admitted", "checks").router = "angular"
    BY Zenon DEF DoneGuards
  <2>2. \A r \in Binding(chain) : ClientsFor[r.kind] = {}
    BY Zenon, BindingIsEffective DEF Mapped
  <2> HIDE DEF End
  <2>3. Checked(End("admitted", "checks"))
    BY <2>1, <2>2, Zenon DEF Checked
  <2> QED
    BY <2>1, <2>3, Zenon DEF GoodGuards, GoodDone
<1>5. start \in GoodGuards
  <2>1. ClientsOf(need) \subseteq GuardClients
    <3>1. \A r \in need : r.kind \in DOMAIN ClientsFor
      <4>1. \A r \in GuardNeeds : r.kind \in DOMAIN ClientsFor
        <5> SUFFICES ASSUME NEW r \in GuardNeeds PROVE r.kind \in DOMAIN ClientsFor
          BY Zenon
        <5>1. PICK c \in GuardChains : r \in DeclaredIn(c)
          BY Zenon DEF GuardNeeds
        <5>2. PICK i \in DOMAIN c : r \in Elements(c[i].requirements)
          BY <5>1, Zenon DEF DeclaredIn
        <5>3. PICK j \in DOMAIN c[i].requirements : r = c[i].requirements[j]
          BY <5>2, Zenon DEF Elements
        <5> QED
          BY <5>3, GuardAssumption, Zenon
      <4> HIDE DEF need
      <4> QED
        BY <1>2, <4>1, Zenon
    <3> HIDE DEF need
    <3> QED
      BY Zenon, <3>1 DEF ClientsOf, GuardClients
  <2>2. start \in AngularGuards
    <3> HIDE DEF need
    <3> QED
      BY Zenon, <1>2, <2>1 DEF AngularGuards
  <2>3. start.need = Mapped(EffectiveRequirements(start.chain))
    BY Zenon
  <2> HIDE DEF start
  <2> QED
    BY <2>2, <2>3, Zenon DEF GoodGuards, GoodAngular
<1> HIDE DEF need, start, End
<1> QED
  BY <1>1, <1>3, <1>4, <1>5, OneGuardChanges, Zenon

(* The waits of the aggregation guard.                                     *)
LEMMA WaitsKeep ==
    ASSUME GuardIInv, NEW g \in Guards,
           ClientsReady(g) \/ \E k \in GuardClients : awaitAuthMaterial(g, k)
    PROVE  GuardIInv'
<1> DEFINE x == guards[g]
<1>1. x \in GoodAngular
  BY Zenon, GuardKinds DEF ClientsReady, awaitAuthMaterial
<1>2. x \in AngularGuards /\ x.need = Mapped(EffectiveRequirements(x.chain))
      /\ x.waits \in SUBSET (GuardClients \cup GuardNeeds)
  BY Zenon, <1>1 DEF GoodAngular, AngularGuards
<1>3. \/ guards' = [guards EXCEPT ![g] = [x EXCEPT !.at = "barrier"]]
      \/ \E k \in GuardClients : guards' = [guards EXCEPT ![g] = [x EXCEPT !.waits = @ \ {k}]]
  BY Zenon DEF ClientsReady, awaitAuthMaterial, GuardIInv
<1> HIDE DEF x
<1>4. [x EXCEPT !.at = "barrier"] \in GoodGuards
  <2> DEFINE y == [x EXCEPT !.at = "barrier"]
  <2>1. y \in AngularGuards /\ y.need = x.need /\ y.chain = x.chain
    BY Zenon, <1>2 DEF AngularGuards
  <2> HIDE DEF y
  <2>2. y \in GoodGuards
    BY <1>2, <2>1, Zenon DEF GoodGuards, GoodAngular
  <2> QED
    BY Zenon, <2>2 DEF y
<1>5. ASSUME NEW k \in GuardClients PROVE [x EXCEPT !.waits = @ \ {k}] \in GoodGuards
  <2> DEFINE y == [x EXCEPT !.waits = @ \ {k}]
  <2>1. y \in AngularGuards /\ y.need = x.need /\ y.chain = x.chain
    BY Zenon, <1>2 DEF AngularGuards
  <2> HIDE DEF y
  <2>2. y \in GoodGuards
    BY <1>2, <2>1, Zenon DEF GoodGuards, GoodAngular
  <2> QED
    BY Zenon, <2>2 DEF y
<1> QED
  BY <1>3, <1>4, <1>5, OneGuardChanges, Zenon

(* It decides on all of its requirements at once.                          *)
LEMMA DecideKeeps ==
    ASSUME GuardIInv, NEW g \in Guards, decide(g)
    PROVE  GuardIInv'
<1> DEFINE x == guards[g]
           need == x.need
           unmet == {r \in need : ~Authenticated(r)}
           admit == [at |-> "done", router |-> x.router, chain |-> x.chain,
                     fate |-> "admitted", by |-> "checks", seen |-> need]
           choose == [x EXCEPT !.at = "choosing", !.waits = unmet, !.seen = need \ unmet]
<1>1. x \in GoodAngular
  BY Zenon, GuardKinds DEF decide
<1>2. guards' = [guards EXCEPT ![g] = admit] \/ guards' = [guards EXCEPT ![g] = choose]
  BY Zenon DEF decide, GuardIInv
<1>3. x \in AngularGuards /\ need = Mapped(EffectiveRequirements(x.chain)) /\ need \subseteq GuardNeeds
      /\ x.chain \in GuardChains /\ x.router = "angular"
  BY Zenon, <1>1 DEF GoodAngular, AngularGuards
<1>4. unmet \subseteq need
  BY Zenon
<1> HIDE DEF x, unmet
<1>5. admit \in GoodGuards
  <2>1. admit \in DoneGuards /\ admit.chain = x.chain /\ admit.seen = need /\ admit.router = "angular"
    BY Zenon, <1>3 DEF DoneGuards
  <2>2. \A r \in Binding(x.chain) : r \in need \/ ClientsFor[r.kind] = {}
    BY Zenon, <1>3, BindingIsEffective DEF Mapped
  <2> HIDE DEF admit
  <2>3. Checked(admit)
    BY <2>1, <2>2, Zenon DEF Checked
  <2> QED
    BY <2>1, <2>3, Zenon DEF GoodGuards, GoodDone
<1>6. choose \in GoodGuards
  <2>1. choose \in AngularGuards /\ choose.need = x.need /\ choose.chain = x.chain
    BY Zenon, <1>3, <1>4 DEF AngularGuards
  <2> HIDE DEF choose
  <2> QED
    BY <1>3, <2>1, Zenon DEF GoodGuards, GoodAngular
<1> HIDE DEF admit, choose
<1> QED
  BY <1>2, <1>5, <1>6, OneGuardChanges, Zenon

(* The handler of a requirement that is not met decides.                   *)
LEMMA OnUnauthenticatedKeeps ==
    ASSUME GuardIInv, NEW g \in Guards, onUnauthenticated(g)
    PROVE  GuardIInv'
<1>1. guards[g] \in GoodAngular
  BY Zenon, GuardKinds DEF onUnauthenticated
<1>2. \E fate \in {"admitted", "redirected", "left", "blocked"} : Finish(g, fate, "handler")
  BY Zenon DEF onUnauthenticated
<1> QED
  BY Zenon, <1>1, <1>2, FinishGood

(* AdmittedRoutesWereChecked holds for all chains, clients and numbers of  *)
(* navigations.                                                            *)
THEOREM AdmittedRoutesAreChecked == GuardSpec => []AdmittedRoutesWereChecked
<1>1. GuardInit => GuardIInv
  BY Zenon DEF GuardInit, GuardIInv, GoodGuards
<1>2. GuardIInv /\ [GuardNext]_guardVars => GuardIInv'
  <2> SUFFICES ASSUME GuardIInv, [GuardNext]_guardVars PROVE GuardIInv'
    BY Zenon
  <2>1. ASSUME NEW k, Materialize(k) \/ ClientChanges(k) PROVE GuardIInv'
    BY <2>1, Zenon DEF Materialize, ClientChanges, GuardIInv
  <2>2. CASE UNCHANGED guardVars
    BY <2>2, Zenon DEF guardVars, GuardIInv
  <2> QED
    BY <2>1, <2>2, SecureBeforeLoadKeeps, EnsureKeeps, AggregationKeeps, WaitsKeep,
       DecideKeeps, OnUnauthenticatedKeeps, Zenon DEF GuardNext
<1>3. GuardIInv => AdmittedRoutesWereChecked
  <2> SUFFICES ASSUME GuardIInv, NEW g \in Guards, guards[g].at = "done",
                      guards[g].fate = "admitted", guards[g].by = "checks"
               PROVE Checked(guards[g])
    BY Zenon DEF AdmittedRoutesWereChecked, Checked
  <2>1. guards[g] \in GoodGuards
    BY Zenon DEF GuardIInv
  <2>2. guards[g] \in GoodDone
    BY <2>1 DEF GoodGuards, NoGuard, GoodChecking, GoodAngular, CheckingGuards, AngularGuards
  <2> QED
    BY <2>2, Zenon DEF GoodDone
<1> QED
  BY <1>1, <1>2, <1>3, PTL DEF GuardSpec

-----------------------------------------------------------------------------
(* The zones of the basic-auth SDK *)

(* One round of zoneForPath.                                               *)
KeepLonger(before, zone, path) ==
    IF Covers(zone, path) /\ Longer(zone, before) THEN {zone} ELSE before

(* The loop of zoneForPath.                                                *)
LEMMA ZoneSteps ==
    ASSUME NEW path
    PROVE  \E f \in [0..Len(ZoneConfig) -> SUBSET Zones] :
             /\ f[0] = {}
             /\ \A i \in 1..Len(ZoneConfig) : f[i] = KeepLonger(f[i - 1], ZoneConfig[i], path)
             /\ zoneForPath(path) = f[Len(ZoneConfig)]
<1> DEFINE top == Len(ZoneConfig)
           A == SUBSET Zones
           Body(g) == [i \in 0..top |-> IF i = 0 THEN {} ELSE KeepLonger(g[i - 1], ZoneConfig[i], path)]
           h == [i \in 1..top |-> [s \in A |-> KeepLonger(s, ZoneConfig[i], path)]]
           f == CHOOSE g : g = Body(g)
<1>1. top \in Nat /\ {} \in A
  BY ZonesAssumption
<1>2. \A i \in 1..top : \A s \in A : KeepLonger(s, ZoneConfig[i], path) \in A
  BY ZonesAssumption DEF KeepLonger
<1>3. h \in [1..top -> [A -> A]]
  BY <1>2, Zenon
<1>4. PICK g : Iterates(g, A, top, {}, h)
  <2> HIDE DEF top, A, h
  <2> QED
    BY <1>1, <1>3, Recursion, Zenon
<1>5. g = Body(g)
  <2>1. ASSUME NEW i \in 1..top PROVE g[i] = KeepLonger(g[i - 1], ZoneConfig[i], path)
    <3>1. i - 1 \in 0..top
      <4> HIDE DEF top
      <4> QED
        BY <1>1
    <3>2. g[i - 1] \in A /\ g[i] = h[i][g[i - 1]]
      BY <3>1, <1>4, Zenon DEF Iterates
    <3> HIDE DEF top, A
    <3> QED
      BY <3>2, Zenon
  <2>2. g[0] = {} /\ g = [i \in 0..top |-> g[i]]
    BY <1>4, Zenon DEF Iterates
  <2>3. ASSUME NEW i \in 0..top
        PROVE  g[i] = IF i = 0 THEN {} ELSE KeepLonger(g[i - 1], ZoneConfig[i], path)
    <3>1. i = 0 \/ i \in 1..top
      BY <1>1
    <3> QED
      BY <2>1, <2>2, <3>1, Zenon
  <2> QED
    BY <2>2, <2>3, Zenon
<1>6. f = Body(f)
  <2> HIDE DEF Body
  <2> QED
    BY <1>5, Zenon
<1>7. zoneForPath(path) = f[top]
  BY Zenon DEF zoneForPath, KeepLonger
<1> HIDE DEF f
<1>8. f[0] = {} /\ \A i \in 1..top : f[i] = KeepLonger(f[i - 1], ZoneConfig[i], path)
  <2>1. \A i \in 0..top : f[i] = IF i = 0 THEN {} ELSE KeepLonger(f[i - 1], ZoneConfig[i], path)
    BY <1>6, Zenon
  <2>2. 0 \in 0..top /\ \A i \in 1..top : i \in 0..top /\ i # 0
    BY <1>1
  <2> QED
    BY <2>1, <2>2, Zenon
<1>9. \A i \in 0..top : f[i] \in A
  <2>1. ASSUME NEW n \in 1..top, f[n - 1] \in A PROVE f[n] \in A
    BY <1>2, <2>1, <1>8, Zenon
  <2> HIDE DEF top, A
  <2> QED
    <3>1. f[0] \in A
      BY <1>1, <1>8, Zenon
    <3> QED
      BY <1>1, <2>1, <3>1, Reached, Zenon
<1>10. f \in [0..top -> A]
  <2> HIDE DEF top, A
  <2> QED
    BY Zenon, <1>9, <1>6
<1> QED
  BY <1>7, <1>8, <1>10, Zenon

(* Two prefixes of a path that are equally long are the same.              *)
LEMMA SamePrefix ==
    ASSUME NEW path, NEW y \in Zones, NEW z \in Zones,
           Covers(y, path), Covers(z, path), Len(y) = Len(z)
    PROVE  y = z
<1>1. y \in Seq({y[i] : i \in DOMAIN y}) /\ z \in Seq({z[i] : i \in DOMAIN z})
  BY Zenon, ZonesAssumption
<1>2. /\ DOMAIN y = 1..Len(y) /\ y = [i \in 1..Len(y) |-> y[i]]
      /\ DOMAIN z = 1..Len(z) /\ z = [i \in 1..Len(z) |-> z[i]]
  BY <1>1
<1>3. \A i \in 1..Len(y) : y[i] = z[i]
  BY Zenon DEF Covers
<1> QED
  BY Zenon, <1>2, <1>3

(* What the loop has found after k zones: at most one zone, which covers   *)
(* the path and is as long as any that does.                               *)
FoundIn(found, k, path) ==
    /\ \A m \in found : Covers(m, path)
    /\ \A m, l \in found : m = l
    /\ \A i \in 1..k : Covers(ZoneConfig[i], path) => \E m \in found : Len(ZoneConfig[i]) <= Len(m)

(* The loop keeps the zone that guards the path, the most specific one.    *)
LEMMA ZoneIsGuarding ==
    ASSUME NEW path
    PROVE  zoneForPath(path) = Guarding(path) /\ \A y, z \in Guarding(path) : y = z
<1> DEFINE top == Len(ZoneConfig)
<1>1. top \in Nat /\ (\A i \in 1..top : ZoneConfig[i] \in Zones) /\ DOMAIN ZoneConfig = 1..top
  BY ZonesAssumption
<1>2. \A z \in Zones : Len(z) \in Nat
  BY ZonesAssumption
<1>3. PICK f \in [0..top -> SUBSET Zones] :
         /\ f[0] = {}
         /\ \A i \in 1..top : f[i] = KeepLonger(f[i - 1], ZoneConfig[i], path)
         /\ zoneForPath(path) = f[top]
  BY ZoneSteps, Zenon
<1> HIDE DEF top
<1> DEFINE S == {n \in 0..top : FoundIn(f[n], n, path)}
<1>4. 0 \in S
  BY <1>1, <1>3 DEF FoundIn
<1>5. ASSUME NEW n \in 1..top, n - 1 \in S PROVE n \in S
  <2> DEFINE zone == ZoneConfig[n]
             before == f[n - 1]
  <2>1. FoundIn(before, n - 1, path) /\ f[n] = KeepLonger(before, zone, path) /\ before \subseteq Zones
    BY Zenon, <1>1, <1>3, <1>5
  <2>2. 1..n = 1..(n - 1) \cup {n} /\ zone \in Zones
    BY <1>1
  <2>3. CASE Covers(zone, path) /\ Longer(zone, before)
    <3>1. f[n] = {zone}
      BY Zenon, <2>1, <2>3 DEF KeepLonger
    <3>2. \A m \in before : Len(m) < Len(zone)
      BY Zenon, <1>2, <2>1, <2>2, <2>3 DEF Longer
    <3>3. ASSUME NEW i \in 1..n, Covers(ZoneConfig[i], path) PROVE Len(ZoneConfig[i]) <= Len(zone)
      <4>1. CASE i = n
        BY <4>1, <2>2, <1>2
      <4>2. CASE i \in 1..(n - 1)
        <5>1. PICK m \in before : Len(ZoneConfig[i]) <= Len(m)
          BY Zenon, <2>1, <3>3, <4>2 DEF FoundIn
        <5>2. Len(ZoneConfig[i]) \in Nat /\ Len(m) \in Nat /\ Len(zone) \in Nat /\ Len(m) < Len(zone)
          BY <1>1, <1>2, <2>1, <2>2, <3>2, <5>1
        <5> QED
          BY <5>1, <5>2
      <4> QED
        BY Zenon, <2>2, <4>1, <4>2
    <3>4. FoundIn({zone}, n, path)
      BY Zenon, <2>3, <3>3 DEF FoundIn
    <3> QED
      BY <1>1, <3>1, <3>4, InLoop, Zenon
  <2>4. CASE ~(Covers(zone, path) /\ Longer(zone, before))
    <3>1. f[n] = before
      BY Zenon, <2>1, <2>4 DEF KeepLonger
    <3>2. Covers(zone, path) => \E m \in before : Len(zone) <= Len(m)
      <4>1. SUFFICES ASSUME Covers(zone, path) PROVE \E m \in before : Len(zone) <= Len(m)
        BY Zenon
      <4>2. PICK m \in before : ~(Len(zone) > Len(m))
        BY <2>4, <4>1, Zenon DEF Longer
      <4> QED
        BY <1>2, <2>1, <2>2, <4>2
    <3>3. FoundIn(before, n, path)
      BY Zenon, <2>1, <2>2, <3>2 DEF FoundIn
    <3> QED
      BY <1>1, <3>1, <3>3, InLoop, Zenon
  <2> QED
    BY Zenon, <2>3, <2>4
<1>6. \A n \in 0..top : n \in S
  <2> HIDE DEF S
  <2> QED
    BY <1>1, <1>4, <1>5, UpTo, Zenon
<1>7. FoundIn(zoneForPath(path), top, path) /\ zoneForPath(path) \subseteq Zones
  BY <1>1, <1>3, <1>6
<1>8. ASSUME NEW y \in Zones, Covers(y, path) PROVE \E m \in zoneForPath(path) : Len(y) <= Len(m)
  <2>1. PICK i \in 1..top : y = ZoneConfig[i]
    BY Zenon, <1>1 DEF Zones
  <2> QED
    BY <1>7, <1>8, <2>1, Zenon DEF FoundIn
<1>9. ASSUME NEW z \in zoneForPath(path) PROVE z \in Guarding(path)
  <2>1. z \in Zones /\ Covers(z, path) /\ \A m \in zoneForPath(path) : m = z
    BY <1>7, Zenon DEF FoundIn
  <2>2. \A y \in Zones : Covers(y, path) => Len(y) <= Len(z)
    BY <1>8, <2>1, Zenon
  <2> QED
    BY <2>1, <2>2, Zenon DEF Guarding
<1>10. ASSUME NEW z \in Guarding(path) PROVE z \in zoneForPath(path)
  <2>1. z \in Zones /\ Covers(z, path) /\ \A y \in Zones : Covers(y, path) => Len(y) <= Len(z)
    BY Zenon DEF Guarding
  <2>2. PICK m \in zoneForPath(path) : Len(z) <= Len(m)
    BY <1>8, <2>1, Zenon
  <2>3. m \in Zones /\ Covers(m, path)
    BY <1>7, Zenon DEF FoundIn
  <2>4. Len(m) <= Len(z)
    BY <2>1, <2>3, Zenon
  <2>5. Len(m) = Len(z)
    BY <1>2, <2>1, <2>2, <2>3, <2>4
  <2>6. m = z
    BY <2>1, <2>3, <2>5, SamePrefix, Zenon
  <2> QED
    BY <2>6, Zenon
<1>11. zoneForPath(path) = Guarding(path)
  BY Zenon, <1>9, <1>10
<1>12. \A y, z \in zoneForPath(path) : y = z
  BY <1>7, Zenon DEF FoundIn
<1> QED
  BY <1>11, <1>12, Zenon

(* At the login of a zone, it is the one that guards the page.             *)
BasicIInv == \A c \in challenge : c[1] \in Guarding(visited) /\ c[2] = visited

(* OneLoginOpensThePage holds for all zones and paths.                     *)
THEOREM OneLoginEach == BasicSpec => []OneLoginOpensThePage
<1>1. BasicInit => BasicIInv
  BY Zenon DEF BasicInit, BasicIInv
<1>2. BasicIInv /\ [BasicNext]_basicVars => BasicIInv'
  <2> SUFFICES ASSUME BasicIInv, [BasicNext]_basicVars PROVE BasicIInv'
    BY Zenon
  <2>0. ASSUME NEW path, NEW c \in {loginUrl(zone, path) : zone \in zoneForPath(path)}
        PROVE c[1] \in Guarding(path) /\ c[2] = path
    <3>1. PICK zone \in zoneForPath(path) : c = <<zone, path>>
      BY Zenon DEF loginUrl
    <3>2. zone \in Guarding(path)
      BY ZoneIsGuarding, Zenon
    <3> QED
      BY Zenon, <3>1, <3>2
  <2>1. ASSUME NEW path \in Paths, Visit(path) PROVE BasicIInv'
    <3>1. visited' = path /\ challenge' \subseteq {loginUrl(zone, path) : zone \in zoneForPath(path)}
      BY Zenon, <2>1 DEF Visit, handleUnauthorized
    <3>2. \A c \in challenge' : c[1] \in Guarding(path) /\ c[2] = path
      BY <2>0, <3>1, Zenon
    <3> QED
      BY Zenon, <3>1, <3>2 DEF BasicIInv, Guarding
  <2>2. CASE loginToZone
    <3>1. visited' = visited /\ challenge' = {loginUrl(zone, visited) : zone \in zoneForPath(visited)}
      BY <2>2, Zenon DEF loginToZone
    <3>2. \A c \in challenge' : c[1] \in Guarding(visited) /\ c[2] = visited
      BY <2>0, <3>1, Zenon
    <3> QED
      BY Zenon, <3>1, <3>2 DEF BasicIInv, Guarding
  <2>3. CASE Authenticate
    BY <2>3, Zenon DEF Authenticate, BasicIInv
  <2>4. ASSUME NEW zone \in Zones, Logout(zone) PROVE BasicIInv'
    BY <2>4, Zenon DEF Logout, BasicIInv, Guarding
  <2>5. CASE UNCHANGED basicVars
    BY <2>5, Zenon DEF basicVars, BasicIInv, Guarding
  <2> QED
    BY <2>1, <2>2, <2>3, <2>4, <2>5, Zenon DEF BasicNext
<1>3. BasicIInv => OneLoginOpensThePage
  <2> SUFFICES ASSUME BasicIInv, NEW c \in challenge PROVE {c[1]} = Guarding(visited) /\ c[2] = visited
    BY Zenon DEF OneLoginOpensThePage
  <2>1. c[1] \in Guarding(visited) /\ c[2] = visited
    BY Zenon DEF BasicIInv
  <2>2. \A y, z \in Guarding(visited) : y = z
    BY Zenon, ZoneIsGuarding
  <2> QED
    BY Zenon, <2>1, <2>2
<1> QED
  BY <1>1, <1>2, <1>3, PTL DEF BasicSpec

-----------------------------------------------------------------------------
(* The real-ip resolver *)

(* A read of compile_sources: a source and one of its providers.         *)
SourceReads == {r \in (1..Len(RealipSources)) \X Providers : r[2] \in ProvidersOf(r[1])}

(* The reads of one source.                                              *)
LEMMA ReadsOfSourceTyped ==
    ASSUME NEW i \in 1..Len(RealipSources)
    PROVE  ReadsOfSource(i) \in Seq(SourceReads)
<1> DEFINE from == RealipSources[i].peersFrom
<1>1. from \in Seq(Providers)
  BY RealipAssumption
<1>2. \A k \in DOMAIN from : <<i, from[k]>> \in SourceReads
  BY <1>1 DEF SourceReads, ProvidersOf
<1>3. ReadsOfSource(i) = [k \in DOMAIN from |-> <<i, from[k]>>]
  BY Zenon DEF ReadsOfSource
<1> HIDE DEF from
<1> QED
  BY <1>1, <1>2, <1>3

(* The loop that reads the providers of the sources.                     *)
LEMMA ReadsSteps ==
    \E f \in [0..Len(RealipSources) -> Seq(SourceReads)] :
        /\ f[0] = <<>>
        /\ \A i \in 1..Len(RealipSources) : f[i] = f[i - 1] \o ReadsOfSource(i)
        /\ Reads = f[Len(RealipSources)]
<1> DEFINE top == Len(RealipSources)
           A == Seq(SourceReads)
           Body(g) == [i \in 0..top |-> IF i = 0 THEN <<>> ELSE g[i - 1] \o ReadsOfSource(i)]
           h == [i \in 1..top |-> [s \in A |-> s \o ReadsOfSource(i)]]
           f == CHOOSE g : g = Body(g)
<1>1. top \in Nat /\ <<>> \in A
  BY RealipAssumption
<1>2. \A i \in 1..top : \A s \in A : s \o ReadsOfSource(i) \in A
  BY ReadsOfSourceTyped, <1>1
<1>3. h \in [1..top -> [A -> A]]
  BY <1>2, Zenon
<1>4. PICK g : Iterates(g, A, top, <<>>, h)
  <2> HIDE DEF top, A, h
  <2> QED
    BY <1>1, <1>3, Recursion, Zenon
<1>5. g = Body(g)
  <2>1. ASSUME NEW i \in 1..top PROVE g[i] = g[i - 1] \o ReadsOfSource(i)
    <3>1. i - 1 \in 0..top
      <4> HIDE DEF top
      <4> QED
        BY <1>1
    <3>2. g[i - 1] \in A /\ g[i] = h[i][g[i - 1]]
      BY <3>1, <1>4, Zenon DEF Iterates
    <3> HIDE DEF top, A
    <3> QED
      BY <3>2, Zenon
  <2>2. g[0] = <<>> /\ g = [i \in 0..top |-> g[i]]
    BY <1>4, Zenon DEF Iterates
  <2>3. ASSUME NEW i \in 0..top PROVE g[i] = IF i = 0 THEN <<>> ELSE g[i - 1] \o ReadsOfSource(i)
    BY <1>1, <2>1, <2>2, InLoop, Zenon
  <2> QED
    BY <2>2, <2>3, Zenon
<1>6. f = Body(f)
  <2> HIDE DEF Body
  <2> QED
    BY <1>5, Zenon
<1>7. Reads = f[top]
  BY Zenon DEF Reads
<1> HIDE DEF f
<1>8. f[0] = <<>> /\ \A i \in 1..top : f[i] = f[i - 1] \o ReadsOfSource(i)
  <2>1. \A i \in 0..top : f[i] = IF i = 0 THEN <<>> ELSE f[i - 1] \o ReadsOfSource(i)
    BY <1>6, Zenon
  <2> HIDE DEF top
  <2> QED
    BY <1>1, <2>1, InLoop, Zenon
<1>9. \A i \in 0..top : f[i] \in A
  <2>1. ASSUME NEW n \in 1..top, f[n - 1] \in A PROVE f[n] \in A
    BY <1>2, <2>1, <1>8, Zenon
  <2> HIDE DEF top, A
  <2> QED
    BY <2>1, <1>8, Reached, <1>1, Zenon
<1>10. f \in [0..top -> A]
  <2> HIDE DEF top, A
  <2> QED
    BY Zenon, <1>9, <1>6
<1> QED
  BY <1>7, <1>8, <1>10, Zenon

(* Every read is of a provider of its source.                            *)
LEMMA ReadsTyped == Reads \in Seq(SourceReads)
<1>1. Len(RealipSources) \in Nat
  BY RealipAssumption
<1> QED
  BY <1>1, ReadsSteps

(* The headers of a request.                                             *)
LEMMA HeaderTyped ==
    ASSUME NEW input \in Inputs, NEW kind \in HeaderKinds
    PROVE  input.headers[kind] \in Seq(Ips \cup {Junk})
  BY Zenon, RealipAssumption

(* One part of a header.                                                 *)
ParsePart(parsed, part) == IF part = Junk THEN parsed ELSE Append(parsed, part)

(* The loop that parses a header.                                        *)
LEMMA ParseSteps ==
    ASSUME NEW input \in Inputs, NEW kind \in HeaderKinds
    PROVE  \E f \in [0..Len(input.headers[kind]) -> Seq(Ips \cup {Junk})] :
             /\ f[0] = <<>>
             /\ \A i \in 1..Len(input.headers[kind]) : f[i] = ParsePart(f[i - 1], input.headers[kind][i])
             /\ Chain(kind, input) = f[Len(input.headers[kind])]
<1> DEFINE top == Len(input.headers[kind])
           A == Seq(Ips \cup {Junk})
           Body(g) == [i \in 0..top |-> IF i = 0 THEN <<>> ELSE ParsePart(g[i - 1], input.headers[kind][i])]
           h == [i \in 1..top |-> [s \in A |-> ParsePart(s, input.headers[kind][i])]]
           f == CHOOSE g : g = Body(g)
<1>1. top \in Nat /\ <<>> \in A
  BY HeaderTyped
<1>2. \A i \in 1..top : \A s \in A : ParsePart(s, input.headers[kind][i]) \in A
  BY HeaderTyped DEF ParsePart
<1>3. h \in [1..top -> [A -> A]]
  BY <1>2, Zenon
<1>4. PICK g : Iterates(g, A, top, <<>>, h)
  <2> HIDE DEF top, A, h
  <2> QED
    BY <1>1, <1>3, Recursion, Zenon
<1>5. g = Body(g)
  <2>1. ASSUME NEW i \in 1..top PROVE g[i] = ParsePart(g[i - 1], input.headers[kind][i])
    <3>1. i - 1 \in 0..top
      <4> HIDE DEF top
      <4> QED
        BY <1>1
    <3>2. g[i - 1] \in A /\ g[i] = h[i][g[i - 1]]
      BY <3>1, <1>4, Zenon DEF Iterates
    <3> HIDE DEF top, A
    <3> QED
      BY <3>2, Zenon
  <2> HIDE DEF top, A
  <2> QED
    BY <2>1, <1>1, <1>4 DEF Iterates
<1>6. f = Body(f)
  <2> HIDE DEF Body
  <2> QED
    BY <1>5, Zenon
<1>7. Chain(kind, input) = f[top]
  BY Zenon DEF Chain, ParsePart
<1> HIDE DEF f
<1>8. f[0] = <<>> /\ \A i \in 1..top : f[i] = ParsePart(f[i - 1], input.headers[kind][i])
  <2> HIDE DEF top
  <2> QED
    BY <1>6, <1>1
<1>9. \A i \in 0..top : f[i] \in A
  <2>1. ASSUME NEW n \in 1..top, f[n - 1] \in A PROVE f[n] \in A
    BY <1>2, <2>1, <1>8, Zenon
  <2> HIDE DEF top, A
  <2> QED
    BY <2>1, <1>8, Reached, <1>1, Zenon
<1>10. f \in [0..top -> A]
  <2> HIDE DEF top, A
  <2> QED
    BY Zenon, <1>9, <1>6
<1> QED
  BY <1>7, <1>8, <1>10, Zenon

(* A parsed header is a chain.                                           *)
LEMMA ChainTyped ==
    ASSUME NEW input \in Inputs, NEW kind \in HeaderKinds
    PROVE  Chain(kind, input) \in Seq(Ips \cup {Junk})
<1>1. Len(input.headers[kind]) \in Nat
  BY HeaderTyped
<1>2. PICK f \in [0..Len(input.headers[kind]) -> Seq(Ips \cup {Junk})] :
         Chain(kind, input) = f[Len(input.headers[kind])]
  BY ParseSteps, Zenon
<1> QED
  BY <1>1, <1>2

(* The first index of a set.                                             *)
LEMMA EarliestIs ==
    ASSUME NEW is, is \subseteq Nat, is # {}
    PROVE  Earliest(is) \in is /\ \A j \in is : Earliest(is) <= j
<1>1. \E i \in is : \A j \in is : i <= j
  BY LeastNumber, Zenon
<1> QED
  BY <1>1, Zenon DEF Earliest

(* Reading a chain from the right, resolve_from_chain stops at the nearest *)
(* hop that is not trusted, or at the beginning of the chain.            *)
LEMMA NearestHop ==
    ASSUME NEW V, NEW chain \in Seq(V), NEW trusted, NEW ip,
           ip = ResolveFromChain(chain, trusted, "right-to-left")
    PROVE  IF chain = <<>> THEN ip = NoIp
           ELSE \E i \in DOMAIN chain :
                  /\ chain[i] = ip
                  /\ \A j \in i + 1 .. Len(chain) : chain[j] \in trusted
                  /\ ip \notin trusted \/ i = 1
<1> DEFINE walk == Reversed(chain)
           untrusted == {i \in DOMAIN walk : walk[i] \notin trusted}
           top == Len(chain)
<1>1. /\ top \in Nat /\ DOMAIN chain = 1..top /\ DOMAIN walk = 1..top /\ walk \in Seq(V)
      /\ Len(walk) = top /\ \A i \in 1..top : walk[i] = chain[top + 1 - i]
  <2>1. top \in Nat /\ DOMAIN chain = 1..top
    OBVIOUS
  <2>2. \A i \in 1..top : top + 1 - i \in 1..top /\ chain[top + 1 - i] \in V
    OBVIOUS
  <2>3. walk = [i \in 1..top |-> chain[top + 1 - i]]
    BY Zenon, <2>1 DEF Reversed
  <2> HIDE DEF walk, top
  <2> QED
    BY <2>1, <2>2, <2>3
<1>2. chain = <<>> <=> top = 0
  OBVIOUS
<1>3. ip = IF untrusted # {} THEN walk[Earliest(untrusted)]
           ELSE IF walk # <<>> THEN walk[Len(walk)] ELSE NoIp
  BY Zenon DEF ResolveFromChain
<1>4. walk = <<>> <=> top = 0
  <2> HIDE DEF walk, top
  <2> QED
    BY <1>1
<1>5. \A i \in 1..top : i \in untrusted <=> walk[i] \notin trusted
  BY Zenon, <1>1
<1>6. untrusted \subseteq 1..top
  BY Zenon, <1>1
<1> HIDE DEF walk, untrusted, top
<1>7. CASE untrusted # {}
  <2> DEFINE m == Earliest(untrusted)
             i == top + 1 - m
  <2>0. untrusted \subseteq Nat
    BY <1>1, <1>6
  <2>1. m \in untrusted /\ \A j \in untrusted : m <= j
    BY <1>7, <2>0, EarliestIs, Zenon
  <2>2. m \in 1..top /\ ip = walk[m]
    BY Zenon, <1>3, <1>6, <1>7, <2>1
  <2> HIDE DEF m
  <2>3. i \in 1..top /\ chain[i] = ip /\ ip \notin trusted
    BY <1>1, <1>5, <2>1, <2>2
  <2>4. ASSUME NEW j \in i + 1 .. top PROVE chain[j] \in trusted
    <3>1. top + 1 - j \in 1..top /\ ~(m <= top + 1 - j) /\ top + 1 - (top + 1 - j) = j
      BY <1>1, <2>2
    <3>2. top + 1 - j \notin untrusted
      BY <2>1, <3>1, Zenon
    <3>3. walk[top + 1 - j] \in trusted
      BY <1>5, <3>1, <3>2, Zenon
    <3> QED
      BY Zenon, <1>1, <3>1, <3>3
  <2>5. top # 0
    BY <1>1, <2>2
  <2> HIDE DEF i
  <2> QED
    BY Zenon, <1>1, <1>2, <2>3, <2>4, <2>5 DEF top
<1>8. CASE untrusted = {} /\ top # 0
  <2>1. ip = walk[top] /\ 1 \in 1..top /\ top \in 1..top /\ top + 1 - top = 1
    BY <1>1, <1>3, <1>4, <1>8
  <2>2. ip = chain[1]
    BY Zenon, <1>1, <2>1
  <2>3. ASSUME NEW j \in 1 + 1 .. top PROVE chain[j] \in trusted
    <3>1. top + 1 - j \in 1..top /\ top + 1 - (top + 1 - j) = j
      BY <1>1
    <3>2. walk[top + 1 - j] \in trusted
      BY <1>5, <1>8, <3>1, Zenon
    <3> QED
      BY Zenon, <1>1, <3>1, <3>2
  <2> QED
    BY Zenon, <1>1, <1>2, <1>8, <2>1, <2>2, <2>3 DEF top
<1>9. CASE untrusted = {} /\ top = 0
  BY Zenon, <1>2, <1>3, <1>4, <1>9
<1> QED
  BY <1>7, <1>8, <1>9, Zenon

(* The sources have a first one in the sorted order.                     *)
LEMMA FirstSource ==
    ASSUME NEW is, is \subseteq 1..Len(RealipSources), is # {}
    PROVE  First(is) \in is
<1> DEFINE top == Len(RealipSources)
           IsFirst(i, js) == i \in js /\ \A j \in js \ {i} : Before(i, j)
           S == {n \in 0..top : \A js \in SUBSET (1..n) : js # {} => \E i \in js : IsFirst(i, js)}
<1>1. top \in Nat /\ \A i \in 1..top : RealipSources[i].priority \in Int
  BY RealipAssumption
<1> HIDE DEF top
<1>2. \A i, j, k \in 1..top : Before(i, j) /\ Before(j, k) => Before(i, k)
  BY <1>1 DEF Before
<1>3. \A i, j \in 1..top : i # j => Before(i, j) \/ Before(j, i)
  BY <1>1 DEF Before
<1>4. 0 \in S
  <2>1. \A js \in SUBSET (1..0) : js = {}
    OBVIOUS
  <2> QED
    BY <1>1, <2>1, InLoop, Zenon
<1>5. ASSUME NEW n \in 1..top, n - 1 \in S PROVE n \in S
  <2>1. SUFFICES ASSUME NEW js \in SUBSET (1..n), js # {} PROVE \E i \in js : IsFirst(i, js)
    BY <1>1
  <2> DEFINE rest == js \ {n}
  <2>2. rest \in SUBSET (1..(n - 1)) /\ n \in 1..top /\ 1..n \subseteq 1..top
    BY <1>1
  <2>3. CASE n \notin js
    <3>1. js \in SUBSET (1..(n - 1))
      BY Zenon, <2>2, <2>3
    <3> QED
      BY Zenon, <1>5, <2>1, <3>1
  <2>4. CASE n \in js /\ rest = {}
    BY Zenon, <2>4
  <2>5. CASE n \in js /\ rest # {}
    <3>1. PICK m \in rest : IsFirst(m, rest)
      <4> HIDE DEF rest, IsFirst
      <4> QED
        BY Zenon, <1>5, <2>2, <2>5
    <3>2. m \in 1..top /\ m # n /\ m \in js
      BY Zenon, <2>2
    <3>3. CASE Before(m, n)
      <4>1. IsFirst(m, js)
        BY Zenon, <3>1, <3>2, <3>3
      <4> QED
        BY Zenon, <3>2, <4>1
    <3>4. CASE Before(n, m)
      <4>1. ASSUME NEW j \in js \ {n} PROVE Before(n, j)
        <5>1. j \in 1..top /\ (j = m \/ Before(m, j))
          BY Zenon, <2>2, <3>1
        <5> QED
          BY Zenon, <1>2, <2>2, <3>2, <3>4, <5>1
      <4>2. IsFirst(n, js)
        BY Zenon, <2>5, <4>1
      <4> QED
        BY Zenon, <2>5, <4>2
    <3> QED
      BY Zenon, <1>3, <2>2, <3>2, <3>3, <3>4
  <2> QED
    BY Zenon, <2>3, <2>4, <2>5
<1>6. \A n \in 0..top : n \in S
  <2> HIDE DEF S
  <2> QED
    BY <1>1, <1>4, <1>5, UpTo, Zenon
<1>7. \E i \in is : \A j \in is \ {i} : Before(i, j)
  <2>1. top \in S /\ is \in SUBSET (1..top)
    BY <1>1, <1>6 DEF top
  <2> QED
    BY Zenon, <2>1
<1> QED
  BY <1>7, Zenon DEF First

(* An answer of the resolver that is not the peer itself comes from a    *)
(* source that knows the peer.                                           *)
LEMMA ResolvedFrom ==
    ASSUME NEW peers, NEW trusted, NEW input, NEW result,
           result = ResolveIp(peers, trusted, input), result.kind # "fallback"
    PROVE  result.source \in 1..Len(RealipSources) /\ input.peer \in peers[result.source]
<1> DEFINE found == {i \in DOMAIN RealipSources :
                        input.peer \in peers[i] /\ FromSource(i, trusted, input).source = i}
<1>1. DOMAIN RealipSources = 1..Len(RealipSources)
  BY RealipAssumption
<1>2. found # {} /\ result = FromSource(First(found), trusted, input)
  BY Zenon DEF ResolveIp
<1>3. found \subseteq 1..Len(RealipSources)
  BY Zenon, <1>1
<1>4. First(found) \in found
  <2> HIDE DEF found
  <2> QED
    BY <1>2, <1>3, FirstSource, Zenon
<1>5. result.source = First(found) /\ input.peer \in peers[First(found)]
  BY Zenon, <1>2, <1>4
<1> QED
  BY <1>3, <1>4, <1>5, Zenon

(* The tasks hold lists that are good enough to be stored, and a request *)
(* has collected no address that its source's providers did not list while *)
(* it ran.                                                               *)
Registries == {new \in [Providers -> SUBSET Ips] : \A p \in Providers \ ClearOnFailure : new[p] # {}}

GoodTask(p, loader) ==
    \/ loader = TaskWaits
    \/ /\ loader \in [pc : {"loaded"}, loaded : SUBSET Ips]
       /\ p \notin ClearOnFailure => loader.loaded # {}
    \/ loader \in [pc : {"replacing"}, new : Registries]

ReadingRecords == [pc : {"reading"}, next : Nat \ {0}, peers : [DOMAIN RealipSources -> SUBSET Ips],
                   seen : [Providers -> SUBSET Ips]]

GoodReading(req, pub) ==
    /\ req \in ReadingRecords
    /\ \A p \in Providers : pub[p] \subseteq req.seen[p]
    /\ \A i \in DOMAIN RealipSources : \A ip \in req.peers[i] :
         \E p \in ProvidersOf(i) : ip \in req.seen[p]

GoodResolved(req) ==
    /\ req.pc = "resolved" /\ req.input \in Inputs
    /\ req.result.kind # "fallback" =>
         \E p \in ProvidersOf(req.result.source) : req.input.peer \in req.seen[p]

GoodResolution(req, pub) == req = TaskWaits \/ GoodReading(req, pub) \/ GoodResolved(req)

RealipIInv ==
    /\ published \in Registries
    /\ DOMAIN refresher = Providers /\ refresher = [p \in Providers |-> refresher[p]]
    /\ \A p \in Providers : GoodTask(p, refresher[p])
    /\ resolution = [r \in Resolutions |-> resolution[r]]
    /\ \A r \in Resolutions : GoodResolution(resolution[r], published)

(* A step of one task.                                                     *)
LEMMA OneTaskChanges ==
    ASSUME RealipIInv, NEW p \in Providers, NEW loader, GoodTask(p, loader),
           refresher' = [refresher EXCEPT ![p] = loader]
    PROVE  /\ refresher' = [q \in Providers |-> refresher'[q]]
           /\ \A q \in Providers : GoodTask(q, refresher'[q])
<1>1. refresher = [q \in Providers |-> refresher[q]] /\ \A q \in Providers : GoodTask(q, refresher[q])
  BY Zenon DEF RealipIInv
<1>2. refresher' = [q \in Providers |-> refresher'[q]]
      /\ \A q \in Providers : refresher'[q] = IF q = p THEN loader ELSE refresher[q]
  BY Zenon, <1>1
<1> QED
  BY <1>1, <1>2, Zenon

(* The invariant of the next state, from its parts.                      *)
LEMMA RealipAfter ==
    ASSUME published' \in Registries,
           refresher' = [q \in Providers |-> refresher'[q]],
           \A q \in Providers : GoodTask(q, refresher'[q]),
           resolution' = [r \in Resolutions |-> resolution'[r]],
           \A r \in Resolutions : GoodResolution(resolution'[r], published')
    PROVE  RealipIInv'
<1>1. (\A q \in Providers : GoodTask(q, refresher[q]))'
  BY Zenon DEF GoodTask
<1>2. (\A r \in Resolutions : GoodResolution(resolution[r], published))'
  BY Zenon DEF GoodResolution, GoodReading, GoodResolved
<1>3. DOMAIN refresher' = Providers
  BY Zenon
<1> QED
  BY <1>1, <1>2, <1>3, Zenon DEF RealipIInv

(* A step of one request.                                                *)
LEMMA OneRequestChanges ==
    ASSUME RealipIInv, NEW r \in Resolutions, NEW req, GoodResolution(req, published),
           resolution' = [resolution EXCEPT ![r] = req], UNCHANGED <<published, refresher>>
    PROVE  RealipIInv'
<1>1. /\ resolution = [s \in Resolutions |-> resolution[s]]
      /\ \A s \in Resolutions : GoodResolution(resolution[s], published)
      /\ refresher = [q \in Providers |-> refresher[q]] /\ published \in Registries
      /\ \A q \in Providers : GoodTask(q, refresher[q])
  BY Zenon DEF RealipIInv
<1>2. /\ resolution' = [s \in Resolutions |-> resolution'[s]]
      /\ \A s \in Resolutions : resolution'[s] = IF s = r THEN req ELSE resolution[s]
  BY Zenon, <1>1
<1>3. \A s \in Resolutions : GoodResolution(resolution'[s], published)
  BY <1>1, <1>2, Zenon
<1>4. published' = published /\ refresher' = refresher
  BY Zenon
<1>5. published' \in Registries /\ refresher' = [q \in Providers |-> refresher'[q]]
      /\ (\A q \in Providers : GoodTask(q, refresher'[q]))
      /\ \A s \in Resolutions : GoodResolution(resolution'[s], published')
  BY <1>1, <1>3, <1>4, Zenon
<1> QED
  BY <1>2, <1>5, RealipAfter, Zenon

(* A task that loads or reads leaves the registry and the requests alone.  *)
LEMMA TaskKeeps ==
    ASSUME RealipIInv, NEW p \in Providers, NEW loader, GoodTask(p, loader),
           refresher' = [refresher EXCEPT ![p] = loader], UNCHANGED <<published, resolution>>
    PROVE  RealipIInv'
<1>1. published' = published /\ resolution' = resolution
  BY Zenon
<1>2. refresher' = [q \in Providers |-> refresher'[q]] /\ \A q \in Providers : GoodTask(q, refresher'[q])
  BY OneTaskChanges, Zenon
<1>3. published' \in Registries /\ resolution' = [r \in Resolutions |-> resolution'[r]]
      /\ \A r \in Resolutions : GoodResolution(resolution'[r], published')
  BY <1>1, Zenon DEF RealipIInv
<1> QED
  BY <1>2, <1>3, RealipAfter, Zenon

(* A refresh that loads its provider or fails to leaves the published    *)
(* peers as they are.                                                    *)
LEMMA LoadKeeps ==
    ASSUME RealipIInv, NEW p \in Providers, NEW list \in Lists, LoadProvider(p, list)
    PROVE  RealipIInv'
<1> DEFINE loader == [pc |-> "loaded", loaded |-> list]
<1>1. refresher' = [refresher EXCEPT ![p] = loader] /\ UNCHANGED <<published, resolution>>
      /\ (list # {} \/ p \in ClearOnFailure)
  BY Zenon DEF LoadProvider
<1>2. list \in SUBSET Ips
  BY Zenon, RealipAssumption
<1>3. GoodTask(p, loader)
  BY Zenon, <1>1, <1>2 DEF GoodTask
<1> HIDE DEF loader
<1> QED
  BY <1>1, <1>3, TaskKeeps, Zenon

(* The refresh reads the registry that it is about to replace.           *)
LEMMA ReplaceReadsKeeps ==
    ASSUME RealipIInv, NEW p \in Providers, ReplaceReads(p)
    PROVE  RealipIInv'
<1> DEFINE new == [published EXCEPT ![p] = refresher[p].loaded]
           loader == [pc |-> "replacing", new |-> new]
<1>1. refresher' = [refresher EXCEPT ![p] = loader] /\ UNCHANGED <<published, resolution>>
      /\ refresher[p].pc = "loaded"
  BY Zenon DEF ReplaceReads
<1>2. GoodTask(p, refresher[p]) /\ published \in Registries
  BY Zenon DEF RealipIInv
<1>3. refresher[p].loaded \in SUBSET Ips /\ (p \notin ClearOnFailure => refresher[p].loaded # {})
  BY <1>1, <1>2 DEF GoodTask, TaskWaits
<1>4. new \in Registries
  BY Zenon, <1>2, <1>3 DEF Registries
<1> HIDE DEF new
<1>5. GoodTask(p, loader)
  BY Zenon, <1>4 DEF GoodTask
<1> HIDE DEF loader
<1> QED
  BY <1>1, <1>5, TaskKeeps, Zenon

(* A reading request is told of what is published while it runs.         *)
LEMMA SeenKeeps ==
    ASSUME RealipIInv, NEW r \in Resolutions, NEW new \in Registries
    PROVE  GoodResolution(IF resolution[r].pc # "reading" THEN resolution[r]
                          ELSE [resolution[r] EXCEPT !.seen = SeenBy(r, new)], new)
<1> DEFINE req == resolution[r]
           wider == [req EXCEPT !.seen = SeenBy(r, new)]
<1>1. GoodResolution(req, published)
  BY Zenon DEF RealipIInv
<1>2. CASE req.pc # "reading"
  <2>1. req = TaskWaits \/ GoodResolved(req)
    BY Zenon, <1>1, <1>2 DEF GoodResolution, GoodReading, ReadingRecords
  <2> QED
    BY <1>2, <2>1, Zenon DEF GoodResolution
<1>3. CASE req.pc = "reading"
  <2>1. GoodReading(req, published)
    BY <1>1, <1>3 DEF GoodResolution, TaskWaits, GoodResolved
  <2>2. req \in ReadingRecords /\ req.seen \in [Providers -> SUBSET Ips] /\ new \in [Providers -> SUBSET Ips]
    BY Zenon, <2>1 DEF GoodReading, ReadingRecords, Registries
  <2>3. SeenBy(r, new) \in [Providers -> SUBSET Ips]
        /\ \A p \in Providers : SeenBy(r, new)[p] = req.seen[p] \cup new[p]
    BY Zenon, <2>2 DEF SeenBy
  <2>4. wider \in ReadingRecords /\ wider.seen = SeenBy(r, new) /\ wider.peers = req.peers
    <3> HIDE DEF req
    <3> QED
      BY Zenon, <2>2, <2>3 DEF ReadingRecords
  <2>5. \A i \in DOMAIN RealipSources : ProvidersOf(i) \subseteq Providers
    BY RealipAssumption DEF ProvidersOf
  <2> HIDE DEF req, wider
  <2>6. \A p \in Providers : new[p] \subseteq wider.seen[p]
    BY Zenon, <2>3, <2>4
  <2>7. ASSUME NEW i \in DOMAIN RealipSources, NEW ip \in wider.peers[i]
        PROVE \E p \in ProvidersOf(i) : ip \in wider.seen[p]
    <3>1. PICK p \in ProvidersOf(i) : ip \in req.seen[p]
      BY <2>1, <2>4, Zenon DEF GoodReading
    <3>2. p \in Providers
      BY <2>5, Zenon
    <3>3. ip \in wider.seen[p]
      BY Zenon, <2>3, <2>4, <3>1, <3>2
    <3> QED
      BY <3>3, Zenon
  <2>8. GoodReading(wider, new)
    BY <2>4, <2>6, <2>7, Zenon DEF GoodReading
  <2> QED
    BY <1>3, <2>8, Zenon DEF GoodResolution, req, wider
<1> QED
  BY <1>2, <1>3, Zenon DEF req

(* The refresh stores its registry: the other providers keep what they   *)
(* had.                                                                  *)
LEMMA ReplaceStoresKeeps ==
    ASSUME RealipIInv, NEW p \in Providers, ReplaceStores(p)
    PROVE  RealipIInv'
<1> DEFINE new == refresher[p].new
<1>1. published' = new /\ refresher' = [refresher EXCEPT ![p] = TaskWaits] /\ refresher[p].pc = "replacing"
      /\ resolution' = [r \in Resolutions |->
           IF resolution[r].pc # "reading" THEN resolution[r]
           ELSE [resolution[r] EXCEPT !.seen = SeenBy(r, new)]]
  BY Zenon DEF ReplaceStores
<1>2. GoodTask(p, refresher[p])
  BY Zenon DEF RealipIInv
<1>3. new \in Registries
  BY <1>1, <1>2 DEF GoodTask, TaskWaits
<1> HIDE DEF new
<1>4. \A r \in Resolutions : GoodResolution(resolution'[r], new)
  BY <1>1, <1>3, SeenKeeps, Zenon
<1>5. GoodTask(p, TaskWaits)
  BY Zenon DEF GoodTask
<1>6. refresher' = [q \in Providers |-> refresher'[q]] /\ \A q \in Providers : GoodTask(q, refresher'[q])
  BY <1>1, <1>5, OneTaskChanges, Zenon
<1>7. published' \in Registries /\ \A r \in Resolutions : GoodResolution(resolution'[r], published')
  BY <1>1, <1>3, <1>4, Zenon
<1>8. resolution' = [r \in Resolutions |-> resolution'[r]]
  BY Zenon, <1>1
<1> QED
  BY <1>6, <1>7, <1>8, RealipAfter, Zenon

(* A request arrives and starts with no peer read.                       *)
LEMMA ArrivesKeeps ==
    ASSUME RealipIInv, NEW r \in Resolutions, RequestArrives(r)
    PROVE  RealipIInv'
<1> DEFINE req == [pc |-> "reading", next |-> 1, peers |-> [i \in DOMAIN RealipSources |-> {}],
                   seen |-> published]
<1>1. resolution' = [resolution EXCEPT ![r] = req] /\ UNCHANGED <<published, refresher>>
  BY Zenon DEF RequestArrives
<1>2. published \in [Providers -> SUBSET Ips]
  BY Zenon DEF RealipIInv, Registries
<1>3. req \in ReadingRecords /\ req.seen = published /\ \A i \in DOMAIN RealipSources : req.peers[i] = {}
  BY <1>2 DEF ReadingRecords
<1> HIDE DEF req
<1>4. GoodReading(req, published)
  BY Zenon, <1>3 DEF GoodReading
<1>5. GoodResolution(req, published)
  BY <1>4, Zenon DEF GoodResolution
<1> QED
  BY <1>1, <1>5, OneRequestChanges, Zenon

(* A request reads the snapshot of one provider of a source.             *)
LEMMA SnapshotKeeps ==
    ASSUME RealipIInv, NEW r \in Resolutions, ReadSnapshot(r)
    PROVE  RealipIInv'
<1> DEFINE old == resolution[r]
           read == Reads[old.next]
           req == [old EXCEPT !.next = @ + 1, !.peers[read[1]] = @ \cup published[read[2]]]
<1>1. old.pc = "reading" /\ old.next <= Len(Reads) /\ UNCHANGED <<published, refresher>>
  BY Zenon DEF ReadSnapshot
<1>2. resolution' = [resolution EXCEPT ![r] = req]
  BY Zenon DEF ReadSnapshot, RealipIInv
<1>3. GoodReading(old, published) /\ published \in [Providers -> SUBSET Ips]
  <2>1. GoodResolution(old, published) /\ published \in Registries
    BY Zenon DEF RealipIInv
  <2> QED
    BY <1>1, <2>1 DEF GoodResolution, GoodResolved, TaskWaits, Registries
<1> HIDE DEF old
<1>4. old \in ReadingRecords /\ old.next \in Nat \ {0} /\ old.peers \in [DOMAIN RealipSources -> SUBSET Ips]
  BY Zenon, <1>3 DEF GoodReading, ReadingRecords
<1>5. read \in SourceReads
  BY <1>1, <1>4, ReadsTyped
<1>6. read[1] \in DOMAIN RealipSources /\ read[2] \in Providers /\ read[2] \in ProvidersOf(read[1])
  <2>1. DOMAIN RealipSources = 1..Len(RealipSources)
    BY RealipAssumption
  <2> HIDE DEF read
  <2> QED
    BY Zenon, <1>5, <2>1 DEF SourceReads
<1> HIDE DEF read
<1>7. req \in ReadingRecords /\ req.seen = old.seen
      /\ req.peers = [old.peers EXCEPT ![read[1]] = @ \cup published[read[2]]]
  <2> DEFINE peers == [old.peers EXCEPT ![read[1]] = @ \cup published[read[2]]]
  <2>1. published[read[2]] \subseteq Ips
    BY <1>3, <1>6, Zenon
  <2>2. peers \in [DOMAIN RealipSources -> SUBSET Ips]
    BY Zenon, <1>4, <1>6, <2>1
  <2>3. old.next + 1 \in Nat \ {0}
    BY <1>4
  <2>4. req = [old EXCEPT !.next = old.next + 1, !.peers = peers]
    BY Zenon, <1>4 DEF ReadingRecords
  <2> HIDE DEF peers, req
  <2>5. req \in ReadingRecords /\ req.seen = old.seen /\ req.peers = peers
    BY Zenon, <1>4, <2>2, <2>3, <2>4 DEF ReadingRecords
  <2> QED
    BY <2>5, Zenon DEF peers
<1> HIDE DEF req
<1>8. \A i \in DOMAIN RealipSources :
        req.peers[i] = IF i = read[1] THEN old.peers[i] \cup published[read[2]] ELSE old.peers[i]
  BY Zenon, <1>4, <1>6, <1>7
<1>9. ASSUME NEW i \in DOMAIN RealipSources, NEW ip \in req.peers[i]
      PROVE \E p \in ProvidersOf(i) : ip \in req.seen[p]
  <2>1. CASE ip \in old.peers[i]
    BY <1>3, <1>7, <2>1, Zenon DEF GoodReading
  <2>2. CASE i = read[1] /\ ip \in published[read[2]]
    <3>1. published[read[2]] \subseteq old.seen[read[2]]
      BY <1>3, <1>6, Zenon DEF GoodReading
    <3>2. ip \in req.seen[read[2]] /\ read[2] \in ProvidersOf(i)
      BY Zenon, <1>6, <1>7, <2>2, <3>1
    <3> QED
      BY <3>2, Zenon
  <2> QED
    BY Zenon, <1>8, <2>1, <2>2
<1>10. GoodReading(req, published)
  BY <1>3, <1>7, <1>9, Zenon DEF GoodReading
<1>11. GoodResolution(req, published)
  BY <1>10, Zenon DEF GoodResolution
<1> QED
  BY <1>1, <1>2, <1>11, OneRequestChanges, Zenon

(* A request whose reads are done resolves its address.                  *)
LEMMA TrustedKeeps ==
    ASSUME RealipIInv, NEW r \in Resolutions, NEW input \in Inputs, ReadTrusted(r, input)
    PROVE  RealipIInv'
<1> DEFINE old == resolution[r]
           trusted == UNION {published[p] : p \in Providers}
           result == ResolveIp(old.peers, trusted, input)
           req == [pc |-> "resolved", input |-> input, seen |-> old.seen, result |-> result]
<1>1. old.pc = "reading" /\ resolution' = [resolution EXCEPT ![r] = req] /\ UNCHANGED <<published, refresher>>
  BY Zenon DEF ReadTrusted
<1>2. GoodReading(old, published)
  <2>1. GoodResolution(old, published)
    BY Zenon DEF RealipIInv
  <2> QED
    BY <1>1, <2>1 DEF GoodResolution, GoodResolved, TaskWaits
<1> HIDE DEF old, trusted
<1>3. ASSUME result.kind # "fallback"
      PROVE \E p \in ProvidersOf(result.source) : input.peer \in old.seen[p]
  <2>1. result.source \in 1..Len(RealipSources) /\ input.peer \in old.peers[result.source]
    <3> QED
      BY <1>3, ResolvedFrom, Zenon
  <2>2. DOMAIN RealipSources = 1..Len(RealipSources)
    BY RealipAssumption
  <2> HIDE DEF result
  <2> QED
    BY <1>2, <2>1, <2>2, Zenon DEF GoodReading
<1> HIDE DEF result
<1>4. GoodResolved(req)
  BY Zenon, <1>3 DEF GoodResolved
<1> HIDE DEF req
<1>5. GoodResolution(req, published)
  BY <1>4, Zenon DEF GoodResolution
<1> QED
  BY <1>1, <1>5, OneRequestChanges, Zenon

(* RealipTrustsItsPeers holds for all providers, policies, sources, inputs *)
(* and numbers of requests.                                              *)
THEOREM RealipIsTrusted == RealipSpec => []RealipTrustsItsPeers
<1>1. RealipInit => RealipIInv
  <2> SUFFICES ASSUME RealipInit PROVE RealipIInv
    BY Zenon
  <2>1. published \in Registries
    BY Zenon, RealipAssumption DEF RealipInit, Registries
  <2>2. refresher = [p \in Providers |-> TaskWaits] /\ resolution = [r \in Resolutions |-> TaskWaits]
    BY Zenon DEF RealipInit
  <2> HIDE DEF RealipInit
  <2>3. /\ DOMAIN refresher = Providers /\ refresher = [p \in Providers |-> refresher[p]]
        /\ resolution = [r \in Resolutions |-> resolution[r]]
        /\ (\A p \in Providers : refresher[p] = TaskWaits)
        /\ \A r \in Resolutions : resolution[r] = TaskWaits
    BY Zenon, <2>2
  <2> QED
    BY <2>1, <2>3, Zenon DEF RealipIInv, GoodTask, GoodResolution
<1>2. RealipIInv /\ [RealipNext]_realipVars => RealipIInv'
  <2> SUFFICES ASSUME RealipIInv, [RealipNext]_realipVars PROVE RealipIInv'
    BY Zenon
  <2>1. CASE UNCHANGED realipVars
    <3>1. published' = published /\ refresher' = refresher /\ resolution' = resolution
      BY <2>1, Zenon DEF realipVars
    <3> QED
      BY <3>1, RealipAfter, Zenon DEF RealipIInv
  <2> QED
    BY <2>1, LoadKeeps, ReplaceReadsKeeps, ReplaceStoresKeeps, ArrivesKeeps, SnapshotKeeps,
       TrustedKeeps, Zenon DEF RealipNext
<1>3. RealipIInv => RealipTrustsItsPeers
  <2> SUFFICES ASSUME RealipIInv PROVE RealipTrustsItsPeers
    BY Zenon
  <2>1. KeepsLastGood
    BY Zenon DEF RealipIInv, Registries, KeepsLastGood
  <2>2. ASSUME NEW r \in Resolutions, resolution[r].pc = "resolved" PROVE GoodResolved(resolution[r])
    <3>1. GoodResolution(resolution[r], published)
      BY Zenon DEF RealipIInv
    <3> QED
      BY <2>2, <3>1 DEF GoodResolution, GoodReading, ReadingRecords, TaskWaits
  <2>3. OnlyTrustedPeersSpeak
    BY <2>2, Zenon DEF OnlyTrustedPeersSpeak, GoodResolved
  <2>4. NearestUntrustedHop
    <3> SUFFICES ASSUME NEW r \in Resolutions, resolution[r].pc = "resolved",
                        NEW kind \in ChainKinds, NEW trusted \in SUBSET Ips
                 PROVE LET chain == Chain(kind, resolution[r].input)
                           ip == ResolveFromChain(chain, trusted, "right-to-left")
                       IN  IF chain = <<>> THEN ip = NoIp
                           ELSE \E i \in DOMAIN chain :
                                  /\ chain[i] = ip
                                  /\ \A j \in i + 1 .. Len(chain) : chain[j] \in trusted
                                  /\ ip \notin trusted \/ i = 1
      BY Zenon DEF NearestUntrustedHop
    <3>1. resolution[r].input \in Inputs /\ kind \in HeaderKinds
      BY Zenon, <2>2, RealipAssumption DEF GoodResolved
    <3>2. Chain(kind, resolution[r].input) \in Seq(Ips \cup {Junk})
      BY <3>1, ChainTyped, Zenon
    <3> DEFINE chain == Chain(kind, resolution[r].input)
               ip == ResolveFromChain(chain, trusted, "right-to-left")
    <3>3. ip = ResolveFromChain(chain, trusted, "right-to-left")
      BY Zenon
    <3> HIDE DEF chain, ip
    <3>4. IF chain = <<>> THEN ip = NoIp
          ELSE \E i \in DOMAIN chain :
                 /\ chain[i] = ip
                 /\ \A j \in i + 1 .. Len(chain) : chain[j] \in trusted
                 /\ ip \notin trusted \/ i = 1
      <4>1. chain \in Seq(Ips \cup {Junk})
        BY <3>2, Zenon DEF chain
      <4> QED
        BY <3>3, <4>1, NearestHop
    <3> QED
      BY <3>4, Zenon DEF chain, ip
  <2> QED
    BY <2>1, <2>3, <2>4, Zenon DEF RealipTrustsItsPeers
<1> QED
  BY <1>1, <1>2, <1>3, PTL DEF RealipSpec
=============================================================================
