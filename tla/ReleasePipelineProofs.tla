----------------------- MODULE ReleasePipelineProofs -----------------------
(***************************************************************************)
(* Proofs about ReleasePipeline: for any packages, versions, runs, faults  *)
(* and history, what is published, tagged and retried can be traced to a   *)
(* consistent commit of the release branch.  The maintainer, the Tests     *)
(* workflow and the steps of a release run outside its publish jobs keep   *)
(* the inductive invariant; then the publish jobs keep it; and it implies  *)
(* the promises.                                                           *)
(***************************************************************************)
EXTENDS ReleasePipeline, TLAPS

Trees == [metadata : Versions, manifest : [Packages -> Versions],
          requires : [CrateSet -> Versions]]
ConcurrencyGroups == SourceRefs \cup {[kind |-> "sha", name |-> c] : c \in Nat}
RunSteps == {"idle", "plan", "validate", "publish", "tag", "push", "done", "failed"}
JobSteps == {"waiting", "query", "publish", "success", "failure"}
TestSteps == {"preflight", "tests", "success", "failure", "dispatched"}
JobRecords == [step : JobSteps, at : Nat]
RunRecords ==
    [step : RunSteps, ref : SourceRefs, planned : Nat, sha : Nat, group : ConcurrencyGroups,
     select : SUBSET Jobs, local : BOOLEAN, auto : BOOLEAN, known : Nat,
     job : [Jobs -> JobRecords], hit : BOOLEAN, raced : BOOLEAN]
TestRecords == [ref : SourceRefs, sha : Nat, step : TestSteps]

NpmOrder == publishable(NodePackages)
NpmOut(v, n) == \A i \in 1..n : Holds(npmjs, NpmOrder[i], v)
CratesOut(v, n) == \A i \in 1..n : Holds(cratesio, Crates[i], v)

\* The tree of a commit has one version everywhere.
Sourced(c) ==
    /\ \A p \in Packages : commits[c].manifest[p] = commits[c].metadata
    /\ \A p \in CrateSet : DependsOn[p] # {} => commits[c].requires[p] = commits[c].metadata

\* Types of the source, and of what is derived from it.
SourceInv ==
    /\ tree \in Trees /\ commits \in Seq(Trees)
    /\ releaseHead \in 1..Len(commits)
    /\ tags \in [Versions -> 0..Len(commits)]
    /\ run \in [Runs -> RunRecords]
    /\ ghcr \in [Versions \cup Channels -> 0..Len(commits)]
    /\ taggedBy \in [Versions -> Runs \cup {"no one"}]

\* A test run that ended well has its commit tested.
TestInv ==
    /\ testRuns \subseteq TestRecords
    /\ \A t \in testRuns :
          /\ t.sha \in 1..Len(commits)
          /\ t.step \in {"success", "dispatched"} => t.sha \in verified

\* What the registries hold passed the gate.
RegistryInv ==
    /\ \A e \in npmjs \cup cratesio : e.sha \in 1..Len(commits) /\ Sound(e.sha, e.version)
    /\ \A v \in Versions : ghcr[v] # NoCommit => Sound(ghcr[v], v)

\* How far the jobs of a run are.
NpmJobInv(r) ==
    LET x == run[r]  v == expectedTag(x.sha) IN
    /\ x.job["npm"].step = "failure" => x.hit \/ x.raced
    /\ x.job["npm"].step = "waiting" => x.job["npm"].at = 1
    /\ x.job["npm"].step \in {"query", "publish"} =>
          /\ ~x.local /\ x.job["npm"].at \in 1..Len(NpmOrder)
          /\ NpmOut(v, x.job["npm"].at - 1)
    /\ x.job["npm"].step = "success" /\ ~x.local => NpmOut(v, Len(NpmOrder))

CratesJobInv(r) ==
    LET x == run[r]  v == expectedTag(x.sha) IN
    /\ x.job["crates"].step = "failure" => x.hit \/ x.raced
    /\ x.job["crates"].step = "waiting" => x.job["crates"].at = 1
    /\ x.job["crates"].step \in {"query", "publish"} =>
          /\ ~x.local /\ x.job["crates"].at \in 1..Len(Crates)
          /\ CratesOut(v, x.job["crates"].at - 1)
    /\ x.job["crates"].step = "success" /\ ~x.local => CratesOut(v, Len(Crates))

DockerJobInv(r) ==
    LET x == run[r] IN
    /\ x.job["docker"].step = "failure" => x.hit \/ x.raced
    /\ x.job["docker"].step = "success" /\ ~x.local => ghcr[expectedTag(x.sha)] # NoCommit

\* Every job that was selected has ended well.
SelectedOut(r) ==
    LET x == run[r]  v == expectedTag(x.sha) IN
    /\ "npm" \in x.select => NpmOut(v, Len(NpmOrder))
    /\ "crates" \in x.select => CratesOut(v, Len(Crates))
    /\ "docker" \in x.select => ghcr[v] # NoCommit

\* What is known of the source of a run at each of its steps.
GateInv(r) ==
    LET x == run[r] IN
    /\ x.planned = x.sha /\ x.sha \in 1..Len(commits)
    /\ x.auto => x.sha \in verified
    /\ x.step \in {"validate", "publish", "tag", "push"} =>
          Sourced(x.sha) /\ isPublishableReleaseSource(x.ref)
    /\ x.step \in {"plan", "validate"} /\ x.ref.kind = "tag" => tags[x.ref.name] = x.sha
    /\ x.step \in {"publish", "tag", "push"} /\ ~x.local =>
          x.sha <= releaseHead /\ (x.ref # ReleaseBranch => x.ref.name = expectedTag(x.sha))

EndInv(r) == run[r].step \in {"tag", "push"} => ~run[r].local /\ SelectedOut(r)

RunInv(r) ==
    \/ run[r] = NoRun
    \/ /\ run[r].step # "idle" /\ GateInv(r) /\ EndInv(r)
       /\ NpmJobInv(r) /\ CratesJobInv(r) /\ DockerJobInv(r)

\* A tag that a run pushed marks what this run released.
TaggedInv(v) ==
    taggedBy[v] \in Runs =>
       LET r == taggedBy[v] IN
       /\ run[r].step = "done" /\ run[r].sha \in 1..Len(commits)
       /\ tags[v] = run[r].sha /\ Sound(run[r].sha, v) /\ SelectedOut(r)

ReleaseInv ==
    /\ SourceInv /\ TestInv /\ RegistryInv
    /\ \A v \in Versions : TaggedInv(v)
    /\ \A r \in Runs : RunInv(r)

\* What every step keeps: history, tags and registries only grow.
Grows ==
    /\ Len(commits) <= Len(commits') /\ \A c \in 1..Len(commits) : commits'[c] = commits[c]
    /\ releaseHead <= releaseHead'
    /\ \A v \in Versions : tags[v] # NoCommit => tags'[v] = tags[v]
    /\ verified \subseteq verified'
    /\ npmjs \subseteq npmjs' /\ cratesio \subseteq cratesio'
    /\ \A v \in Versions : ghcr[v] # NoCommit => ghcr'[v] # NoCommit

----------------------------------------------------------------------------
(* Lemmas about the operators of the model.                                *)

\* The version check finds nothing exactly when a tree has one version.
LEMMA ConsistencyMeansSourced ==
    ASSUME NEW c, ensureVersionConsistency(c)
    PROVE  Sourced(c)
<1>1. \A p \in Packages : commits[c].manifest[p] = commits[c].metadata
  BY Zenon DEF ensureVersionConsistency, collectVersionMismatches
<1>2. \A p \in CrateSet : DependsOn[p] # {} => commits[c].requires[p] = commits[c].metadata
  BY Zenon DEF ensureVersionConsistency, collectVersionMismatches,
         collectCargoDependencyVersionMismatches
<1> QED BY Zenon, <1>1, <1>2 DEF Sourced

\* A tree with one version passes the version check.
LEMMA SourcedMeansConsistency ==
    ASSUME NEW c, Sourced(c)
    PROVE  ensureVersionConsistency(c)
  BY Zenon DEF ensureVersionConsistency, collectVersionMismatches,
         collectCargoDependencyVersionMismatches, Sourced

\* A commit with one version that the release branch holds is sound.
LEMMA SourcedIsSound ==
    ASSUME NEW c, Sourced(c), c <= releaseHead
    PROVE  Sound(c, expectedTag(c))
  BY Zenon DEF Sourced, Sound, expectedTag

\* History is a sequence of trees, and the release branch points into it.
LEMMA HistoryTyped ==
    ASSUME SourceInv
    PROVE  /\ Len(commits) \in Nat /\ releaseHead \in Nat /\ releaseHead <= Len(commits)
           /\ \A c \in 1..Len(commits) : /\ c \in Nat /\ commits[c] \in Trees
                                         /\ expectedTag(c) \in Versions
<1>1. commits \in Seq(Trees) /\ releaseHead \in 1..Len(commits)
  BY Zenon DEF SourceInv
<1>2. Len(commits) \in Nat /\ \A c \in 1..Len(commits) : commits[c] \in Trees
  BY <1>1
<1>3. \A t \in Trees : t.metadata \in Versions
  BY Zenon DEF Trees
<1> QED BY <1>1, <1>2, <1>3 DEF expectedTag

\* The same after a step.
LEMMA HistoryTypedNext ==
    ASSUME SourceInv'
    PROVE  Len(commits') \in Nat /\ releaseHead' \in Nat
<1>1. commits' \in Seq(Trees) /\ releaseHead' \in 1..Len(commits')
  BY Zenon DEF SourceInv
<1> QED BY <1>1

\* What a registry holds it keeps.
LEMMA HoldsGrows ==
    ASSUME Grows, NEW p, NEW v
    PROVE  /\ Holds(npmjs, p, v) => Holds(npmjs, p, v)'
           /\ Holds(cratesio, p, v) => Holds(cratesio, p, v)'
  BY Zenon DEF Grows, Holds

\* The source of a run, which no step of it changes.
SameSource(r) ==
    /\ run'[r].planned = run[r].planned /\ run'[r].sha = run[r].sha
    /\ run'[r].ref = run[r].ref /\ run'[r].select = run[r].select
    /\ run'[r].local = run[r].local /\ run'[r].auto = run[r].auto

\* The commit of a run is what it was, and so is its version.
LEMMA SourceKept ==
    ASSUME SourceInv, SourceInv', Grows, NEW c \in 1..Len(commits)
    PROVE  /\ commits'[c] = commits[c] /\ c \in 1..Len(commits')
           /\ commits[c].metadata \in Versions
           /\ c <= releaseHead => c <= releaseHead'
  BY HistoryTyped, HistoryTypedNext DEF Grows, expectedTag

\* What is out stays out.
LEMMA OutKept ==
    ASSUME Grows
    PROVE  \A v, n : /\ NpmOut(v, n) => NpmOut(v, n)'
                     /\ CratesOut(v, n) => CratesOut(v, n)'
  BY Zenon, HoldsGrows DEF NpmOut, CratesOut

\* What holds of a job that a step of the run leaves alone is kept.
LEMMA JobFrame ==
    ASSUME SourceInv, SourceInv', Grows, NEW r \in Runs, GateInv(r), SameSource(r),
           run[r].hit => run'[r].hit, run[r].raced => run'[r].raced
    PROVE  /\ NpmJobInv(r) /\ run'[r].job["npm"] = run[r].job["npm"] => NpmJobInv(r)'
           /\ CratesJobInv(r) /\ run'[r].job["crates"] = run[r].job["crates"] => CratesJobInv(r)'
           /\ DockerJobInv(r) /\ run'[r].job["docker"] = run[r].job["docker"] => DockerJobInv(r)'
           /\ SelectedOut(r) => SelectedOut(r)'
<1> DEFINE x == run[r]  v == commits[x.sha].metadata
<1>1. x.sha \in 1..Len(commits)
  BY Zenon DEF GateInv
<1>2. commits'[x.sha] = commits[x.sha] /\ v \in Versions
  BY Zenon, <1>1, SourceKept
<1>3. ghcr[v] # NoCommit => ghcr'[v] # NoCommit
  BY <1>2, Zenon DEF Grows
<1>4. NpmJobInv(r) /\ run'[r].job["npm"] = run[r].job["npm"] => NpmJobInv(r)'
  BY <1>2, OutKept, Zenon DEF NpmJobInv, SameSource, expectedTag
<1>5. CratesJobInv(r) /\ run'[r].job["crates"] = run[r].job["crates"] => CratesJobInv(r)'
  BY <1>2, OutKept, Zenon DEF CratesJobInv, SameSource, expectedTag
<1>6. DockerJobInv(r) /\ run'[r].job["docker"] = run[r].job["docker"] => DockerJobInv(r)'
  BY <1>2, <1>3, Zenon DEF DockerJobInv, SameSource, expectedTag, NoCommit
<1>7. SelectedOut(r) => SelectedOut(r)'
  BY <1>2, <1>3, OutKept, Zenon DEF SelectedOut, SameSource, expectedTag, NoCommit
<1> QED BY Zenon, <1>4, <1>5, <1>6, <1>7

\* What is known of the source of a run stays true while its step is the same.
LEMMA GateFrame ==
    ASSUME SourceInv, SourceInv', Grows, NEW r \in Runs, GateInv(r), SameSource(r),
           run'[r].step = run[r].step
    PROVE  GateInv(r)'
<1> DEFINE x == run[r]
<1>1. x \in RunRecords /\ x.sha \in 1..Len(commits)
  BY Zenon DEF SourceInv, GateInv
<1>2. /\ commits'[x.sha] = commits[x.sha] /\ x.sha \in 1..Len(commits')
      /\ x.sha <= releaseHead => x.sha <= releaseHead'
  BY Zenon, <1>1, SourceKept
<1>3. x.auto => x.sha \in verified'
  BY Zenon DEF GateInv, Grows
<1>4. x.step \in {"plan", "validate"} /\ x.ref.kind = "tag" => tags'[x.ref.name] = x.sha
  <2> SUFFICES ASSUME x.step \in {"plan", "validate"}, x.ref.kind = "tag"
               PROVE  tags'[x.ref.name] = x.sha
    BY Zenon
  <2>1. x.ref.name \in Versions
    BY <1>1 DEF RunRecords, SourceRefs, NoRef, ReleaseBranch, Main, TagRef
  <2> QED BY <1>1, <2>1 DEF GateInv, Grows, NoCommit
<1>5. /\ run'[r].planned = x.planned /\ run'[r].sha = x.sha /\ run'[r].ref = x.ref
      /\ run'[r].local = x.local /\ run'[r].auto = x.auto /\ run'[r].step = x.step
  BY Zenon DEF SameSource
<1> HIDE DEF x
<1> QED BY <1>2, <1>3, <1>4, <1>5, Zenon DEF GateInv, Sourced, expectedTag, x

\* What holds of a run that a step leaves alone is kept.
LEMMA RunFrame ==
    ASSUME SourceInv, SourceInv', Grows, NEW r \in Runs, RunInv(r), run'[r] = run[r]
    PROVE  RunInv(r)'
<1>1. CASE run[r] = NoRun
  BY Zenon, <1>1 DEF RunInv
<1>2. CASE run[r].step # "idle" /\ GateInv(r) /\ EndInv(r)
           /\ NpmJobInv(r) /\ CratesJobInv(r) /\ DockerJobInv(r)
  <2>1. SameSource(r)
    BY Zenon DEF SameSource
  <2> QED BY <1>2, <2>1, JobFrame, GateFrame, Zenon DEF RunInv, EndInv
<1> QED BY Zenon, <1>1, <1>2 DEF RunInv

\* A tag keeps marking what its run released: the run is over.
LEMMA TaggedFrame ==
    ASSUME SourceInv, SourceInv', Grows, NEW v \in Versions, TaggedInv(v),
           taggedBy'[v] = taggedBy[v],
           \A q \in Runs : run[q].step = "done" => run'[q] = run[q]
    PROVE  TaggedInv(v)'
<1> SUFFICES ASSUME taggedBy[v] \in Runs
             PROVE  TaggedInv(v)'
  BY Zenon DEF TaggedInv
<1> DEFINE r == taggedBy[v]  c == run[r].sha
<1>1. /\ run[r].step = "done" /\ c \in 1..Len(commits) /\ tags[v] = c
      /\ Sound(c, v) /\ SelectedOut(r)
  BY Zenon DEF TaggedInv
<1>2. run'[r] = run[r]
  BY Zenon, <1>1
<1>3. /\ commits'[c] = commits[c] /\ c \in 1..Len(commits')
      /\ c <= releaseHead => c <= releaseHead'
  BY Zenon, <1>1, SourceKept
<1>4. tags'[v] = c
  BY <1>1, SMTT(30) DEF Grows, NoCommit
<1>5. expectedTag(c) = v /\ (ghcr[v] # NoCommit => ghcr'[v] # NoCommit)
  BY <1>1, Zenon DEF Sound, expectedTag, Grows
<1> QED BY <1>1, <1>2, <1>3, <1>4, <1>5, OutKept, ZenonT(60)
        DEF TaggedInv, Sound, SelectedOut, expectedTag, NoCommit

\* What the registries hold stays sound.
LEMMA RegistryFrame ==
    ASSUME SourceInv, SourceInv', Grows, RegistryInv, UNCHANGED registryVars
    PROVE  RegistryInv'
<1>1. \A c \in 1..Len(commits) : \A v : Sound(c, v) => Sound(c, v)'
  BY Zenon, SourceKept DEF Sound
<1>2. \A e \in npmjs \cup cratesio : e.sha \in 1..Len(commits) /\ e.sha \in 1..Len(commits')
  BY Zenon, SourceKept DEF RegistryInv
<1>3. \A v \in Versions : ghcr[v] # NoCommit => ghcr[v] \in 1..Len(commits)
  <2>1. \A v \in Versions : ghcr[v] \in 0..Len(commits)
    BY Zenon DEF SourceInv
  <2> QED BY <2>1, HistoryTyped DEF NoCommit
<1> QED BY <1>1, <1>2, <1>3, SMTT(30) DEF RegistryInv, registryVars, Sound, NoCommit

\* The test runs keep what is known of them.
LEMMA TestFrame ==
    ASSUME SourceInv, SourceInv', Grows, TestInv, UNCHANGED testRuns
    PROVE  TestInv'
  BY Zenon, SourceKept DEF TestInv, Grows

----------------------------------------------------------------------------
(* The invariant holds initially, and steps outside the runs preserve it.  *)

\* A run that has not started.
LEMMA NoRunTyped == NoRun \in RunRecords
<1>1. NoRef \in SourceRefs /\ NoRef \in ConcurrencyGroups
  BY Zenon DEF SourceRefs, ConcurrencyGroups
<1>2. Waiting \in JobRecords
  BY Zenon DEF Waiting, JobRecords, JobSteps
<1>3. [j \in Jobs |-> Waiting] \in [Jobs -> JobRecords]
  BY Zenon, <1>2
<1> QED BY Zenon, <1>1, <1>3 DEF NoRun, RunRecords, RunSteps, NoCommit

\* The first commit has one version, and nothing else has happened.
LEMMA InitReleaseInv == ReleaseInit => ReleaseInv
<1> SUFFICES ASSUME ReleaseInit PROVE ReleaseInv
  BY Zenon
<1> DEFINE t == TreeAt(FirstVersion)
<1>1. t \in Trees
  BY Zenon, ReleaseAssumption DEF TreeAt, Trees
<1>2. tree = t /\ commits = <<t>> /\ releaseHead = 1
  BY Zenon DEF ReleaseInit, ReleaseInitAt
<1>3. commits \in Seq(Trees) /\ Len(commits) = 1
  BY <1>1, <1>2
<1>4. SourceInv
  <2>1. /\ tags = [v \in Versions |-> 0] /\ ghcr = [i \in Versions \cup Channels |-> 0]
        /\ run = [r \in Runs |-> NoRun] /\ taggedBy = [v \in Versions |-> "no one"]
    BY Zenon DEF ReleaseInit, ReleaseInitAt, NoCommit
  <2>2. run \in [Runs -> RunRecords]
    BY <2>1, NoRunTyped, Zenon
  <2>3. 0 \in 0..Len(commits) /\ releaseHead \in 1..Len(commits)
    BY <1>2, <1>3
  <2> QED BY <1>1, <1>2, <1>3, <2>1, <2>2, <2>3, Zenon DEF SourceInv
<1>5. TestInv /\ RegistryInv
  BY Zenon DEF TestInv, RegistryInv, ReleaseInit, ReleaseInitAt
<1>6. \A v \in Versions : TaggedInv(v)
  BY PackageAssumption, Zenon DEF TaggedInv, ReleaseInit, ReleaseInitAt
<1>7. \A r \in Runs : RunInv(r)
  BY Zenon DEF RunInv, ReleaseInit, ReleaseInitAt
<1> QED BY Zenon, <1>4, <1>5, <1>6, <1>7 DEF ReleaseInv

\* A step that leaves the runs and what they released alone.
LEMMA OutsideStep ==
    ASSUME ReleaseInv, SourceInv', Grows, TestInv', UNCHANGED <<run, registryVars, taggedBy>>
    PROVE  ReleaseInv'
<1>1. RegistryInv'
  BY Zenon, RegistryFrame DEF ReleaseInv
<1>2. \A v \in Versions : TaggedInv(v)'
  BY Zenon, TaggedFrame DEF ReleaseInv
<1>3. \A r \in Runs : RunInv(r)'
  BY Zenon, RunFrame DEF ReleaseInv
<1> QED BY Zenon, <1>1, <1>2, <1>3 DEF ReleaseInv

\* Setting a version, and failing half way, yields a tree.
LEMMA WrittenTyped ==
    ASSUME tree \in Trees, NEW v \in Versions, NEW n, NEW half
    PROVE  Written(v, n, half) \in Trees
<1>1. \A done : /\ writeManifestVersion(v, done) \in [Packages -> Versions]
                /\ writeCargoDependencyVersionRequirements(v, done) \in [CrateSet -> Versions]
  BY Zenon DEF writeManifestVersion, writeCargoDependencyVersionRequirements, Trees
<1> QED BY Zenon, <1>1 DEF Written, Trees

\* Edits and commits keep the invariant.
LEMMA SourceStep == ASSUME ReleaseInv, SourceNext PROVE ReleaseInv'
<1>1. CASE CommitTree
  <2>1. /\ commits \in Seq(Trees) /\ tree \in Trees /\ commits' = Append(commits, tree)
        /\ UNCHANGED <<tree, releaseHead, tags, run, registryVars, taggedBy, verified, testRuns>>
    BY <1>1, Zenon DEF CommitTree, ReleaseInv, SourceInv
  <2>2. /\ commits' \in Seq(Trees) /\ Len(commits) \in Nat /\ Len(commits') = Len(commits) + 1
        /\ \A c \in 1..Len(commits) : commits'[c] = commits[c]
    BY <2>1
  <2>3. \A i : /\ i \in 0..Len(commits) => i \in 0..Len(commits')
               /\ i \in 1..Len(commits) => i \in 1..Len(commits')
    BY <2>2
  <2>4. SourceInv'
    BY <2>1, <2>2, <2>3, Zenon DEF ReleaseInv, SourceInv, registryVars
  <2>5. Grows
    BY <2>1, <2>2, HistoryTyped DEF Grows, registryVars, ReleaseInv
  <2>6. TestInv'
    BY Zenon, <2>1, <2>4, <2>5, TestFrame DEF ReleaseInv
  <2> QED BY Zenon, <2>1, <2>4, <2>5, <2>6, OutsideStep
<1>2. ASSUME NEW v \in Versions, setWorkspaceVersion(v) PROVE ReleaseInv'
  <2>1. /\ tree' \in Trees
        /\ UNCHANGED <<commits, releaseHead, tags, run, registryVars, taggedBy, verified, testRuns>>
    <3>1. tree \in Trees
      BY Zenon DEF ReleaseInv, SourceInv
    <3> QED BY <1>2, <3>1, WrittenTyped, Zenon DEF setWorkspaceVersion
  <2>2. SourceInv' /\ Grows
    <3>1. SourceInv'
      BY <2>1, Zenon DEF ReleaseInv, SourceInv, registryVars
    <3>2. Grows
      BY <2>1, HistoryTyped DEF ReleaseInv, Grows, registryVars
    <3> QED BY Zenon, <3>1, <3>2
  <2>3. TestInv'
    BY Zenon, <2>1, <2>2, TestFrame DEF ReleaseInv
  <2> QED BY Zenon, <2>1, <2>2, <2>3, OutsideStep
<1> QED BY Zenon, <1>1, <1>2 DEF SourceNext

\* A push starts a test run that has not ended, and moves the branch forward.
LEMMA PushStep == ASSUME ReleaseInv, PushNext PROVE ReleaseInv'
<1>1. PICK ref \in {ReleaseBranch, Main}, c \in 1..Len(commits) : Push(ref, c)
  BY Zenon DEF PushNext
<1>2. /\ UNCHANGED <<tree, commits, tags, run, registryVars, taggedBy, verified>>
      /\ releaseHead' \in {releaseHead, c} /\ releaseHead <= releaseHead'
  BY <1>1, HistoryTyped DEF Push, ReleaseInv
<1>3. SourceInv' /\ Grows
  <2>1. SourceInv'
    BY <1>2, Zenon DEF ReleaseInv, SourceInv, registryVars
  <2>2. Grows
    BY <1>2, HistoryTyped DEF ReleaseInv, Grows, registryVars
  <2> QED BY Zenon, <2>1, <2>2
<1>4. TestRun(ref, c) \in TestRecords
  <2>1. ref \in SourceRefs /\ c \in Nat
    BY Zenon, HistoryTyped DEF SourceRefs, ReleaseInv
  <2> QED BY Zenon, <2>1 DEF TestRun, TestRecords, TestSteps
<1>5. \A t \in testRuns' : t \in testRuns \/ t = TestRun(ref, c)
  BY Zenon, <1>1 DEF Push
<1>6. TestInv'
  BY <1>2, <1>4, <1>5 DEF TestInv, TestRun, ReleaseInv
<1> QED BY Zenon, <1>2, <1>3, <1>6, OutsideStep

\* A tag made by hand is a new one.
LEMMA TagStep == ASSUME ReleaseInv, TagsNext PROVE ReleaseInv'
<1>1. PICK v \in Versions, c \in 1..Len(commits) : TagByHand(v, c)
  BY Zenon DEF TagsNext
<1>2. /\ UNCHANGED <<tree, commits, releaseHead, run, registryVars, taggedBy, verified>>
      /\ tags[v] = NoCommit /\ tags' = [tags EXCEPT ![v] = c]
      /\ testRuns' = testRuns \cup {TestRun(TagRef(v), c)}
  BY Zenon, <1>1 DEF TagByHand, sourceVars
<1>3. c \in 0..Len(commits) /\ c \in Nat
  BY HistoryTyped DEF ReleaseInv
<1>4. SourceInv' /\ Grows
  <2>1. SourceInv'
    BY <1>2, <1>3, Zenon DEF ReleaseInv, SourceInv, registryVars
  <2>2. \A w \in Versions : tags[w] # NoCommit => tags'[w] = tags[w]
    BY <1>2, Zenon DEF ReleaseInv, SourceInv
  <2>3. Grows
    BY <1>2, <2>2, HistoryTyped DEF ReleaseInv, Grows, registryVars
  <2> QED BY Zenon, <2>1, <2>3
<1>5. TestRun(TagRef(v), c) \in TestRecords
  <2>1. TagRef(v) \in SourceRefs
    BY Zenon DEF SourceRefs
  <2> QED BY Zenon, <1>3, <2>1 DEF TestRun, TestRecords, TestSteps
<1>6. TestInv'
  BY <1>2, <1>5 DEF TestInv, TestRun, ReleaseInv
<1> QED BY Zenon, <1>2, <1>4, <1>6, OutsideStep

----------------------------------------------------------------------------
(* Steps of one run.                                                       *)

\* A step of one run that keeps the rest of the invariant.
LEMMA RunStep ==
    ASSUME ReleaseInv, NEW r \in Runs, SourceInv', Grows, TestInv', RegistryInv',
           \A v \in Versions : TaggedInv(v)',
           \A q \in Runs \ {r} : run'[q] = run[q], RunInv(r)'
    PROVE  ReleaseInv'
<1>1. \A q \in Runs \ {r} : RunInv(q)'
  BY Zenon, RunFrame DEF ReleaseInv
<1> QED BY Zenon, <1>1 DEF ReleaseInv

\* A step of one run that is not over, which changes nothing else.
LEMMA QuietStep ==
    ASSUME ReleaseInv, NEW r \in Runs, run[r].step # "done",
           run' \in [Runs -> RunRecords], \A q \in Runs \ {r} : run'[q] = run[q],
           UNCHANGED <<sourceVars, tags, verified, registryVars, taggedBy>>, TestInv'
    PROVE  /\ SourceInv' /\ Grows
           /\ RunInv(r)' => ReleaseInv'
<1>1. SourceInv'
  BY Zenon DEF ReleaseInv, SourceInv, sourceVars, registryVars
<1>2. Grows
  BY HistoryTyped DEF ReleaseInv, Grows, sourceVars, registryVars
<1>3. RegistryInv'
  BY Zenon, <1>1, <1>2, RegistryFrame DEF ReleaseInv
<1>4. \A v \in Versions : TaggedInv(v)'
  BY Zenon, <1>1, <1>2, TaggedFrame DEF ReleaseInv
<1> QED BY Zenon, <1>1, <1>2, <1>3, <1>4, RunStep

\* The test runs are left alone as well.
LEMMA TestsKept ==
    ASSUME ReleaseInv, UNCHANGED <<sourceVars, verified, testRuns>>
    PROVE  TestInv'
  BY Zenon DEF ReleaseInv, TestInv, sourceVars

\* A run starts on a commit that is there, with the tag it was given.
LEMMA StartStep ==
    ASSUME ReleaseInv, TestInv', NEW r \in Runs, NEW ref \in SourceRefs,
           NEW c \in 1..Len(commits), NEW on \in SourceRefs, ref # NoRef \/ on = ReleaseBranch,
           NEW select \in SUBSET Jobs, NEW local \in BOOLEAN, NEW auto \in BOOLEAN,
           auto => c \in verified, ref.kind = "tag" => tags[ref.name] = c,
           Start(r, ref, c, on, select, local, auto)
    PROVE  ReleaseInv'
<1> DEFINE source == IF ref # NoRef THEN ref ELSE on
           y == [NoRun EXCEPT !.step = "plan", !.planned = c, !.sha = c, !.ref = source,
                              !.group = [kind |-> "sha", name |-> c], !.select = select,
                              !.local = local, !.auto = auto]
<1>1. c \in Nat /\ c # NoCommit
  BY HistoryTyped DEF ReleaseInv, NoCommit
<1>2. /\ run[r].step = "idle" /\ run' = [run EXCEPT ![r] = y]
      /\ UNCHANGED <<sourceVars, tags, verified, registryVars, taggedBy>>
  BY Zenon, <1>1 DEF Start
<1>3. source \in SourceRefs /\ [kind |-> "sha", name |-> c] \in ConcurrencyGroups
  BY Zenon, <1>1 DEF ConcurrencyGroups
<1>4. y \in RunRecords
  BY <1>1, <1>3, NoRunTyped, ZenonT(60) DEF RunRecords, RunSteps
<1>5. /\ y.step = "plan" /\ y.planned = c /\ y.sha = c /\ y.ref = source /\ y.local = local
      /\ y.auto = auto /\ \A j \in Jobs : y.job[j] = Waiting
  BY Zenon DEF NoRun
<1> HIDE DEF y
<1>6. SourceInv' /\ Grows /\ run'[r] = y /\ (RunInv(r)' => ReleaseInv')
  <2>1. run \in [Runs -> RunRecords]
    BY Zenon DEF ReleaseInv, SourceInv
  <2>2. /\ run' \in [Runs -> RunRecords] /\ run'[r] = y
        /\ \A q \in Runs \ {r} : run'[q] = run[q]
    BY Zenon, <1>2, <1>4, <2>1
  <2> QED BY Zenon, <1>2, <2>2, QuietStep
<1>7. source.kind = "tag" => tags[source.name] = c
  BY SMTT(30) DEF ReleaseBranch
<1>8. GateInv(r)'
  BY <1>2, <1>5, <1>6, <1>7, SMTT(30) DEF GateInv, sourceVars
<1>9. NpmJobInv(r)' /\ CratesJobInv(r)' /\ DockerJobInv(r)' /\ EndInv(r)'
  BY <1>5, <1>6, SMTT(30) DEF NpmJobInv, CratesJobInv, DockerJobInv, EndInv, Waiting, Jobs
<1> QED BY Zenon, <1>5, <1>6, <1>8, <1>9 DEF RunInv

\* A test run changes its step; a success is of a commit that was tested.
LEMMA RetestKeeps ==
    ASSUME ReleaseInv, NEW t \in testRuns, NEW step \in TestSteps, Retest(t, step),
           verified \subseteq verified', UNCHANGED sourceVars,
           step \in {"success", "dispatched"} => t.sha \in verified'
    PROVE  TestInv'
<1> DEFINE u == [t EXCEPT !.step = step]
<1>1. t \in TestRecords /\ t.sha \in 1..Len(commits)
  BY Zenon DEF ReleaseInv, TestInv
<1>2. u \in TestRecords /\ u.sha = t.sha /\ u.step = step
  BY Zenon, <1>1 DEF TestRecords
<1>3. \A w \in testRuns' : w \in testRuns \/ w = u
  BY Zenon DEF Retest
<1> HIDE DEF u
<1> QED BY Zenon, <1>1, <1>2, <1>3 DEF ReleaseInv, TestInv, sourceVars

\* The Tests workflow keeps the invariant, and starts releases of tested commits.
LEMMA TestsStep == ASSUME ReleaseInv, TestsNext PROVE ReleaseInv'
<1>1. PICK t \in testRuns : \/ runTestsPreflight(t) \/ TestsFinish(t)
                            \/ \E r \in Runs : DispatchRelease(t, r)
  BY Zenon DEF TestsNext
<1>2. /\ t.sha \in 1..Len(commits)
      /\ \A w \in testRuns : w.step \in {"success", "dispatched"} => w.sha \in verified
  BY Zenon DEF ReleaseInv, TestInv
<1>3. ASSUME UNCHANGED <<sourceVars, tags, run, registryVars, taggedBy>>,
             verified \subseteq verified', TestInv'
      PROVE  ReleaseInv'
  <2>1. SourceInv'
    BY <1>3, Zenon DEF ReleaseInv, SourceInv, sourceVars, registryVars
  <2>2. Grows
    BY <1>3, HistoryTyped DEF ReleaseInv, Grows, sourceVars, registryVars
  <2> QED BY Zenon, <1>3, <2>1, <2>2, OutsideStep
<1>4. CASE runTestsPreflight(t)
  <2>1. PICK step \in {"success", "tests", "failure"} :
           Retest(t, step) /\ (step = "success" => findSuccessfulWorkflowRunForSha(t))
    BY Zenon, <1>4 DEF runTestsPreflight
  <2>2. step = "success" => t.sha \in verified
    BY Zenon, <1>2, <2>1 DEF findSuccessfulWorkflowRunForSha
  <2>3. UNCHANGED <<sourceVars, tags, verified, run, registryVars, taggedBy>>
    BY Zenon, <1>4 DEF runTestsPreflight
  <2>4. TestInv'
    BY Zenon, <2>1, <2>2, <2>3, RetestKeeps DEF TestSteps
  <2> QED BY Zenon, <1>3, <2>3, <2>4
<1>5. CASE TestsFinish(t)
  <2>1. PICK step \in {"success", "failure"} :
           /\ Retest(t, step) /\ verified \subseteq verified'
           /\ step = "success" => t.sha \in verified'
    BY Zenon, <1>5 DEF TestsFinish
  <2>2. UNCHANGED <<sourceVars, tags, run, registryVars, taggedBy>>
    BY Zenon, <1>5 DEF TestsFinish
  <2>3. TestInv'
    BY Zenon, <2>1, <2>2, RetestKeeps DEF TestSteps
  <2> QED BY Zenon, <1>3, <2>1, <2>2, <2>3
<1>6. ASSUME NEW r \in Runs, DispatchRelease(t, r) PROVE ReleaseInv'
  <2>1. /\ t.step = "success" /\ Retest(t, "dispatched")
        /\ Start(r, ReleaseBranch, t.sha, ReleaseBranch, Jobs, FALSE, TRUE)
    BY <1>6, Zenon DEF DispatchRelease
  <2>2. UNCHANGED <<sourceVars, verified>>
    BY Zenon, <2>1 DEF Start
  <2>3. TestInv'
    BY Zenon, <1>2, <2>1, <2>2, RetestKeeps DEF TestSteps
  <2>4. ReleaseBranch \in SourceRefs /\ ReleaseBranch.kind # "tag"
    BY Zenon DEF SourceRefs, ReleaseBranch
  <2> QED BY <1>2, <2>1, <2>3, <2>4, StartStep, Zenon
<1> QED BY Zenon, <1>1, <1>4, <1>5, <1>6

\* What is known of a run that has started.
LEMMA Started ==
    ASSUME ReleaseInv, NEW r \in Runs, run[r].step # "idle"
    PROVE  /\ run[r] \in RunRecords /\ run \in [Runs -> RunRecords]
           /\ GateInv(r) /\ EndInv(r) /\ NpmJobInv(r) /\ CratesJobInv(r) /\ DockerJobInv(r)
           /\ run[r].sha \in 1..Len(commits) /\ run[r].planned = run[r].sha
           /\ SourceInv
<1>1. run[r] # NoRun
  BY SMTT(30) DEF NoRun
<1> QED BY <1>1, Zenon DEF ReleaseInv, SourceInv, RunInv, GateInv

\* A run goes to another step, and leaves its jobs as they are.
LEMMA PhaseStep ==
    ASSUME ReleaseInv, NEW r \in Runs, run[r].step \notin {"idle", "done"},
           run' \in [Runs -> RunRecords], \A q \in Runs \ {r} : run'[q] = run[q],
           Quiet, UNCHANGED <<tags, registryVars, taggedBy>>,
           SameSource(r), run'[r].job = run[r].job,
           run[r].hit => run'[r].hit, run[r].raced => run'[r].raced,
           run'[r].step \notin {"idle", "plan"},
           run'[r].step \in {"validate", "publish", "tag", "push"} =>
              Sourced(run[r].sha) /\ isPublishableReleaseSource(run[r].ref),
           run'[r].step = "validate" => run[r].step = "plan",
           run'[r].step \in {"publish", "tag", "push"} /\ ~run[r].local =>
              /\ run[r].sha <= releaseHead
              /\ run[r].ref # ReleaseBranch => run[r].ref.name = expectedTag(run[r].sha),
           run'[r].step \in {"tag", "push"} => ~run[r].local /\ SelectedOut(r)
    PROVE  ReleaseInv'
<1>1. TestInv'
  BY Zenon, TestsKept DEF Quiet
<1>2. SourceInv' /\ Grows /\ (RunInv(r)' => ReleaseInv')
  BY Zenon, <1>1, QuietStep DEF Quiet
<1>3. /\ GateInv(r) /\ EndInv(r) /\ NpmJobInv(r) /\ CratesJobInv(r) /\ DockerJobInv(r)
      /\ SourceInv
  BY Zenon, Started
<1>4. NpmJobInv(r)' /\ CratesJobInv(r)' /\ DockerJobInv(r)'
  BY <1>2, <1>3, JobFrame, Zenon
<1>5. SelectedOut(r) => SelectedOut(r)'
  BY <1>2, <1>3, JobFrame, Zenon
<1>6. GateInv(r)'
  <2> DEFINE x == run[r]  y == run'[r]
  <2>1. /\ y.planned = x.planned /\ y.sha = x.sha /\ y.ref = x.ref /\ y.local = x.local
        /\ y.auto = x.auto
        /\ commits' = commits /\ verified' = verified /\ releaseHead' = releaseHead /\ tags' = tags
    BY Zenon DEF SameSource, Quiet, sourceVars
  <2>2. y.planned = y.sha /\ y.sha \in 1..Len(commits') /\ (y.auto => y.sha \in verified')
    BY <1>3, <2>1, ZenonT(60) DEF GateInv
  <2>3. y.step \in {"validate", "publish", "tag", "push"} =>
           /\ \A p \in Packages : commits'[y.sha].manifest[p] = commits'[y.sha].metadata
           /\ \A p \in CrateSet :
                 DependsOn[p] # {} => commits'[y.sha].requires[p] = commits'[y.sha].metadata
           /\ y.ref = ReleaseBranch \/ y.ref.kind = "tag"
    BY <2>1, ZenonT(60) DEF Sourced, isPublishableReleaseSource
  <2>4. y.step \in {"plan", "validate"} /\ y.ref.kind = "tag" => tags'[y.ref.name] = y.sha
    BY <1>3, <2>1, Zenon DEF GateInv
  <2>5. y.step \in {"publish", "tag", "push"} /\ ~y.local =>
           y.sha <= releaseHead' /\ (y.ref # ReleaseBranch => y.ref.name = commits'[y.sha].metadata)
    BY <2>1, Zenon DEF expectedTag
  <2> QED BY <2>2, <2>3, <2>4, <2>5, Zenon
          DEF GateInv, Sourced, isPublishableReleaseSource, expectedTag, ReleaseBranch
<1>7. EndInv(r)'
  BY <1>5, Zenon DEF EndInv, SameSource
<1> QED BY <1>2, <1>4, <1>6, <1>7, Zenon DEF RunInv

\* Dispatch by hand, of a commit that its ref points to.
LEMMA ManualDispatchStep ==
    ASSUME ShaFollowsRef, ReleaseInv, NEW r \in Runs, ManualDispatch(r) PROVE ReleaseInv'
<1>1. PICK ref \in SourceRefs, sha \in 0..Len(commits), on \in {ReleaseBranch, Main},
           select \in Selections, local \in BOOLEAN :
         /\ on = ReleaseBranch /\ sha # NoCommit /\ (ref.kind = "tag" => sha = tags[ref.name])
         /\ Start(r, ref, sha, on, select, local, FALSE)
  BY ZenonT(60) DEF ManualDispatch
<1>2. sha \in 1..Len(commits)
  <2>1. Len(commits) \in Nat
    BY Zenon, HistoryTyped DEF ReleaseInv
  <2> QED BY <1>1, <2>1 DEF NoCommit
<1>3. TestInv'
  BY <1>1, TestsKept DEF ManualDispatch, Start
<1>4. on \in SourceRefs /\ select \in SUBSET Jobs
  BY Zenon, <1>1, ReleaseAssumption DEF SourceRefs
<1> QED BY <1>1, <1>2, <1>3, <1>4, StartStep, Zenon

\* The plan sends on what has one version and may be published.
LEMMA PlanStep ==
    ASSUME ReleaseInv, NEW r \in Runs, runReleasePlan(r) PROVE ReleaseInv'
<1> DEFINE x == run[r]
<1>1. /\ x.step = "plan" /\ Quiet /\ UNCHANGED <<tags, registryVars, taggedBy>>
  BY Zenon DEF runReleasePlan
<1>2. /\ x \in RunRecords /\ run \in [Runs -> RunRecords] /\ x.planned = x.sha
      /\ x.sha \in 1..Len(commits) /\ SourceInv
  BY Zenon, <1>1, Started
<1>3. tags[expectedTag(x.planned)] \in Nat
  <2>1. expectedTag(x.planned) \in Versions /\ Len(commits) \in Nat
    BY Zenon, <1>2, HistoryTyped
  <2>2. tags[expectedTag(x.planned)] \in 0..Len(commits)
    BY <1>2, <2>1, Zenon DEF SourceInv
  <2> QED BY <2>1, <2>2
<1>4. PICK step \in {"failed", "validate", "done"} :
         /\ run' = [run EXCEPT ![r] = [x EXCEPT !.known = tags[expectedTag(x.planned)], !.step = step]]
         /\ step = "validate" => /\ ensureVersionConsistency(x.planned)
                                 /\ isPublishableReleaseSource(x.ref)
  BY <1>2, Zenon DEF runReleasePlan
<1>5. /\ run' \in [Runs -> RunRecords] /\ \A q \in Runs \ {r} : run'[q] = run[q]
      /\ run'[r].step = step /\ SameSource(r) /\ run'[r].job = x.job
      /\ run'[r].hit = x.hit /\ run'[r].raced = x.raced
  BY <1>2, <1>3, <1>4, Zenon DEF RunRecords, RunSteps, SameSource
<1> QED BY <1>1, <1>2, <1>4, <1>5, PhaseStep, ConsistencyMeansSourced, Zenon

\* Only a source that the release branch holds goes on to publication.
LEMMA ValidateStep ==
    ASSUME ReleaseInv, NEW r \in Runs, validateReleaseRef(r) PROVE ReleaseInv'
<1> DEFINE x == run[r]
<1>1. /\ x.step = "validate" /\ Quiet /\ UNCHANGED <<tags, registryVars, taggedBy>>
  BY Zenon DEF validateReleaseRef
<1>2. /\ x \in RunRecords /\ run \in [Runs -> RunRecords] /\ x.planned = x.sha
      /\ x.sha \in 1..Len(commits) /\ SourceInv /\ GateInv(r)
  BY Zenon, <1>1, Started
<1>3. Sourced(x.sha) /\ isPublishableReleaseSource(x.ref)
      /\ (x.ref.kind = "tag" => tags[x.ref.name] = x.sha)
  BY Zenon, <1>1, <1>2 DEF GateInv
<1>4. PICK step \in {"publish", "failed"}, hit \in BOOLEAN, known \in Nat :
         /\ run' = [run EXCEPT ![r] = [x EXCEPT !.step = step, !.known = known, !.hit = hit]]
         /\ x.hit => hit
         /\ step = "publish" => \/ x.ref = ReleaseBranch /\ (x.local \/ isAncestor(x.sha))
                                \/ x.ref # ReleaseBranch /\ validateTagRef(r)
  <2>1. ASSUME NEW ok \in BOOLEAN, Validated(r, ok)
        PROVE  \E step \in {"publish", "failed"} :
                  /\ step = "publish" => ok
                  /\ run' = [run EXCEPT ![r] = [x EXCEPT !.step = step, !.known = 0, !.hit = x.hit]]
    BY <1>2, <2>1, Zenon DEF Validated, RunRecords, NoCommit
  <2>2. ASSUME Hit(r, "failed")
        PROVE  run' = [run EXCEPT ![r] = [x EXCEPT !.step = "failed", !.known = x.known, !.hit = TRUE]]
    BY <1>2, <2>2, Zenon DEF Hit, RunRecords
  <2>3. x.hit \in BOOLEAN /\ x.known \in Nat
    BY Zenon, <1>2 DEF RunRecords
  <2>4. ASSUME x.ref = ReleaseBranch, NEW target, Validated(r, validateReleaseBranchRef(r, target))
        PROVE  \E step \in {"publish", "failed"} :
                  /\ step = "publish" => x.local \/ isAncestor(x.sha)
                  /\ run' = [run EXCEPT ![r] = [x EXCEPT !.step = step, !.known = 0, !.hit = x.hit]]
    <3>1. validateReleaseBranchRef(r, target) \in BOOLEAN
      BY Zenon DEF validateReleaseBranchRef
    <3> QED BY <2>1, <2>4, <3>1, Zenon DEF validateReleaseBranchRef
  <2>5. ASSUME Validated(r, validateTagRef(r))
        PROVE  \E step \in {"publish", "failed"} :
                  /\ step = "publish" => validateTagRef(r)
                  /\ run' = [run EXCEPT ![r] = [x EXCEPT !.step = step, !.known = 0, !.hit = x.hit]]
    <3>1. validateTagRef(r) \in BOOLEAN
      BY Zenon DEF validateTagRef
    <3> QED BY Zenon, <2>1, <2>5, <3>1
  <2>6. \/ /\ x.ref = ReleaseBranch
           /\ \E target : Validated(r, validateReleaseBranchRef(r, target))
        \/ x.ref # ReleaseBranch /\ Validated(r, validateTagRef(r))
        \/ Hit(r, "failed")
    BY Zenon DEF validateReleaseRef
  <2> QED BY <2>2, <2>3, <2>4, <2>5, <2>6, Zenon
<1>5. /\ run' \in [Runs -> RunRecords] /\ \A q \in Runs \ {r} : run'[q] = run[q]
      /\ run'[r].step = step /\ SameSource(r) /\ run'[r].job = x.job
      /\ run'[r].hit = hit /\ run'[r].raced = x.raced
  BY <1>2, <1>4, Zenon DEF RunRecords, RunSteps, SameSource
<1>6. step = "publish" /\ ~x.local =>
         /\ x.sha <= releaseHead
         /\ x.ref # ReleaseBranch => x.ref.name = expectedTag(x.sha)
  BY Zenon, <1>2, <1>3, <1>4 DEF validateTagRef, isAncestor, isPublishableReleaseSource
<1> QED BY <1>1, <1>3, <1>4, <1>5, <1>6, PhaseStep, Zenon

\* The tag comes after every job that was asked for.
LEMMA EnforceStep ==
    ASSUME ReleaseInv, NEW r \in Runs, EnforceResults(r) PROVE ReleaseInv'
<1> DEFINE x == run[r]
<1>1. /\ x.step = "publish" /\ Quiet /\ UNCHANGED <<tags, registryVars, taggedBy>>
  BY Zenon DEF EnforceResults
<1>2. /\ x \in RunRecords /\ run \in [Runs -> RunRecords] /\ GateInv(r)
      /\ NpmJobInv(r) /\ CratesJobInv(r) /\ DockerJobInv(r)
  BY Zenon, <1>1, Started
<1>3. PICK step \in {"failed", "tag", "done"} :
         /\ run' = [run EXCEPT ![r] = [x EXCEPT !.step = step]]
         /\ step = "tag" => ~x.local /\ \A j \in x.select : x.job[j].step = "success"
  BY Zenon DEF EnforceResults, Step
<1>4. /\ run' \in [Runs -> RunRecords] /\ \A q \in Runs \ {r} : run'[q] = run[q]
      /\ run'[r].step = step /\ SameSource(r) /\ run'[r].job = x.job
      /\ run'[r].hit = x.hit /\ run'[r].raced = x.raced
  BY <1>2, <1>3, Zenon DEF RunRecords, RunSteps, SameSource
<1>5. step = "tag" => SelectedOut(r)
  BY <1>2, <1>3, Zenon DEF SelectedOut, NpmJobInv, CratesJobInv, DockerJobInv
<1>6. /\ Sourced(x.sha) /\ isPublishableReleaseSource(x.ref)
      /\ ~x.local => /\ x.sha <= releaseHead
                     /\ x.ref # ReleaseBranch => x.ref.name = expectedTag(x.sha)
  BY Zenon, <1>1, <1>2 DEF GateInv
<1> QED BY <1>1, <1>3, <1>4, <1>5, <1>6, PhaseStep, Zenon

\* The tag is looked up before it is made.
LEMMA EnsureTagStep ==
    ASSUME ReleaseInv, NEW r \in Runs, runEnsureReleaseTag(r) PROVE ReleaseInv'
<1> DEFINE x == run[r]
<1>1. /\ x.step = "tag" /\ Quiet /\ UNCHANGED <<tags, registryVars, taggedBy>>
  BY Zenon DEF runEnsureReleaseTag
<1>2. /\ x \in RunRecords /\ run \in [Runs -> RunRecords] /\ GateInv(r) /\ EndInv(r)
  BY Zenon, <1>1, Started
<1>3. PICK step \in {"failed", "push", "done"} : run' = [run EXCEPT ![r] = [x EXCEPT !.step = step]]
  <2>1. \E step \in {"failed", "push", "done"} : Step(r, step)
    BY Zenon DEF runEnsureReleaseTag
  <2> QED BY <2>1, Zenon DEF Step
<1>4. /\ run' \in [Runs -> RunRecords] /\ \A q \in Runs \ {r} : run'[q] = run[q]
      /\ run'[r].step = step /\ SameSource(r) /\ run'[r].job = x.job
      /\ run'[r].hit = x.hit /\ run'[r].raced = x.raced
  BY <1>2, <1>3, Zenon DEF RunRecords, RunSteps, SameSource
<1>5. /\ Sourced(x.sha) /\ isPublishableReleaseSource(x.ref) /\ ~x.local /\ SelectedOut(r)
      /\ x.sha <= releaseHead /\ (x.ref # ReleaseBranch => x.ref.name = expectedTag(x.sha))
  BY Zenon, <1>1, <1>2 DEF GateInv, EndInv
<1> QED BY <1>1, <1>3, <1>4, <1>5, PhaseStep, Zenon

\* The push makes a tag that was not there, or leaves the tags alone.
LEMMA PushTagStep ==
    ASSUME ReleaseInv, NEW r \in Runs, PushTag(r) PROVE ReleaseInv'
<1> DEFINE x == run[r]  v == expectedTag(x.sha)
<1>1. x.step = "push" /\ Quiet /\ UNCHANGED registryVars
  BY Zenon DEF PushTag
<1>2. /\ x \in RunRecords /\ run \in [Runs -> RunRecords] /\ GateInv(r) /\ EndInv(r)
      /\ NpmJobInv(r) /\ CratesJobInv(r) /\ DockerJobInv(r)
      /\ x.sha \in 1..Len(commits) /\ SourceInv
  BY Zenon, <1>1, Started
<1>3. /\ Sourced(x.sha) /\ ~x.local /\ SelectedOut(r) /\ x.sha <= releaseHead
  BY Zenon, <1>1, <1>2 DEF GateInv, EndInv
<1>4. CASE UNCHANGED <<tags, taggedBy>>
           /\ \/ \E step \in {"done", "failed"} : Step(r, step)
              \/ Hit(r, "failed")
  <2>1. x.hit \in BOOLEAN
    BY Zenon, <1>2 DEF RunRecords
  <2>2. PICK step \in {"done", "failed"}, hit \in BOOLEAN :
           /\ run' = [run EXCEPT ![r] = [x EXCEPT !.step = step, !.hit = hit]]
           /\ x.hit => hit
    <3>1. ASSUME NEW step \in {"done", "failed"}, Step(r, step)
          PROVE  run' = [run EXCEPT ![r] = [x EXCEPT !.step = step, !.hit = x.hit]]
      BY <1>2, <3>1, Zenon DEF Step, RunRecords
    <3>2. ASSUME Hit(r, "failed")
          PROVE  run' = [run EXCEPT ![r] = [x EXCEPT !.step = "failed", !.hit = TRUE]]
      BY <1>2, <3>2, Zenon DEF Hit, RunRecords
    <3> QED BY <1>4, <2>1, <3>1, <3>2, Zenon
  <2>3. /\ run' \in [Runs -> RunRecords] /\ \A q \in Runs \ {r} : run'[q] = run[q]
        /\ run'[r].step = step /\ SameSource(r) /\ run'[r].job = x.job
        /\ run'[r].hit = hit /\ run'[r].raced = x.raced
    BY <1>2, <2>2, Zenon DEF RunRecords, RunSteps, SameSource
  <2> QED BY <1>1, <1>4, <2>2, <2>3, PhaseStep, Zenon
<1>5. CASE /\ tags[v] = NoCommit /\ tags' = [tags EXCEPT ![v] = x.sha]
           /\ taggedBy' = [taggedBy EXCEPT ![v] = r] /\ Step(r, "done")
  <2>1. /\ run' \in [Runs -> RunRecords] /\ \A q \in Runs \ {r} : run'[q] = run[q]
        /\ run'[r].step = "done" /\ SameSource(r) /\ run'[r].job = x.job
        /\ run'[r].hit = x.hit /\ run'[r].raced = x.raced
    BY <1>2, <1>5, Zenon DEF Step, RunRecords, RunSteps, SameSource
  <2>2. PICK w \in Versions, c \in 1..Len(commits) : w = v /\ c = x.sha /\ c \in 0..Len(commits)
    BY <1>2, HistoryTyped
  <2>3. SourceInv'
    BY <1>1, <1>2, <1>5, <2>1, <2>2, Zenon DEF SourceInv, Quiet, sourceVars, registryVars
  <2>4. /\ \A u \in Versions : tags[u] # NoCommit => tags'[u] = tags[u]
        /\ tags'[w] = c /\ taggedBy'[w] = r
        /\ \A u \in Versions \ {w} : taggedBy'[u] = taggedBy[u]
    BY <1>2, <1>5, <2>2, Zenon DEF SourceInv
  <2>5. Grows
    BY <1>1, <1>2, <2>4, HistoryTyped DEF Grows, Quiet, sourceVars, registryVars
  <2>6. TestInv' /\ RegistryInv'
    BY Zenon, <1>1, <1>2, <2>3, <2>5, TestsKept, RegistryFrame DEF ReleaseInv, Quiet
  <2>7. SelectedOut(r)'
    BY <1>2, <1>3, <2>1, <2>3, <2>5, JobFrame, Zenon
  <2>8. TaggedInv(w)'
    <3>1. Sound(c, w)
      BY Zenon, <1>3, <2>2, SourcedIsSound
    <3>2. Sound(c, w)'
      BY <1>1, <3>1, Zenon DEF Sound, Quiet, sourceVars
    <3>3. run'[r].sha = c /\ c \in 1..Len(commits')
      BY <1>1, <2>1, <2>2, Zenon DEF SameSource, Quiet, sourceVars
    <3> QED BY <2>1, <2>4, <2>7, <3>2, <3>3, ZenonT(60) DEF TaggedInv
  <2>9. \A u \in Versions \ {w} : TaggedInv(u)'
    BY <1>1, <1>2, <2>1, <2>3, <2>4, <2>5, TaggedFrame, Zenon DEF ReleaseInv
  <2>10. NpmJobInv(r)' /\ CratesJobInv(r)' /\ DockerJobInv(r)'
    BY <1>2, <2>1, <2>3, <2>5, JobFrame, Zenon
  <2>11. GateInv(r)' /\ EndInv(r)'
    BY <1>1, <1>2, <2>1, Zenon DEF GateInv, EndInv, SameSource, Quiet, sourceVars
  <2>12. RunInv(r)'
    BY <2>1, <2>10, <2>11, Zenon DEF RunInv
  <2>13. \A u \in Versions : TaggedInv(u)'
    BY Zenon, <2>8, <2>9
  <2> QED BY Zenon, <2>1, <2>3, <2>5, <2>6, <2>12, <2>13, RunStep
<1> QED BY Zenon, <1>4, <1>5 DEF PushTag

----------------------------------------------------------------------------
(* Steps of the publish jobs.                                              *)

\* A job of a run gets another record, and the run is marked.
JobTo(r, j, w, mark) ==
    /\ run' \in [Runs -> RunRecords] /\ \A q \in Runs \ {r} : run'[q] = run[q]
    /\ SameSource(r) /\ run'[r].step = run[r].step
    /\ run'[r].job[j] = w /\ \A i \in Jobs \ {j} : run'[r].job[i] = run[r].job[i]
    /\ run[r].hit => run'[r].hit
    /\ run[r].raced => run'[r].raced
    /\ mark => run'[r].hit \/ run'[r].raced

\* A new record for a job, and new marks, make a step of the job.
LEMMA JobUpdate ==
    ASSUME run \in [Runs -> RunRecords], NEW r \in Runs, NEW j \in Jobs, NEW w \in JobRecords,
           NEW hit \in BOOLEAN, NEW raced \in BOOLEAN,
           run[r].hit => hit, run[r].raced => raced,
           run' = [run EXCEPT ![r] = [run[r] EXCEPT !.job = [run[r].job EXCEPT ![j] = w],
                                                    !.hit = hit, !.raced = raced]]
    PROVE  JobTo(r, j, w, hit \/ raced)
<1> DEFINE jobs == [run[r].job EXCEPT ![j] = w]
           y == [run[r] EXCEPT !.job = jobs, !.hit = hit, !.raced = raced]
<1>1. run[r] \in RunRecords /\ run[r].job \in [Jobs -> JobRecords]
  BY Zenon DEF RunRecords
<1>2. jobs \in [Jobs -> JobRecords] /\ jobs[j] = w /\ \A i \in Jobs \ {j} : jobs[i] = run[r].job[i]
  BY Zenon, <1>1
<1> HIDE DEF jobs
<1>3. /\ y \in RunRecords /\ y.job = jobs /\ y.hit = hit /\ y.raced = raced
      /\ y.step = run[r].step /\ y.planned = run[r].planned /\ y.sha = run[r].sha
      /\ y.ref = run[r].ref /\ y.select = run[r].select /\ y.local = run[r].local
      /\ y.auto = run[r].auto
  BY <1>1, <1>2, Zenon DEF RunRecords
<1>4. run' = [run EXCEPT ![r] = y]
  BY Zenon DEF jobs
<1> HIDE DEF y
<1>5. run' \in [Runs -> RunRecords] /\ run'[r] = y /\ \A q \in Runs \ {r} : run'[q] = run[q]
  BY Zenon, <1>3, <1>4
<1>6. SameSource(r)
  BY Zenon, <1>3, <1>5 DEF SameSource
<1> QED BY <1>2, <1>3, <1>5, <1>6, Zenon DEF JobTo

\* Where a job is once the package it is at, number n of last, is out.
Advanced(n, last) ==
    IF n = last THEN [step |-> "success", at |-> 1] ELSE [step |-> "query", at |-> n + 1]

\* The four ways in which an action changes a job.
LEMMA JobChanges ==
    ASSUME run \in [Runs -> RunRecords], NEW r \in Runs, NEW j \in Jobs
    PROVE  LET at == run[r].job[j].at IN
           /\ \A step \in JobSteps : SetJob(r, j, step) =>
                 JobTo(r, j, [step |-> step, at |-> at], FALSE)
           /\ HitJob(r, j) => JobTo(r, j, [step |-> "failure", at |-> at], TRUE)
           /\ \A raced \in BOOLEAN : Refused(r, j, raced) =>
                 JobTo(r, j, [step |-> "failure", at |-> at], raced)
           /\ \A packages : Advance(r, j, packages) =>
                 JobTo(r, j, Advanced(at, Len(packages)), FALSE)
<1> DEFINE x == run[r]  at == x.job[j].at
<1>1. /\ x \in RunRecords /\ x.job \in [Jobs -> JobRecords] /\ x.job[j] \in JobRecords
      /\ x.hit \in BOOLEAN /\ x.raced \in BOOLEAN
  BY Zenon DEF RunRecords
<1>2. /\ at \in Nat
      /\ \A step : [x.job[j] EXCEPT !.step = step] = [step |-> step, at |-> at]
      /\ \A step \in JobSteps : [step |-> step, at |-> at] \in JobRecords
  BY <1>1, SMTT(30) DEF JobRecords
<1>3. ASSUME NEW step \in JobSteps, SetJob(r, j, step)
      PROVE  JobTo(r, j, [step |-> step, at |-> at], FALSE)
  <2>1. run' = [run EXCEPT ![r] = [x EXCEPT !.job = [x.job EXCEPT ![j] = [step |-> step, at |-> at]],
                                           !.hit = x.hit, !.raced = x.raced]]
    BY <1>1, <1>2, <1>3, ZenonT(60) DEF SetJob, RunRecords
  <2>2. JobTo(r, j, [step |-> step, at |-> at], x.hit \/ x.raced)
    BY <1>1, <1>2, <2>1, JobUpdate, Zenon
  <2> QED BY Zenon, <2>2 DEF JobTo
<1>4. ASSUME HitJob(r, j)
      PROVE  JobTo(r, j, [step |-> "failure", at |-> at], TRUE)
  <2>1. run' = [run EXCEPT ![r] = [x EXCEPT !.job = [x.job EXCEPT ![j] = [step |-> "failure", at |-> at]],
                                           !.hit = TRUE, !.raced = x.raced]]
    <3>1. run'[r] = [x EXCEPT !.job = [x.job EXCEPT ![j] = [step |-> "failure", at |-> at]], !.hit = TRUE]
      BY <1>1, <1>2, <1>4, Zenon DEF HitJob, RunRecords
    <3> QED BY <1>1, <1>4, <3>1, ZenonT(60) DEF HitJob, RunRecords
  <2>2. [step |-> "failure", at |-> at] \in JobRecords
    BY Zenon, <1>2 DEF JobSteps
  <2>3. JobTo(r, j, [step |-> "failure", at |-> at], TRUE \/ x.raced)
    BY <1>1, <2>1, <2>2, JobUpdate, Zenon
  <2> QED BY Zenon, <2>3 DEF JobTo
<1>5. ASSUME NEW raced \in BOOLEAN, Refused(r, j, raced)
      PROVE  JobTo(r, j, [step |-> "failure", at |-> at], raced)
  <2> DEFINE either == x.raced \/ raced
  <2>1. run' = [run EXCEPT ![r] = [x EXCEPT !.job = [x.job EXCEPT ![j] = [step |-> "failure", at |-> at]],
                                           !.hit = x.hit, !.raced = either]]
    <3>1. run'[r] = [x EXCEPT !.job = [x.job EXCEPT ![j] = [step |-> "failure", at |-> at]],
                              !.raced = either]
      BY <1>1, <1>2, <1>5, ZenonT(60) DEF Refused, RunRecords
    <3>2. run'[r] = [x EXCEPT !.job = [x.job EXCEPT ![j] = [step |-> "failure", at |-> at]],
                              !.hit = x.hit, !.raced = either]
      BY <1>1, <3>1, ZenonT(60) DEF RunRecords
    <3>3. run' = [run EXCEPT ![r] = run'[r]]
      BY <1>5, ZenonT(60) DEF Refused
    <3> QED BY <3>2, <3>3, ZenonT(60)
  <2>2. [step |-> "failure", at |-> at] \in JobRecords
    BY Zenon, <1>2 DEF JobSteps
  <2>3. either \in BOOLEAN /\ (x.raced => either) /\ (raced => either)
    BY Zenon
  <2> HIDE DEF either
  <2>4. JobTo(r, j, [step |-> "failure", at |-> at], x.hit \/ either)
    BY <1>1, <2>1, <2>2, <2>3, JobUpdate, Zenon
  <2> QED BY Zenon, <2>3, <2>4 DEF JobTo
<1>6. ASSUME NEW packages, Advance(r, j, packages)
      PROVE  JobTo(r, j, Advanced(at, Len(packages)), FALSE)
  <2> DEFINE w == Advanced(at, Len(packages))
  <2>1. run' = [run EXCEPT ![r] = [x EXCEPT !.job = [x.job EXCEPT ![j] = w],
                                           !.hit = x.hit, !.raced = x.raced]]
    BY <1>1, <1>6, Zenon DEF Advance, RunRecords, Advanced
  <2>2. w \in JobRecords
    BY <1>2 DEF JobRecords, JobSteps, Advanced
  <2> HIDE DEF w
  <2>3. JobTo(r, j, w, x.hit \/ x.raced)
    BY <1>1, <2>1, <2>2, JobUpdate, Zenon
  <2> QED BY Zenon, <2>3 DEF JobTo, w
<1> QED BY <1>3, <1>4, <1>5, <1>6, Zenon

\* There is a package and a crate to publish.
LEMMA OrdersTyped ==
    /\ Len(NpmOrder) \in Nat /\ 1 <= Len(NpmOrder)
    /\ Len(Crates) \in Nat /\ 1 <= Len(Crates)
    /\ \A i \in 1..Len(Crates) : i \in DOMAIN Crates
<1>1. NpmOrder \in Seq(SeqSet(NodePackages)) /\ NpmOrder # <<>>
  BY PackageAssumption, Zenon DEF NpmOrder
<1>2. Crates \in Seq(CrateSet) /\ Crates # <<>>
  BY PackageAssumption, Zenon
<1>3. Len(NpmOrder) \in Nat /\ 1 <= Len(NpmOrder)
  BY <1>1
<1>4. Len(Crates) \in Nat /\ 1 <= Len(Crates) /\ \A i \in 1..Len(Crates) : i \in DOMAIN Crates
  BY <1>2
<1> QED BY Zenon, <1>3, <1>4

\* A step of a job leaves the source alone, and takes nothing from the registries.
LEMMA JobGrows ==
    ASSUME ReleaseInv, Quiet, UNCHANGED <<tags, taggedBy>>, run' \in [Runs -> RunRecords],
           npmjs \subseteq npmjs', cratesio \subseteq cratesio',
           ghcr' \in [Versions \cup Channels -> 0..Len(commits)],
           \A v \in Versions : ghcr[v] # NoCommit => ghcr'[v] # NoCommit
    PROVE  SourceInv' /\ Grows /\ TestInv'
<1>1. SourceInv'
  BY Zenon DEF ReleaseInv, SourceInv, Quiet, sourceVars
<1>2. Grows
  BY HistoryTyped, SMTT(30) DEF ReleaseInv, Grows, Quiet, sourceVars
<1> QED BY Zenon, <1>1, <1>2, TestsKept DEF Quiet

\* A step of one job keeps what is known of the others.
LEMMA JobStep ==
    ASSUME ReleaseInv, NEW r \in Runs, run[r].step = "publish", UNCHANGED taggedBy,
           SourceInv', Grows, TestInv', RegistryInv', NEW j \in Jobs, NEW w, NEW mark,
           JobTo(r, j, w, mark),
           j = "npm" => NpmJobInv(r)', j = "crates" => CratesJobInv(r)',
           j = "docker" => DockerJobInv(r)'
    PROVE  ReleaseInv'
<1>1. /\ GateInv(r) /\ NpmJobInv(r) /\ CratesJobInv(r) /\ DockerJobInv(r) /\ SourceInv
  BY Zenon, Started
<1>2. /\ SameSource(r) /\ run'[r].step = "publish"
      /\ run[r].hit => run'[r].hit
      /\ run[r].raced => run'[r].raced
      /\ \A i \in Jobs \ {j} : run'[r].job[i] = run[r].job[i]
      /\ \A q \in Runs \ {r} : run'[q] = run[q]
  BY Zenon DEF JobTo
<1>3. NpmJobInv(r)' /\ CratesJobInv(r)' /\ DockerJobInv(r)'
  BY <1>1, <1>2, JobFrame, Zenon DEF Jobs
<1>4. GateInv(r)' /\ EndInv(r)'
  BY <1>1, <1>2, GateFrame, ZenonT(60) DEF EndInv
<1>5. RunInv(r)'
  BY Zenon, <1>2, <1>3, <1>4 DEF RunInv
<1>6. \A v \in Versions : TaggedInv(v)'
  BY <1>1, <1>2, TaggedFrame, Zenon DEF ReleaseInv
<1> QED BY Zenon, <1>2, <1>5, <1>6, RunStep

\* What a run publishes is sound.
LEMMA EntrySound ==
    ASSUME ReleaseInv, NEW r \in Runs, run[r].step = "publish", ~run[r].local,
           SourceInv', Grows, Quiet, UNCHANGED ghcr, NEW p,
           \A e \in npmjs' \cup cratesio' : e \in npmjs \cup cratesio \/ e = Entry(p, r)
    PROVE  RegistryInv'
<1> DEFINE c == run[r].sha  n == Entry(p, r)
<1>1. c \in 1..Len(commits) /\ GateInv(r)
  BY Zenon, Started
<1>2. Sourced(c) /\ c <= releaseHead
  BY Zenon, <1>1 DEF GateInv
<1>3. n.sha = c /\ n.version = expectedTag(c)
  BY Zenon DEF Entry
<1>4. n.sha \in 1..Len(commits) /\ Sound(n.sha, n.version)
  BY Zenon, <1>1, <1>2, <1>3, SourcedIsSound
<1> HIDE DEF n
<1>5. \A e \in npmjs' \cup cratesio' : e.sha \in 1..Len(commits) /\ Sound(e.sha, e.version)
  BY Zenon, <1>4 DEF ReleaseInv, RegistryInv, n
<1>6. commits' = commits /\ \A b, u : Sound(b, u) => Sound(b, u)'
  BY Zenon DEF Quiet, sourceVars, Sound
<1> QED BY <1>5, <1>6, Zenon DEF ReleaseInv, RegistryInv

\* The package after package m of k, and the ones before it.
LEMMA NextPackage ==
    \A k \in Nat : \A m \in 1..k :
        /\ \A i \in 1..m : i = m \/ i \in 1..(m - 1)
        /\ m # k => m + 1 \in 1..k /\ (m + 1) - 1 = m
OBVIOUS

\* The job of the node packages goes on when the package it is at is out.
LEMMA NpmAdvances ==
    ASSUME ReleaseInv, NEW r \in Runs, run[r].step = "publish", SourceInv', Grows,
           run[r].job["npm"].step \in {"query", "publish"},
           Holds(npmjs', NpmOrder[run[r].job["npm"].at], expectedTag(run[r].sha)),
           NEW w, w = Advanced(run[r].job["npm"].at, Len(NpmOrder)), JobTo(r, "npm", w, FALSE)
    PROVE  NpmJobInv(r)'
<1>1. NpmJobInv(r) /\ run[r].sha \in 1..Len(commits) /\ SourceInv
  BY Started, Zenon
<1>2. PICK v, c, n : v = expectedTag(c) /\ c = run[r].sha /\ n = run[r].job["npm"].at
  <2>1. \E n : n = run[r].job["npm"].at
    BY Zenon
  <2>2. \E c : c = run[r].sha
    BY Zenon
  <2>3. \A c : \E v : v = expectedTag(c)
    BY Zenon
  <2> QED BY <2>1, <2>2, <2>3, ZenonT(60)
<1>3. ~run[r].local /\ n \in 1..Len(NpmOrder) /\ NpmOut(v, n - 1)
  BY <1>1, <1>2, Zenon DEF NpmJobInv
<1>4. Len(NpmOrder) \in Nat
  BY OrdersTyped, Zenon
<1>5. NpmOut(v, n)'
  <2>1. NpmOut(v, n - 1)'
    BY <1>3, OutKept, Zenon
  <2>2. Holds(npmjs', NpmOrder[n], v)
    BY <1>2, ZenonT(60)
  <2>3. \A i \in 1..n : i = n \/ i \in 1..(n - 1)
    BY <1>3, <1>4, NextPackage, Zenon
  <2> QED BY <2>1, <2>2, <2>3, Zenon DEF NpmOut
<1>6. run'[r].sha = c /\ run'[r].local = run[r].local /\ expectedTag(c)' = v
  <2>1. commits'[c] = commits[c]
    BY <1>1, <1>2, SourceKept, Zenon
  <2> QED BY <1>2, <2>1, ZenonT(60) DEF JobTo, SameSource, expectedTag
<1>7. CASE n = Len(NpmOrder)
  <2>1. w.step = "success"
    BY Zenon, <1>2, <1>7 DEF Advanced
  <2>2. run'[r].job["npm"].step = "success"
    BY <2>1, Zenon DEF JobTo
  <2> QED BY <1>5, <1>6, <1>7, <2>2, ZenonT(60) DEF NpmJobInv, expectedTag
<1>8. CASE n # Len(NpmOrder)
  <2>1. w.step = "query" /\ w.at = n + 1
    BY <1>2, <1>8, Zenon DEF Advanced
  <2>2. run'[r].job["npm"].step = "query" /\ run'[r].job["npm"].at = n + 1
    BY <2>1, Zenon DEF JobTo
  <2>3. n + 1 \in 1..Len(NpmOrder) /\ (n + 1) - 1 = n
    BY <1>3, <1>4, <1>8, NextPackage, Zenon
  <2> QED BY <1>3, <1>5, <1>6, <2>2, <2>3, ZenonT(60) DEF NpmJobInv, expectedTag
<1> QED BY <1>7, <1>8, Zenon

\* The job of the crates goes on when the package it is at is out.
LEMMA CratesAdvances ==
    ASSUME ReleaseInv, NEW r \in Runs, run[r].step = "publish", SourceInv', Grows,
           run[r].job["crates"].step \in {"query", "publish"},
           Holds(cratesio', Crates[run[r].job["crates"].at], expectedTag(run[r].sha)),
           NEW w, w = Advanced(run[r].job["crates"].at, Len(Crates)), JobTo(r, "crates", w, FALSE)
    PROVE  CratesJobInv(r)'
<1>1. CratesJobInv(r) /\ run[r].sha \in 1..Len(commits) /\ SourceInv
  BY Started, Zenon
<1>2. PICK v, c, n : v = expectedTag(c) /\ c = run[r].sha /\ n = run[r].job["crates"].at
  <2>1. \E n : n = run[r].job["crates"].at
    BY Zenon
  <2>2. \E c : c = run[r].sha
    BY Zenon
  <2>3. \A c : \E v : v = expectedTag(c)
    BY Zenon
  <2> QED BY <2>1, <2>2, <2>3, ZenonT(60)
<1>3. ~run[r].local /\ n \in 1..Len(Crates) /\ CratesOut(v, n - 1)
  BY <1>1, <1>2, ZenonT(60) DEF CratesJobInv
<1>4. Len(Crates) \in Nat
  BY OrdersTyped, Zenon
<1>5. CratesOut(v, n)'
  <2>1. CratesOut(v, n - 1)'
    BY <1>3, OutKept, Zenon
  <2>2. Holds(cratesio', Crates[n], v)
    BY <1>2, Zenon
  <2>3. \A i \in 1..n : i = n \/ i \in 1..(n - 1)
    BY <1>3, <1>4, NextPackage, Zenon
  <2> QED BY <2>1, <2>2, <2>3, Zenon DEF CratesOut
<1>6. run'[r].sha = c /\ run'[r].local = run[r].local /\ expectedTag(c)' = v
  <2>1. commits'[c] = commits[c]
    BY <1>1, <1>2, SourceKept, Zenon
  <2> QED BY <1>2, <2>1, Zenon DEF JobTo, SameSource, expectedTag
<1>7. CASE n = Len(Crates)
  <2>1. w.step = "success"
    BY Zenon, <1>2, <1>7 DEF Advanced
  <2>2. run'[r].job["crates"].step = "success"
    BY <2>1, Zenon DEF JobTo
  <2> QED BY <1>5, <1>6, <1>7, <2>2, ZenonT(60) DEF CratesJobInv, expectedTag
<1>8. CASE n # Len(Crates)
  <2>1. w.step = "query" /\ w.at = n + 1
    BY <1>2, <1>8, Zenon DEF Advanced
  <2>2. run'[r].job["crates"].step = "query" /\ run'[r].job["crates"].at = n + 1
    BY <2>1, Zenon DEF JobTo
  <2>3. n + 1 \in 1..Len(Crates) /\ (n + 1) - 1 = n
    BY <1>3, <1>4, <1>8, NextPackage, Zenon
  <2> QED BY <1>3, <1>5, <1>6, <2>2, <2>3, ZenonT(60) DEF CratesJobInv, expectedTag
<1> QED BY <1>7, <1>8, Zenon

\* The other steps of the job of the node packages: it fails, starts, ends a
\* local run, or goes from the question to the publication.
LEMMA NpmChanges ==
    ASSUME ReleaseInv, NEW r \in Runs, run[r].step = "publish", SourceInv', Grows,
           NEW w, NEW mark, JobTo(r, "npm", w, mark),
           \/ w.step = "failure" /\ mark
           \/ w = [step |-> "query", at |-> 1] /\ ~run[r].local
           \/ w.step = "success" /\ run[r].local
           \/ /\ w = [step |-> "publish", at |-> run[r].job["npm"].at]
              /\ run[r].job["npm"].step = "query"
    PROVE  NpmJobInv(r)'
<1>1. NpmJobInv(r) /\ run[r].sha \in 1..Len(commits) /\ SourceInv
  BY Zenon, Started
<1>2. /\ run'[r].job["npm"] = w /\ run'[r].sha = run[r].sha /\ run'[r].local = run[r].local
      /\ mark => run'[r].hit \/ run'[r].raced
  BY Zenon DEF JobTo, SameSource
<1>3. commits'[run[r].sha] = commits[run[r].sha]
  BY <1>1, SourceKept, ZenonT(60)
<1>4. CASE w.step = "failure" /\ mark
  BY <1>2, <1>4, Zenon DEF NpmJobInv
<1>5. CASE w = [step |-> "query", at |-> 1] /\ ~run[r].local
  <2>1. 1 \in 1..Len(NpmOrder) /\ \A v : NpmOut(v, 0)'
    BY OrdersTyped, SMTT(30) DEF NpmOut
  <2>2. 1 - 1 = 0 /\ w.step = "query" /\ w.at = 1
    BY <1>5, SMTT(30)
  <2> QED BY <1>2, <1>5, <2>1, <2>2, Zenon DEF NpmJobInv
<1>6. CASE w.step = "success" /\ run[r].local
  BY Zenon, <1>2, <1>6 DEF NpmJobInv
<1>7. CASE w = [step |-> "publish", at |-> run[r].job["npm"].at] /\ run[r].job["npm"].step = "query"
  <2>1. w.step = "publish" /\ w.at = run[r].job["npm"].at
    BY <1>7, Zenon
  <2> QED BY <1>1, <1>2, <1>3, <1>7, <2>1, OutKept, Zenon DEF NpmJobInv, expectedTag
<1> QED BY <1>4, <1>5, <1>6, <1>7, Zenon

\* The other steps of the job of the crates: it fails, starts, ends a
\* local run, or goes from the question to the publication.
LEMMA CratesChanges ==
    ASSUME ReleaseInv, NEW r \in Runs, run[r].step = "publish", SourceInv', Grows,
           NEW w, NEW mark, JobTo(r, "crates", w, mark),
           \/ w.step = "failure" /\ mark
           \/ w = [step |-> "query", at |-> 1] /\ ~run[r].local
           \/ w.step = "success" /\ run[r].local
           \/ /\ w = [step |-> "publish", at |-> run[r].job["crates"].at]
              /\ run[r].job["crates"].step = "query"
    PROVE  CratesJobInv(r)'
<1>1. CratesJobInv(r) /\ run[r].sha \in 1..Len(commits) /\ SourceInv
  BY Zenon, Started
<1>2. /\ run'[r].job["crates"] = w /\ run'[r].sha = run[r].sha /\ run'[r].local = run[r].local
      /\ mark => run'[r].hit \/ run'[r].raced
  BY Zenon DEF JobTo, SameSource
<1>3. commits'[run[r].sha] = commits[run[r].sha]
  BY <1>1, SourceKept, ZenonT(60)
<1>4. CASE w.step = "failure" /\ mark
  BY <1>2, <1>4, Zenon DEF CratesJobInv
<1>5. CASE w = [step |-> "query", at |-> 1] /\ ~run[r].local
  <2>1. 1 \in 1..Len(Crates) /\ \A v : CratesOut(v, 0)'
    BY OrdersTyped, SMTT(30) DEF CratesOut
  <2>2. 1 - 1 = 0 /\ w.step = "query" /\ w.at = 1
    BY <1>5
  <2> QED BY <1>2, <1>5, <2>1, <2>2, Zenon DEF CratesJobInv
<1>6. CASE w.step = "success" /\ run[r].local
  BY <1>2, <1>6, Zenon DEF CratesJobInv
<1>7. CASE w = [step |-> "publish", at |-> run[r].job["crates"].at] /\ run[r].job["crates"].step = "query"
  <2>1. w.step = "publish" /\ w.at = run[r].job["crates"].at
    BY <1>7, Zenon
  <2> QED BY <1>1, <1>2, <1>3, <1>7, <2>1, OutKept, Zenon DEF CratesJobInv, expectedTag
<1> QED BY <1>4, <1>5, <1>6, <1>7, ZenonT(60)

\* A step of a job that leaves the registries alone.
LEMMA SilentJob ==
    ASSUME ReleaseInv, Quiet, UNCHANGED <<tags, registryVars, taggedBy>>,
           run' \in [Runs -> RunRecords]
    PROVE  SourceInv' /\ Grows /\ TestInv' /\ RegistryInv'
<1>1. ghcr \in [Versions \cup Channels -> 0..Len(commits)] /\ SourceInv /\ RegistryInv
  BY Zenon DEF ReleaseInv, SourceInv
<1>2. SourceInv' /\ Grows /\ TestInv'
  BY Zenon, <1>1, JobGrows DEF registryVars
<1> QED BY Zenon, <1>1, <1>2, RegistryFrame

\* The source of a run that publishes passes the version check of the jobs.
LEMMA PublishingConsistent ==
    ASSUME ReleaseInv, NEW r \in Runs, run[r].step = "publish"
    PROVE  ensureVersionConsistency(run[r].sha)
<1>1. Sourced(run[r].sha)
  BY Zenon, Started DEF GateInv
<1> QED BY Zenon, <1>1, SourcedMeansConsistency

\* The job of the node packages starts.
LEMMA StartNpmStep == ASSUME ReleaseInv, NEW r \in Runs, StartNpm(r) PROVE ReleaseInv'
<1>1. /\ run[r].step = "publish" /\ run[r].job["npm"].step = "waiting" /\ Quiet
      /\ UNCHANGED <<tags, registryVars, taggedBy>>
  BY ZenonT(60) DEF StartNpm, JobAt
<1>2. NpmJobInv(r) /\ run \in [Runs -> RunRecords] /\ "npm" \in Jobs
  BY Zenon, <1>1, Started DEF Jobs
<1>3. run[r].job["npm"].at = 1
  BY Zenon, <1>1, <1>2 DEF NpmJobInv
<1>4. PICK step \in {"success", "query"} :
         SetJob(r, "npm", step) /\ (step = "success" => run[r].local)
                                /\ (step = "query" => ~run[r].local)
  BY Zenon, <1>1, PublishingConsistent DEF StartNpm
<1> DEFINE w == [step |-> step, at |-> 1]
<1>5. JobTo(r, "npm", w, FALSE)
  BY <1>2, <1>3, <1>4, JobChanges, Zenon DEF JobSteps
<1>6. SourceInv' /\ Grows /\ TestInv' /\ RegistryInv'
  BY Zenon, <1>1, <1>5, SilentJob DEF JobTo
<1>7. NpmJobInv(r)'
  BY <1>1, <1>4, <1>5, <1>6, NpmChanges, ZenonT(60)
<1> QED BY <1>1, <1>2, <1>5, <1>6, <1>7, JobStep, Zenon

\* The crates pass the package gate, or the job fails.
LEMMA PackageCratesStep == ASSUME ReleaseInv, NEW r \in Runs, PackageCrates(r) PROVE ReleaseInv'
<1>1. /\ run[r].step = "publish" /\ run[r].job["crates"].step = "waiting" /\ Quiet
      /\ UNCHANGED <<tags, registryVars, taggedBy>>
  BY Zenon DEF PackageCrates, JobAt
<1>2. CratesJobInv(r) /\ run \in [Runs -> RunRecords] /\ "crates" \in Jobs
  BY Zenon, <1>1, Started DEF Jobs
<1>3. run[r].job["crates"].at = 1
  BY Zenon, <1>1, <1>2 DEF CratesJobInv
<1>4. \/ \E step \in {"success", "query"} :
            SetJob(r, "crates", step) /\ (step = "success" => run[r].local)
                                      /\ (step = "query" => ~run[r].local)
      \/ HitJob(r, "crates")
  BY Zenon, <1>1, PublishingConsistent DEF PackageCrates
<1>5. PICK step \in {"success", "query", "failure"}, mark \in BOOLEAN :
         /\ JobTo(r, "crates", [step |-> step, at |-> 1], mark)
         /\ step = "success" => run[r].local
         /\ step = "query" => ~run[r].local
         /\ step = "failure" => mark
  BY <1>2, <1>3, <1>4, JobChanges, ZenonT(60) DEF JobSteps
<1>6. SourceInv' /\ Grows /\ TestInv' /\ RegistryInv'
  BY Zenon, <1>1, <1>5, SilentJob DEF JobTo
<1>7. CratesJobInv(r)'
  BY <1>1, <1>5, <1>6, CratesChanges, Zenon
<1> QED BY <1>1, <1>2, <1>5, <1>6, <1>7, JobStep, Zenon

\* The job of the node packages passes over what is out.
LEMMA NpmQueryStep == ASSUME ReleaseInv, NEW r \in Runs, NpmQuery(r) PROVE ReleaseInv'
<1> DEFINE at == run[r].job["npm"].at
<1>1. /\ run[r].step = "publish" /\ run[r].job["npm"].step = "query" /\ Quiet
      /\ UNCHANGED <<tags, registryVars, taggedBy>>
  BY Zenon DEF NpmQuery, JobAt
<1>2. run \in [Runs -> RunRecords] /\ "npm" \in Jobs
  BY Zenon, <1>1, Started DEF Jobs
<1>3. \/ Advance(r, "npm", NpmOrder) /\ Holds(npmjs, NpmOrder[at], expectedTag(run[r].sha))
      \/ SetJob(r, "npm", "publish")
      \/ HitJob(r, "npm")
  BY Zenon DEF NpmQuery, isNpmVersionPublished, Current, NpmOrder
<1>4. ASSUME NEW w, NEW mark, JobTo(r, "npm", w, mark)
      PROVE  /\ SourceInv' /\ Grows
             /\ NpmJobInv(r)' => ReleaseInv'
  <2>1. SourceInv' /\ Grows /\ TestInv' /\ RegistryInv'
    BY Zenon, <1>1, <1>4, SilentJob DEF JobTo
  <2> QED BY Zenon, <1>1, <1>2, <1>4, <2>1, JobStep
<1>5. CASE Advance(r, "npm", NpmOrder) /\ Holds(npmjs, NpmOrder[at], expectedTag(run[r].sha))
  <2> DEFINE w == Advanced(at, Len(NpmOrder))
  <2>1. JobTo(r, "npm", w, FALSE)
    BY <1>2, <1>5, JobChanges, Zenon
  <2>2. Holds(npmjs', NpmOrder[at], expectedTag(run[r].sha))
    BY Zenon, <1>1, <1>5 DEF registryVars
  <2>3. SourceInv' /\ Grows /\ (NpmJobInv(r)' => ReleaseInv')
    BY <1>4, <2>1, Zenon
  <2> QED BY <1>1, <2>1, <2>2, <2>3, NpmAdvances, Zenon
<1>6. CASE SetJob(r, "npm", "publish")
  <2>1. JobTo(r, "npm", [step |-> "publish", at |-> at], FALSE)
    BY <1>2, <1>6, JobChanges, Zenon DEF JobSteps
  <2>2. SourceInv' /\ Grows /\ (NpmJobInv(r)' => ReleaseInv')
    BY <1>4, <2>1, Zenon
  <2> QED BY <1>1, <2>1, <2>2, NpmChanges, Zenon
<1>7. CASE HitJob(r, "npm")
  <2>1. JobTo(r, "npm", [step |-> "failure", at |-> at], TRUE)
    BY <1>2, <1>7, JobChanges, Zenon
  <2>2. SourceInv' /\ Grows /\ (NpmJobInv(r)' => ReleaseInv')
    BY <1>4, <2>1, Zenon
  <2> QED BY <1>1, <2>1, <2>2, NpmChanges, Zenon
<1> QED BY <1>3, <1>5, <1>6, <1>7, ZenonT(60)

\* The job of the crates passes over what is out.
LEMMA CratesQueryStep == ASSUME ReleaseInv, NEW r \in Runs, CratesQuery(r) PROVE ReleaseInv'
<1> DEFINE at == run[r].job["crates"].at
<1>1. /\ run[r].step = "publish" /\ run[r].job["crates"].step = "query" /\ Quiet
      /\ UNCHANGED <<tags, registryVars, taggedBy>>
  BY Zenon DEF CratesQuery, JobAt
<1>2. run \in [Runs -> RunRecords] /\ "crates" \in Jobs
  BY Zenon, <1>1, Started DEF Jobs
<1>3. \/ Advance(r, "crates", Crates) /\ Holds(cratesio, Crates[at], expectedTag(run[r].sha))
      \/ SetJob(r, "crates", "publish")
      \/ HitJob(r, "crates")
  BY Zenon DEF CratesQuery, isCrateVersionPublished, Current, orderPublishableCrates
<1>4. ASSUME NEW w, NEW mark, JobTo(r, "crates", w, mark)
      PROVE  /\ SourceInv' /\ Grows
             /\ CratesJobInv(r)' => ReleaseInv'
  <2>1. SourceInv' /\ Grows /\ TestInv' /\ RegistryInv'
    BY Zenon, <1>1, <1>4, SilentJob DEF JobTo
  <2> QED BY Zenon, <1>1, <1>2, <1>4, <2>1, JobStep
<1>5. CASE Advance(r, "crates", Crates) /\ Holds(cratesio, Crates[at], expectedTag(run[r].sha))
  <2> DEFINE w == Advanced(at, Len(Crates))
  <2>1. JobTo(r, "crates", w, FALSE)
    BY <1>2, <1>5, JobChanges, Zenon
  <2>2. Holds(cratesio', Crates[at], expectedTag(run[r].sha))
    BY <1>1, <1>5, Zenon DEF registryVars
  <2>3. SourceInv' /\ Grows /\ (CratesJobInv(r)' => ReleaseInv')
    BY <1>4, <2>1, Zenon
  <2> QED BY <1>1, <2>1, <2>2, <2>3, CratesAdvances, Zenon
<1>6. CASE SetJob(r, "crates", "publish")
  <2>1. JobTo(r, "crates", [step |-> "publish", at |-> at], FALSE)
    BY <1>2, <1>6, JobChanges, Zenon DEF JobSteps
  <2>2. SourceInv' /\ Grows /\ (CratesJobInv(r)' => ReleaseInv')
    BY <1>4, <2>1, Zenon
  <2> QED BY <1>1, <2>1, <2>2, CratesChanges, Zenon
<1>7. CASE HitJob(r, "crates")
  <2>1. JobTo(r, "crates", [step |-> "failure", at |-> at], TRUE)
    BY <1>2, <1>7, JobChanges, Zenon
  <2>2. SourceInv' /\ Grows /\ (CratesJobInv(r)' => ReleaseInv')
    BY <1>4, <2>1, Zenon
  <2> QED BY <1>1, <2>1, <2>2, CratesChanges, Zenon
<1> QED BY <1>3, <1>5, <1>6, <1>7, Zenon

\* The job of the node packages publishes one: it is refused only when another
\* run was faster.
LEMMA NpmPublishStep == ASSUME ReleaseInv, NEW r \in Runs, NpmPublish(r) PROVE ReleaseInv'
<1> DEFINE at == run[r].job["npm"].at  p == NpmOrder[at]
<1>1. /\ run[r].step = "publish" /\ run[r].job["npm"].step = "publish" /\ Quiet
      /\ UNCHANGED <<tags, cratesio, ghcr, taggedBy>>
  BY Zenon DEF NpmPublish, JobAt
<1>2. /\ run \in [Runs -> RunRecords] /\ "npm" \in Jobs /\ NpmJobInv(r)
      /\ ghcr \in [Versions \cup Channels -> 0..Len(commits)]
  BY <1>1, Started, Zenon DEF Jobs, SourceInv
<1>3. ~run[r].local
  BY Zenon, <1>1, <1>2 DEF NpmJobInv
<1>4. \/ Advance(r, "npm", NpmOrder) /\ npmjs' = npmjs \cup {Entry(p, r)}
      \/ Refused(r, "npm", TRUE) /\ UNCHANGED npmjs
      \/ HitJob(r, "npm") /\ npmjs' \in {npmjs, npmjs \cup {Entry(p, r)}}
  BY Zenon DEF NpmPublish, Current, NpmOrder
<1>5. ASSUME NEW w, NEW mark, JobTo(r, "npm", w, mark)
      PROVE  /\ SourceInv' /\ Grows
             /\ NpmJobInv(r)' => ReleaseInv'
  <2>1. npmjs \subseteq npmjs' /\ \A e \in npmjs' \cup cratesio' : e \in npmjs \cup cratesio \/ e = Entry(p, r)
    BY <1>1, <1>4, ZenonT(60)
  <2>2. SourceInv' /\ Grows /\ TestInv'
    BY <1>1, <1>2, <1>5, <2>1, JobGrows, Zenon DEF JobTo
  <2>3. RegistryInv'
    BY <1>1, <1>3, <2>1, <2>2, EntrySound, Zenon
  <2> QED BY <1>1, <1>2, <1>5, <2>2, <2>3, JobStep, Zenon
<1>6. CASE Advance(r, "npm", NpmOrder) /\ npmjs' = npmjs \cup {Entry(p, r)}
  <2> DEFINE w == Advanced(at, Len(NpmOrder))
  <2>1. JobTo(r, "npm", w, FALSE)
    BY <1>2, <1>6, JobChanges, Zenon
  <2>2. Holds(npmjs', NpmOrder[at], expectedTag(run[r].sha))
    <3>1. Entry(p, r).name = p /\ Entry(p, r).version = expectedTag(run[r].sha)
      BY Zenon DEF Entry
    <3>2. Entry(p, r) \in npmjs'
      BY Zenon, <1>6
    <3> QED BY <3>1, <3>2, Zenon DEF Holds
  <2>3. SourceInv' /\ Grows /\ (NpmJobInv(r)' => ReleaseInv')
    BY <1>5, <2>1, Zenon
  <2> QED BY <1>1, <2>1, <2>2, <2>3, NpmAdvances, Zenon
<1>7. CASE Refused(r, "npm", TRUE) \/ HitJob(r, "npm")
  <2>1. JobTo(r, "npm", [step |-> "failure", at |-> at], TRUE)
    BY <1>2, <1>7, JobChanges, Zenon
  <2>2. SourceInv' /\ Grows /\ (NpmJobInv(r)' => ReleaseInv')
    BY <1>5, <2>1, Zenon
  <2> QED BY <1>1, <2>1, <2>2, NpmChanges, Zenon
<1> QED BY <1>4, <1>6, <1>7, Zenon

\* cargo accepts a crate when the crates before it are out.
LEMMA AcceptedInOrder ==
    ASSUME NEW v, NEW n \in 1..Len(Crates), CratesOut(v, n - 1)
    PROVE  CargoAccepts(Crates[n], v)
<1>1. DependsOn[Crates[n]] \subseteq {Crates[k] : k \in 1..(n - 1)}
  BY OrdersTyped, PackageAssumption, Zenon
<1> QED BY Zenon, <1>1 DEF CargoAccepts, CratesOut

\* The job of the crates publishes one: it is refused only when another
\* run was faster.
LEMMA CratesPublishStep == ASSUME ReleaseInv, NEW r \in Runs, CratesPublish(r) PROVE ReleaseInv'
<1> DEFINE at == run[r].job["crates"].at  p == Crates[at]
<1>1. /\ run[r].step = "publish" /\ run[r].job["crates"].step = "publish" /\ Quiet
      /\ UNCHANGED <<tags, npmjs, ghcr, taggedBy>>
  BY Zenon DEF CratesPublish, JobAt
<1>2. /\ run \in [Runs -> RunRecords] /\ "crates" \in Jobs /\ CratesJobInv(r)
      /\ ghcr \in [Versions \cup Channels -> 0..Len(commits)]
  BY <1>1, Started, Zenon DEF Jobs, SourceInv
<1>3. ~run[r].local /\ at \in 1..Len(Crates) /\ CratesOut(expectedTag(run[r].sha), at - 1)
  BY <1>1, <1>2, Zenon DEF CratesJobInv
<1>4. \/ Advance(r, "crates", Crates) /\ cratesio' = cratesio \cup {Entry(p, r)}
      \/ Refused(r, "crates", TRUE) /\ UNCHANGED cratesio
      \/ HitJob(r, "crates") /\ cratesio' \in {cratesio, cratesio \cup {Entry(p, r)}}
  <2>1. CargoAccepts(p, expectedTag(run[r].sha))
    BY <1>3, AcceptedInOrder, Zenon
  <2>2. CASE Holds(cratesio, p, expectedTag(run[r].sha))
    BY <2>1, <2>2, Zenon DEF CratesPublish, Current, orderPublishableCrates
  <2>3. CASE ~Holds(cratesio, p, expectedTag(run[r].sha))
    BY <2>1, <2>3, Zenon DEF CratesPublish, Current, orderPublishableCrates
  <2> QED BY <2>2, <2>3, Zenon
<1>5. ASSUME NEW w, NEW mark, JobTo(r, "crates", w, mark)
      PROVE  /\ SourceInv' /\ Grows
             /\ CratesJobInv(r)' => ReleaseInv'
  <2>1. cratesio \subseteq cratesio' /\ \A e \in npmjs' \cup cratesio' : e \in npmjs \cup cratesio \/ e = Entry(p, r)
    BY <1>1, <1>4, Zenon
  <2>2. SourceInv' /\ Grows /\ TestInv'
    BY <1>1, <1>2, <1>5, <2>1, JobGrows, Zenon DEF JobTo
  <2>3. RegistryInv'
    BY <1>1, <1>3, <2>1, <2>2, EntrySound, Zenon
  <2> QED BY <1>1, <1>2, <1>5, <2>2, <2>3, JobStep, Zenon
<1>6. CASE Advance(r, "crates", Crates) /\ cratesio' = cratesio \cup {Entry(p, r)}
  <2> DEFINE w == Advanced(at, Len(Crates))
  <2>1. JobTo(r, "crates", w, FALSE)
    BY <1>2, <1>6, JobChanges, Zenon
  <2>2. Holds(cratesio', Crates[at], expectedTag(run[r].sha))
    <3>1. Entry(p, r).name = p /\ Entry(p, r).version = expectedTag(run[r].sha)
      BY Zenon DEF Entry
    <3>2. Entry(p, r) \in cratesio'
      BY Zenon, <1>6
    <3> QED BY <3>1, <3>2, Zenon DEF Holds
  <2>3. SourceInv' /\ Grows /\ (CratesJobInv(r)' => ReleaseInv')
    BY <1>5, <2>1, Zenon
  <2> QED BY <1>1, <2>1, <2>2, <2>3, CratesAdvances, Zenon
<1>7. CASE Refused(r, "crates", TRUE) \/ HitJob(r, "crates")
  <2>1. JobTo(r, "crates", [step |-> "failure", at |-> at], TRUE)
    BY <1>2, <1>7, JobChanges, Zenon
  <2>2. SourceInv' /\ Grows /\ (CratesJobInv(r)' => ReleaseInv')
    BY <1>5, <2>1, Zenon
  <2> QED BY <1>1, <2>1, <2>2, CratesChanges, Zenon
<1> QED BY <1>4, <1>6, <1>7, Zenon

\* While the history stands still, soundness is what it was.
LEMMA StillSound ==
    ASSUME commits' = commits, releaseHead' = releaseHead,
           \A e \in npmjs' \cup cratesio' : e.sha \in 1..Len(commits') /\ Sound(e.sha, e.version),
           \A v \in Versions : ghcr'[v] # NoCommit => Sound(ghcr'[v], v)
    PROVE  RegistryInv'
BY Zenon DEF RegistryInv, Sound

\* The image gets the version that the source has, and its channel.
LEMMA DockerPublishStep == ASSUME ReleaseInv, NEW r \in Runs, DockerPublish(r) PROVE ReleaseInv'
<1> DEFINE x == run[r]
<1>1. /\ x.step = "publish" /\ Quiet /\ UNCHANGED <<tags, npmjs, cratesio, taggedBy>>
  BY Zenon DEF DockerPublish, JobAt
<1>2. /\ run \in [Runs -> RunRecords] /\ "docker" \in Jobs /\ GateInv(r) /\ SourceInv
      /\ x.sha \in 1..Len(commits) /\ x.planned = x.sha
  BY Zenon, <1>1, Started DEF Jobs
<1>3. ghcr \in [Versions \cup Channels -> 0..Len(commits)]
  BY <1>2, Zenon DEF SourceInv
<1>4. CASE HitJob(r, "docker") /\ UNCHANGED ghcr
  <2>1. JobTo(r, "docker", [step |-> "failure", at |-> x.job["docker"].at], TRUE)
    BY <1>2, <1>4, JobChanges, Zenon
  <2>2. SourceInv' /\ Grows /\ TestInv' /\ RegistryInv'
    BY <1>1, <1>4, <2>1, SilentJob, ZenonT(60) DEF JobTo, registryVars
  <2>3. DockerJobInv(r)'
    BY <2>1, SMTT(30) DEF DockerJobInv, JobTo
  <2> QED BY <1>1, <1>2, <2>1, <2>2, <2>3, JobStep, Zenon
<1>5. CASE /\ SetJob(r, "docker", "success")
           /\ ghcr' = [t \in DOMAIN ghcr |->
                          IF ~x.local /\ t \in buildDockerPublishPlan(r) THEN x.sha ELSE ghcr[t]]
  <2>1. JobTo(r, "docker", [step |-> "success", at |-> x.job["docker"].at], FALSE)
    BY <1>2, <1>5, JobChanges, Zenon DEF JobSteps
  <2>2. PICK v \in Versions, c \in 1..Len(commits) :
           v = expectedTag(c) /\ c = x.sha /\ c \in 0..Len(commits) /\ c # NoCommit
    BY <1>2, HistoryTyped DEF NoCommit
  <2>3. ~x.local => buildDockerPublishPlan(r) = {v, channelTag(v)} /\ Sound(c, v)
    <3> SUFFICES ASSUME ~x.local
                 PROVE  buildDockerPublishPlan(r) = {v, channelTag(v)} /\ Sound(c, v)
      BY Zenon
    <3>1. /\ Sourced(c) /\ c <= releaseHead
          /\ x.ref # ReleaseBranch => x.ref.name = v
      BY <1>1, <1>2, <2>2, Zenon DEF GateInv
    <3>2. Sound(c, v)
      BY Zenon, <2>2, <3>1, SourcedIsSound
    <3>3. buildDockerPublishPlan(r) = {v, channelTag(v)}
      BY Zenon, <1>2, <2>2, <3>1 DEF buildDockerPublishPlan
    <3> QED BY Zenon, <3>2, <3>3
  <2>4. channelTag(v) \notin Versions
    BY PackageAssumption, Zenon DEF channelTag, Channels
  <2>5. /\ ghcr' \in [Versions \cup Channels -> 0..Len(commits)]
        /\ \A u \in Versions : ghcr'[u] = IF ~x.local /\ u = v THEN c ELSE ghcr[u]
    <3>1. \A u \in Versions \cup Channels :
             ghcr'[u] = IF ~x.local /\ u \in buildDockerPublishPlan(r) THEN c ELSE ghcr[u]
      BY Zenon, <1>3, <1>5, <2>2
    <3>2. \A u \in Versions : ~x.local => (u \in buildDockerPublishPlan(r) <=> u = v)
      BY Zenon, <2>3, <2>4
    <3>3. ghcr' \in [Versions \cup Channels -> 0..Len(commits)]
      BY Zenon, <1>3, <1>5, <2>2
    <3> QED BY Zenon, <3>1, <3>2, <3>3
  <2>6. SourceInv' /\ Grows /\ TestInv'
    <3>1. \A u \in Versions : ghcr[u] # NoCommit => ghcr'[u] # NoCommit
      BY Zenon, <2>2, <2>5
    <3> QED BY <1>1, <2>1, <2>5, <3>1, JobGrows, Zenon DEF JobTo
  <2>7. RegistryInv'
    <3>1. /\ RegistryInv /\ npmjs' = npmjs /\ cratesio' = cratesio
          /\ commits' = commits /\ releaseHead' = releaseHead
      BY <1>1, Zenon DEF ReleaseInv, Quiet, sourceVars
    <3>2. ASSUME NEW u \in Versions, ghcr'[u] # NoCommit
          PROVE  Sound(ghcr'[u], u)
      <4>1. CASE ~x.local /\ u = v
        BY <2>3, <2>5, <4>1, Zenon
      <4>2. CASE ~(~x.local /\ u = v)
        BY <2>5, <3>1, <3>2, <4>2, Zenon DEF RegistryInv
      <4> QED BY <4>1, <4>2, Zenon
    <3>3. \A e \in npmjs' \cup cratesio' : e.sha \in 1..Len(commits') /\ Sound(e.sha, e.version)
      BY <3>1, Zenon DEF RegistryInv
    <3> QED BY <3>1, <3>2, <3>3, StillSound, Zenon
  <2>8. DockerJobInv(r)'
    <3>1. /\ run'[r].job["docker"].step = "success" /\ run'[r].sha = c
          /\ run'[r].local = x.local /\ commits' = commits
      <4>1. run'[r].job["docker"].step = "success"
        BY <2>1 DEF JobTo
      <4> QED BY <1>1, <2>1, <2>2, <4>1, Zenon DEF JobTo, SameSource, Quiet, sourceVars
    <3>2. ~x.local => ghcr'[v] # NoCommit
      BY Zenon, <2>2, <2>5
    <3> QED BY <2>2, <3>1, <3>2, Zenon DEF DockerJobInv, expectedTag, NoCommit
  <2> QED BY <1>1, <1>2, <2>1, <2>6, <2>7, <2>8, JobStep, Zenon
<1> QED BY Zenon, <1>4, <1>5 DEF DockerPublish

----------------------------------------------------------------------------
(* The invariant is inductive, and implies what the pipeline promises.     *)

\* Every step of the pipeline keeps the invariant.
LEMMA NextReleaseInv ==
    ASSUME ShaFollowsRef, ReleaseInv, [ReleaseNext]_releaseVars
    PROVE  ReleaseInv'
<1>1. CASE UNCHANGED releaseVars
  <2>1. UNCHANGED <<sourceVars, tags, testRuns, verified, run, registryVars, taggedBy>>
    BY Zenon, <1>1 DEF releaseVars
  <2>2. SourceInv' /\ TestInv'
    BY <2>1, Zenon DEF ReleaseInv, SourceInv, TestInv, sourceVars, registryVars
  <2>3. Grows
    BY <2>1, HistoryTyped DEF ReleaseInv, Grows, sourceVars, registryVars
  <2> QED BY Zenon, <2>1, <2>2, <2>3, OutsideStep
<1>2. CASE SourceNext
  BY Zenon, <1>2, SourceStep
<1>3. CASE PushNext
  BY Zenon, <1>3, PushStep
<1>4. CASE TestsNext
  BY Zenon, <1>4, TestsStep
<1>5. CASE TagsNext
  BY Zenon, <1>5, TagStep
<1>6. ASSUME NEW r \in Runs, RunNext(r) PROVE ReleaseInv'
  BY Zenon, <1>6, ManualDispatchStep, PlanStep, ValidateStep, StartNpmStep, NpmQueryStep, NpmPublishStep,
     PackageCratesStep, CratesQueryStep, CratesPublishStep, DockerPublishStep, EnforceStep,
     EnsureTagStep, PushTagStep DEF RunNext
<1> QED BY Zenon, <1>1, <1>2, <1>3, <1>4, <1>5, <1>6 DEF ReleaseNext

\* The invariant says what the pipeline promises.
LEMMA ReleaseInvImplies == ReleaseInv => ReleasesAreTraceable
<1> SUFFICES ASSUME ReleaseInv PROVE ReleasesAreTraceable
  BY Zenon
<1>1. PublishedSourcesPassedTheGate
  BY ZenonT(60) DEF ReleaseInv, RegistryInv, PublishedSourcesPassedTheGate
<1>2. TagsMarkReleases
  <2> SUFFICES ASSUME NEW v \in Versions, taggedBy[v] \in Runs
               PROVE  LET r == run[taggedBy[v]]
                      IN  /\ tags[v] = r.sha /\ Sound(r.sha, v)
                          /\ "npm" \in r.select =>
                                \A p \in SeqSet(publishable(NodePackages)) : Holds(npmjs, p, v)
                          /\ "crates" \in r.select => \A p \in CrateSet : Holds(cratesio, p, v)
                          /\ "docker" \in r.select => ghcr[v] # NoCommit
    BY ZenonT(60) DEF TagsMarkReleases
  <2> DEFINE r == taggedBy[v]
  <2>1. tags[v] = run[r].sha /\ Sound(run[r].sha, v) /\ SelectedOut(r)
    BY Zenon DEF ReleaseInv, TaggedInv
  <2>2. expectedTag(run[r].sha) = v
    BY <2>1, Zenon DEF Sound, expectedTag
  <2>3. /\ "npm" \in run[r].select => NpmOut(v, Len(NpmOrder))
        /\ "crates" \in run[r].select => CratesOut(v, Len(Crates))
        /\ "docker" \in run[r].select => ghcr[v] # NoCommit
    BY Zenon, <2>1, <2>2 DEF SelectedOut
  <2>4. DOMAIN NpmOrder = 1..Len(NpmOrder) /\ DOMAIN Crates = 1..Len(Crates)
    <3>1. NpmOrder \in Seq(SeqSet(NodePackages))
      BY PackageAssumption, Zenon DEF NpmOrder
    <3>2. Crates \in Seq(CrateSet)
      BY PackageAssumption, Zenon
    <3> QED BY <3>1, <3>2
  <2>5. NpmOut(v, Len(NpmOrder)) => \A p \in SeqSet(publishable(NodePackages)) : Holds(npmjs, p, v)
    BY Zenon, <2>4 DEF NpmOut, SeqSet, NpmOrder
  <2>6. CratesOut(v, Len(Crates)) => \A p \in CrateSet : Holds(cratesio, p, v)
    BY <2>4, Zenon DEF CratesOut, SeqSet, CrateSet
  <2> QED BY <2>1, <2>3, <2>5, <2>6, Zenon
<1>3. \A r \in Runs : /\ run[r].auto => run[r].sha \in verified
                      /\ \A j \in Jobs : run[r].job[j].step = "failure" => run[r].hit \/ run[r].raced
  <2> TAKE r \in Runs
  <2>1. CASE run[r] = NoRun
    BY <2>1 DEF NoRun, Waiting
  <2>2. CASE GateInv(r) /\ NpmJobInv(r) /\ CratesJobInv(r) /\ DockerJobInv(r)
    BY <2>2, Zenon DEF GateInv, NpmJobInv, CratesJobInv, DockerJobInv, Jobs
  <2> QED BY Zenon, <2>1, <2>2 DEF ReleaseInv, RunInv
<1> QED BY Zenon, <1>1, <1>2, <1>3 DEF ReleasesAreTraceable, RetriesComplete, AutomaticReleasesWereTested

(* scripts/release-cli.ts and the two workflows: for any packages,         *)
(* versions, runs, faults and length of history, what is published comes   *)
(* from consistent commits of the release branch, a tag that a run pushed  *)
(* marks a complete release, a retry fails only for a reason of its own,   *)
(* and automatic releases are of tested commits - provided that a release  *)
(* dispatched by hand names the commit its ref points to.                  *)
THEOREM ReleasesTraceable == ASSUME ShaFollowsRef PROVE ReleaseSpec => []ReleasesAreTraceable
<1>1. ReleaseInv /\ [ReleaseNext]_releaseVars => ReleaseInv'
  BY Zenon, NextReleaseInv
<1> QED BY <1>1, InitReleaseInv, ReleaseInvImplies, PTL DEF ReleaseSpec
=============================================================================
