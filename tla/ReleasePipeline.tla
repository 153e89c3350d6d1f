--------------------------- MODULE ReleasePipeline ---------------------------
(***************************************************************************)
(* scripts/release-cli.ts and scripts/lib: how a version of the workspace  *)
(* becomes packages on npm and crates.io, a container image and a git tag. *)
(*                                                                         *)
(* A maintainer sets the version in the working tree, commits and pushes.  *)
(* The Tests workflow runs on a push, or reuses an earlier success on the  *)
(* same commit, and dispatches the Release workflow for the release        *)
(* branch.  A release run plans, validates its source, publishes in up to  *)
(* three concurrent jobs, and at last creates the tag.  Runs overlap when  *)
(* their sources differ, any command can fail, and a run that failed is    *)
(* followed by another one.                                                *)
(*                                                                         *)
(* History is linear: a commit is its number, the release branch is at     *)
(* releaseHead, and main is at the last commit.                            *)
(***************************************************************************)
EXTENDS Naturals, Sequences, FiniteSets

CONSTANTS
    Versions,       \* release versions
    Stable,         \* those without a prerelease part
    NodePackages,   \* node packages, in the order of the metadata file
    Crates,         \* CRATE_DEPENDENCY_ORDER
    DependsOn,      \* [crate -> crates of the workspace it depends on]
    Private,        \* packages with publish = false
    FirstVersion,   \* version of the first commit
    Runs,           \* runs of the Release workflow
    Selections,     \* sets of publish jobs that a manual dispatch selects
    ShaFollowsRef,  \* manual dispatches name the commit their ref points to
    MaxCommits,     \* bound: commits
    MaxFaults       \* bound: commands and requests that fail

SeqSet(s) == {s[i] : i \in DOMAIN s}
Packages == SeqSet(NodePackages) \cup SeqSet(Crates)
CrateSet == SeqSet(Crates)
Jobs == {"npm", "crates", "docker"}
Channels == {"latest", "prerelease"}
NoCommit == 0
Commit == 1..MaxCommits

ASSUME ReleaseAssumption ==
    /\ Stable \subseteq Versions /\ FirstVersion \in Versions
    /\ DependsOn \in [CrateSet -> SUBSET CrateSet]
    /\ Private \subseteq SeqSet(NodePackages)
    /\ Selections \subseteq SUBSET Jobs
    /\ MaxCommits \in Nat \ {0} /\ MaxFaults \in Nat

VARIABLES
    tree,         \* versions in the maintainer's working tree
    commits,      \* sequence of committed trees
    releaseHead,  \* origin/release
    tags,         \* [Versions -> commit]: tags v* of origin
    testRuns,     \* runs of the Tests workflow
    verified,     \* commits on which the tests ran and passed
    run,          \* [Runs -> run of the Release workflow]
    npmjs,        \* what the npm registry holds
    cratesio,     \* what crates.io holds
    ghcr,         \* [image tag -> commit the image was built from]
    taggedBy,     \* [Versions -> run that pushed the tag]
    faults

sourceVars == <<tree, commits, releaseHead>>
registryVars == <<npmjs, cratesio, ghcr>>
releaseVars == <<sourceVars, tags, testRuns, verified, run, registryVars, taggedBy, faults>>

NoRef == [kind |-> "none"]
ReleaseBranch == [kind |-> "branch", name |-> "release"]
Main == [kind |-> "branch", name |-> "main"]
TagRef(v) == [kind |-> "tag", name |-> v]

Waiting == [step |-> "waiting", at |-> 1]
NoRun ==
    [step |-> "idle", ref |-> NoRef, planned |-> NoCommit, sha |-> NoCommit,
     group |-> NoRef, select |-> {}, local |-> FALSE, auto |-> FALSE,
     known |-> NoCommit, job |-> [j \in Jobs |-> Waiting], hit |-> FALSE, raced |-> FALSE]

TreeAt(v) ==
    [metadata |-> v, manifest |-> [p \in Packages |-> v], requires |-> [c \in CrateSet |-> v]]

\* Nothing of these commits has been tested or released yet.
ReleaseInitAt(history, head) ==
    /\ tree = history[Len(history)]
    /\ commits = history
    /\ releaseHead = head
    /\ tags = [v \in Versions |-> NoCommit]
    /\ testRuns = {}
    /\ verified = {}
    /\ run = [r \in Runs |-> NoRun]
    /\ npmjs = {} /\ cratesio = {}
    /\ ghcr = [t \in Versions \cup Channels |-> NoCommit]
    /\ taggedBy = [v \in Versions |-> "no one"]
    /\ faults = 0

ReleaseInit == ReleaseInitAt(<<TreeAt(FirstVersion)>>, 1)

Fault == faults < MaxFaults /\ faults' = faults + 1
NoFault == UNCHANGED faults

----------------------------------------------------------------------------
(* Versions in the source tree.                                            *)

VersionedPackages == NodePackages \o Crates
publishable(s) == SelectSeq(s, LAMBDA p : p \notin Private)

\* Something is published, crates come after the crates they depend on, and
\* no version is called like a channel.
ASSUME PackageAssumption ==
    /\ publishable(NodePackages) \in Seq(SeqSet(NodePackages)) \ {<<>>}
    /\ Crates \in Seq(CrateSet) \ {<<>>} /\ CrateSet \cap Private = {}
    /\ \A i \in DOMAIN Crates : DependsOn[Crates[i]] \subseteq {Crates[k] : k \in 1..(i - 1)}
    /\ Versions \cap Channels = {} /\ "no one" \notin Runs

\* Crates that require another version of a crate they depend on.
collectCargoDependencyVersionMismatches(t) ==
    {c \in CrateSet : DependsOn[c] # {} /\ t.requires[c] # t.metadata}

\* Mutant: the requirements of the crates are left out.
collectVersionMismatches_ManifestsOnly(t) ==
    {<<"manifest", p>> : p \in {p \in Packages : t.manifest[p] # t.metadata}}

\* Manifests and Cargo dependency requirements that differ from the metadata.
collectVersionMismatches(t) ==
    {<<"manifest", p>> : p \in {p \in Packages : t.manifest[p] # t.metadata}}
    \cup {<<"requirement", c>> : c \in collectCargoDependencyVersionMismatches(t)}

ensureVersionConsistency(c) == collectVersionMismatches(commits[c]) = {}

\* Version, and tag, that the tree of a commit releases.
expectedTag(c) == commits[c].metadata

writeManifestVersion(v, done) ==
    [p \in Packages |-> IF p \in done THEN v ELSE tree.manifest[p]]

writeCargoDependencyVersionRequirements(v, done) ==
    [c \in CrateSet |-> IF c \in done THEN v ELSE tree.requires[c]]

\* The tree once the first n packages have the version, and the manifest of
\* the next one too when half holds.
Written(v, n, half) ==
    LET done == {VersionedPackages[i] : i \in 1..n}
        next == IF half /\ n < Len(VersionedPackages) THEN {VersionedPackages[n + 1]} ELSE {}
    IN  [metadata |-> v,
         manifest |-> writeManifestVersion(v, done \cup next),
         requires |-> writeCargoDependencyVersionRequirements(v, done)]

\* The metadata file is written first, then one manifest after the other; a
\* manifest that cannot be rewritten ends the command there.
setWorkspaceVersion(v) ==
    /\ \/ tree' = Written(v, Len(VersionedPackages), FALSE) /\ NoFault
       \/ /\ Fault
          /\ \E n \in 0..Len(VersionedPackages) - 1, half \in BOOLEAN :
                tree' = Written(v, n, half)
    /\ UNCHANGED <<commits, releaseHead, tags, testRuns, verified, run, registryVars, taggedBy>>

CommitTree ==
    /\ Len(commits) < MaxCommits
    /\ commits' = Append(commits, tree)
    /\ UNCHANGED <<tree, releaseHead, tags, testRuns, verified, run, registryVars, taggedBy, faults>>

----------------------------------------------------------------------------
(* The Tests workflow.                                                     *)

TestRun(ref, c) == [ref |-> ref, sha |-> c, step |-> "preflight"]
Unfinished(t) == t.step \in {"preflight", "tests"}

\* A push starts a run of the tests and cancels the one in progress on its ref.
Push(ref, c) ==
    /\ IF ref = ReleaseBranch
       THEN releaseHead < c /\ releaseHead' = c
       ELSE UNCHANGED releaseHead
    /\ \A t \in testRuns : <<t.ref, t.sha>> # <<ref, c>>
    /\ testRuns' = {t \in testRuns : t.ref # ref \/ ~Unfinished(t)} \cup {TestRun(ref, c)}
    /\ UNCHANGED <<tree, commits, tags, verified, run, registryVars, taggedBy, faults>>

\* Mutant: the conclusion of the run that is found is not looked at.
findSuccessfulWorkflowRunForSha_AnyConclusion(t) ==
    \E other \in testRuns \ {t} : other.sha = t.sha /\ ~Unfinished(other)

\* Some other run of the workflow concluded with success on this commit.
findSuccessfulWorkflowRunForSha(t) ==
    \E other \in testRuns \ {t} :
       other.sha = t.sha /\ other.step \in {"success", "dispatched"}

Retest(t, step) == testRuns' = (testRuns \ {t}) \cup {[t EXCEPT !.step = step]}

\* A success on the same commit stands for running the tests again; when the
\* question to GitHub fails, so does the run.
runTestsPreflight(t) ==
    /\ t.step = "preflight"
    /\ \/ NoFault /\ Retest(t, IF findSuccessfulWorkflowRunForSha(t) THEN "success" ELSE "tests")
       \/ Fault /\ Retest(t, "failure")
    /\ UNCHANGED <<sourceVars, tags, verified, run, registryVars, taggedBy>>

TestsFinish(t) ==
    /\ t.step = "tests"
    /\ \/ NoFault /\ Retest(t, "success") /\ verified' = verified \cup {t.sha}
       \/ Fault /\ Retest(t, "failure") /\ UNCHANGED verified
    /\ UNCHANGED <<sourceVars, tags, run, registryVars, taggedBy>>

----------------------------------------------------------------------------
(* The Release workflow: dispatch, plan and validation of the source.      *)

Active(r) == run[r].step \notin {"idle", "done", "failed"}
RefTarget(ref) ==
    CASE ref = ReleaseBranch -> releaseHead
      [] ref = Main -> Len(commits)
      [] ref.kind = "tag" -> tags[ref.name]

\* Inputs of the workflow and the ref it is started on.  The plan checks out
\* the commit or the ref that was asked for; the source it reports takes a
\* missing commit from the ref the workflow was started on.
Start(r, source_ref, source_sha, on, select, local, auto) ==
    LET planned == IF source_sha # NoCommit THEN source_sha
                   ELSE IF source_ref # NoRef THEN RefTarget(source_ref) ELSE RefTarget(on)
        sha == IF source_sha # NoCommit THEN source_sha ELSE RefTarget(on)
        group == IF source_sha # NoCommit THEN [kind |-> "sha", name |-> source_sha]
                 ELSE IF source_ref # NoRef THEN source_ref ELSE on
    IN  /\ run[r].step = "idle"
        /\ \A q \in Runs : Active(q) => run[q].group # group
        /\ planned # NoCommit
        /\ run' = [run EXCEPT ![r] =
                      [NoRun EXCEPT !.step = "plan", !.planned = planned, !.sha = sha,
                                    !.ref = IF source_ref # NoRef THEN source_ref ELSE on,
                                    !.group = group, !.select = select, !.local = local,
                                    !.auto = auto]]
        /\ UNCHANGED <<sourceVars, tags, verified, registryVars, taggedBy, faults>>

\* A successful test run of the release branch dispatches everything.
DispatchRelease(t, r) ==
    /\ t.step = "success" /\ t.ref = ReleaseBranch
    /\ Start(r, ReleaseBranch, t.sha, ReleaseBranch, Jobs, FALSE, TRUE)
    /\ Retest(t, "dispatched")

SourceRefs == {NoRef, ReleaseBranch, Main} \cup {TagRef(v) : v \in Versions}

\* A maintainer starts the workflow, in the web page or locally with act.
ManualDispatch(r) ==
    /\ \E ref \in SourceRefs, sha \in 0..Len(commits), on \in {ReleaseBranch, Main},
          select \in Selections, local \in BOOLEAN :
          /\ ShaFollowsRef =>
                /\ on = ReleaseBranch
                /\ sha # NoCommit
                /\ ref.kind = "tag" => sha = tags[ref.name]
          /\ Start(r, ref, sha, on, select, local, FALSE)
    /\ UNCHANGED testRuns

Step(r, step) == run' = [run EXCEPT ![r].step = step]
Hit(r, step) == run' = [run EXCEPT ![r].step = step, ![r].hit = TRUE]
Quiet == UNCHANGED <<sourceVars, testRuns, verified>>

isPublishableReleaseSource(ref) == ref = ReleaseBranch \/ ref.kind = "tag"

\* The checkout brings the tags along.  A plan for a source that may not be
\* published ends the run without error.
runReleasePlan(r) ==
    /\ run[r].step = "plan"
    /\ run' = [run EXCEPT ![r].known = tags[expectedTag(run[r].planned)],
                          ![r].step = IF ~ensureVersionConsistency(run[r].planned) THEN "failed"
                                      ELSE IF isPublishableReleaseSource(run[r].ref)
                                           THEN "validate" ELSE "done"]
    /\ Quiet /\ UNCHANGED <<tags, registryVars, taggedBy, faults>>

isAncestor(c) == c <= releaseHead

inspectExpectedTag(target, c) ==
    IF target = NoCommit THEN "missing"
    ELSE IF target = c THEN "exists-same-sha" ELSE "exists-different-sha"

\* Mutant: the lineage of the source is not asked for.
validateReleaseBranchRef_AnyLineage(r, target) ==
    inspectExpectedTag(target, run[r].sha) # "exists-different-sha"

\* A local run leaves out the question whether the release branch holds it.
validateReleaseBranchRef(r, target) ==
    /\ run[r].local \/ isAncestor(run[r].sha)
    /\ inspectExpectedTag(target, run[r].sha) # "exists-different-sha"

validateTagRef(r) ==
    /\ run[r].ref.name = expectedTag(run[r].planned)
    /\ \/ run[r].local
       \/ tags[run[r].ref.name] # NoCommit /\ isAncestor(tags[run[r].ref.name])

Validated(r, ok) ==
    run' = [run EXCEPT ![r].step = IF ok THEN "publish" ELSE "failed", ![r].known = NoCommit]

\* An error, and a fetch of the branch that fails, ends the run before anything
\* is published.  A fetch of the tag that fails goes unnoticed, and leaves the
\* tag as the checkout found it.
validateReleaseRef(r) ==
    /\ run[r].step = "validate"
    /\ \/ /\ run[r].ref = ReleaseBranch
          /\ \/ NoFault /\ Validated(r, validateReleaseBranchRef(r, tags[expectedTag(run[r].planned)]))
             \/ ~run[r].local /\ Fault /\ Validated(r, validateReleaseBranchRef(r, run[r].known))
       \/ run[r].ref # ReleaseBranch /\ NoFault /\ Validated(r, validateTagRef(r))
       \/ ~run[r].local /\ Fault /\ Hit(r, "failed")
    /\ Quiet /\ UNCHANGED <<tags, registryVars, taggedBy>>

----------------------------------------------------------------------------
(* The publish jobs.  They check out the source the plan reported.         *)

Entry(p, r) == [name |-> p, version |-> expectedTag(run[r].sha), sha |-> run[r].sha]
Holds(registry, p, v) == \E e \in registry : e.name = p /\ e.version = v

isNpmVersionPublished(p, v) == Holds(npmjs, p, v)
isCrateVersionPublished(p, v) == Holds(cratesio, p, v)

\* Mutant: the crates in the order of the metadata file, here the other way round.
orderPublishableCrates_MetadataOrder ==
    [i \in DOMAIN Crates |-> Crates[Len(Crates) + 1 - i]]

\* CRATE_DEPENDENCY_ORDER; the command throws unless it names exactly the crates
\* that are published.
orderPublishableCrates == Crates

JobAt(r, j, step) == run[r].step = "publish" /\ j \in run[r].select /\ run[r].job[j].step = step
SetJob(r, j, step) == run' = [run EXCEPT ![r].job[j].step = step]
HitJob(r, j) == run' = [run EXCEPT ![r].job[j].step = "failure", ![r].hit = TRUE]
Refused(r, j, raced) == run' = [run EXCEPT ![r].job[j].step = "failure", ![r].raced = @ \/ raced]

\* On to the next package, or to the end of the job.
Advance(r, j, packages) ==
    run' = [run EXCEPT ![r].job[j] =
               IF @.at = Len(packages) THEN [step |-> "success", at |-> 1]
               ELSE [step |-> "query", at |-> @.at + 1]]

\* A local run goes through the packages with --dry-run.
StartNpm(r) ==
    /\ JobAt(r, "npm", "waiting")
    /\ SetJob(r, "npm", IF ~ensureVersionConsistency(run[r].sha) THEN "failure"
                        ELSE IF run[r].local THEN "success" ELSE "query")
    /\ Quiet /\ UNCHANGED <<tags, registryVars, taggedBy, faults>>

Current(r, j, packages) == packages[run[r].job[j].at]

NpmQuery(r) ==
    LET p == Current(r, "npm", publishable(NodePackages))
    IN  /\ JobAt(r, "npm", "query")
        /\ \/ NoFault /\ IF isNpmVersionPublished(p, expectedTag(run[r].sha))
                         THEN Advance(r, "npm", publishable(NodePackages))
                         ELSE SetJob(r, "npm", "publish")
           \/ Fault /\ HitJob(r, "npm")
        /\ Quiet /\ UNCHANGED <<tags, registryVars, taggedBy>>

\* pnpm pack and pnpm publish.  The registry takes a version once; a command
\* that fails may have published.
NpmPublish(r) ==
    LET p == Current(r, "npm", publishable(NodePackages))
        new == ~Holds(npmjs, p, expectedTag(run[r].sha))
    IN  /\ JobAt(r, "npm", "publish")
        /\ \/ /\ NoFault
              /\ IF new
                 THEN npmjs' = npmjs \cup {Entry(p, r)} /\ Advance(r, "npm", publishable(NodePackages))
                 ELSE UNCHANGED npmjs /\ Refused(r, "npm", TRUE)
           \/ /\ Fault /\ HitJob(r, "npm")
              /\ \/ UNCHANGED npmjs
                 \/ new /\ npmjs' = npmjs \cup {Entry(p, r)}
        /\ Quiet /\ UNCHANGED <<tags, cratesio, ghcr, taggedBy>>

\* The package gate, cargo package --workspace; a local run ends with it.
PackageCrates(r) ==
    /\ JobAt(r, "crates", "waiting")
    /\ \/ NoFault /\ SetJob(r, "crates", IF ~ensureVersionConsistency(run[r].sha) THEN "failure"
                                         ELSE IF run[r].local THEN "success" ELSE "query")
       \/ Fault /\ HitJob(r, "crates")
    /\ Quiet /\ UNCHANGED <<tags, registryVars, taggedBy>>

CratesQuery(r) ==
    LET p == Current(r, "crates", orderPublishableCrates)
    IN  /\ JobAt(r, "crates", "query")
        /\ \/ NoFault /\ IF isCrateVersionPublished(p, expectedTag(run[r].sha))
                         THEN Advance(r, "crates", orderPublishableCrates)
                         ELSE SetJob(r, "crates", "publish")
           \/ Fault /\ HitJob(r, "crates")
        /\ Quiet /\ UNCHANGED <<tags, registryVars, taggedBy>>

\* cargo publish builds the crate against the registry, so it refuses a crate
\* whose dependencies are not there in this version.
CargoAccepts(p, v) == \A d \in DependsOn[p] : Holds(cratesio, d, v)

CratesPublish(r) ==
    LET p == Current(r, "crates", orderPublishableCrates)
        v == expectedTag(run[r].sha)
        new == ~Holds(cratesio, p, v)
    IN  /\ JobAt(r, "crates", "publish")
        /\ \/ /\ NoFault
              /\ IF new /\ CargoAccepts(p, v)
                 THEN cratesio' = cratesio \cup {Entry(p, r)} /\ Advance(r, "crates", orderPublishableCrates)
                 ELSE UNCHANGED cratesio /\ Refused(r, "crates", ~new)
           \/ /\ Fault /\ HitJob(r, "crates")
              /\ \/ UNCHANGED cratesio
                 \/ new /\ CargoAccepts(p, v) /\ cratesio' = cratesio \cup {Entry(p, r)}
        /\ Quiet /\ UNCHANGED <<tags, npmjs, ghcr, taggedBy>>

channelTag(v) == IF v \in Stable THEN "latest" ELSE "prerelease"

\* The version's own tag and the moving tags of its channel, of which the
\* model keeps one.  A release branch is published under the tag its plan
\* expects.
buildDockerPublishPlan(r) ==
    LET v == IF run[r].ref = ReleaseBranch THEN expectedTag(run[r].planned) ELSE run[r].ref.name
    IN  {v, channelTag(v)}

DockerPublish(r) ==
    /\ JobAt(r, "docker", "waiting")
    /\ \/ /\ NoFault /\ SetJob(r, "docker", "success")
          /\ ghcr' = [t \in DOMAIN ghcr |->
                         IF ~run[r].local /\ t \in buildDockerPublishPlan(r) THEN run[r].sha ELSE ghcr[t]]
       \/ Fault /\ HitJob(r, "docker") /\ UNCHANGED ghcr
    /\ Quiet /\ UNCHANGED <<tags, npmjs, cratesio, taggedBy>>

----------------------------------------------------------------------------
(* The end of a run: the results are enforced, then the tag is created.    *)

\* Mutant: one successful job is enough.
EnforceResults_AnySuccess(r) ==
    /\ run[r].step = "publish"
    /\ \A j \in run[r].select : run[r].job[j].step \in {"success", "failure"}
    /\ Step(r, IF \A j \in run[r].select : run[r].job[j].step # "success" THEN "failed"
               ELSE IF ~run[r].local /\ run[r].ref = ReleaseBranch /\ run[r].select # {}
                    THEN "tag" ELSE "done")
    /\ Quiet /\ UNCHANGED <<tags, registryVars, taggedBy, faults>>

EnforceResults(r) ==
    /\ run[r].step = "publish"
    /\ \A j \in run[r].select : run[r].job[j].step \in {"success", "failure"}
    /\ Step(r, IF \E j \in run[r].select : run[r].job[j].step # "success" THEN "failed"
               ELSE IF ~run[r].local /\ run[r].ref = ReleaseBranch /\ run[r].select # {}
                    THEN "tag" ELSE "done")
    /\ Quiet /\ UNCHANGED <<tags, registryVars, taggedBy, faults>>

runEnsureReleaseTag(r) ==
    LET status == inspectExpectedTag(tags[expectedTag(run[r].sha)], run[r].sha)
    IN  /\ run[r].step = "tag"
        /\ Step(r, IF ~ensureVersionConsistency(run[r].sha) \/ status = "exists-different-sha"
                   THEN "failed"
                   ELSE IF status = "exists-same-sha" THEN "done" ELSE "push")
        /\ Quiet /\ UNCHANGED <<tags, registryVars, taggedBy, faults>>

\* git tag and git push: origin refuses to move a tag it has.
PushTag(r) ==
    LET v == expectedTag(run[r].sha)
    IN  /\ run[r].step = "push"
        /\ \/ /\ NoFault /\ tags[v] = NoCommit
              /\ tags' = [tags EXCEPT ![v] = run[r].sha]
              /\ taggedBy' = [taggedBy EXCEPT ![v] = r]
              /\ Step(r, "done")
           \/ /\ NoFault /\ tags[v] # NoCommit
              /\ Step(r, IF tags[v] = run[r].sha THEN "done" ELSE "failed")
              /\ UNCHANGED <<tags, taggedBy>>
           \/ Fault /\ Hit(r, "failed") /\ UNCHANGED <<tags, taggedBy>>
        /\ Quiet /\ UNCHANGED registryVars

\* A maintainer tags a commit by hand; the push starts the tests.
TagByHand(v, c) ==
    /\ tags[v] = NoCommit
    /\ tags' = [tags EXCEPT ![v] = c]
    /\ testRuns' = testRuns \cup {TestRun(TagRef(v), c)}
    /\ UNCHANGED <<sourceVars, verified, run, registryVars, taggedBy, faults>>

SourceNext == CommitTree \/ \E v \in Versions : setWorkspaceVersion(v)

PushNext == \E ref \in {ReleaseBranch, Main}, c \in 1..Len(commits) : Push(ref, c)

TestsNext ==
    \E t \in testRuns :
       runTestsPreflight(t) \/ TestsFinish(t) \/ \E r \in Runs : DispatchRelease(t, r)

TagsNext == \E v \in Versions, c \in 1..Len(commits) : TagByHand(v, c)

RunNext(r) ==
    \/ ManualDispatch(r) \/ runReleasePlan(r) \/ validateReleaseRef(r)
    \/ StartNpm(r) \/ NpmQuery(r) \/ NpmPublish(r)
    \/ PackageCrates(r) \/ CratesQuery(r) \/ CratesPublish(r)
    \/ DockerPublish(r)
    \/ EnforceResults(r) \/ runEnsureReleaseTag(r) \/ PushTag(r)

ReleaseNext ==
    SourceNext \/ PushNext \/ TestsNext \/ TagsNext \/ \E r \in Runs : RunNext(r)

ReleaseSpec == ReleaseInit /\ [][ReleaseNext]_releaseVars

----------------------------------------------------------------------------
(* What the pipeline promises.                                             *)

Sound(c, v) ==
    /\ commits[c].metadata = v
    /\ \A p \in Packages : commits[c].manifest[p] = v
    /\ \A p \in CrateSet : DependsOn[p] # {} => commits[c].requires[p] = v
    /\ c <= releaseHead

(* docs/en/008-RELEASE_AUTOMATION.md:117: whatever is published under a    *)
(* version comes from a commit that has this version everywhere and is on  *)
(* the release branch, over every interleaving of pushes, runs and faults. *)
PublishedSourcesPassedTheGate ==
    /\ \A e \in npmjs \cup cratesio : Sound(e.sha, e.version)
    /\ \A v \in Versions : ghcr[v] # NoCommit => Sound(ghcr[v], v)

(* A tag that a run pushed still is on the commit this run released, and   *)
(* everything the run was asked to publish is out in that version.         *)
TagsMarkReleases ==
    \A v \in Versions : taggedBy[v] \in Runs =>
       LET r == run[taggedBy[v]]
       IN  /\ tags[v] = r.sha /\ Sound(r.sha, v)
           /\ "npm" \in r.select =>
                 \A p \in SeqSet(publishable(NodePackages)) : Holds(npmjs, p, v)
           /\ "crates" \in r.select => \A p \in CrateSet : Holds(cratesio, p, v)
           /\ "docker" \in r.select => ghcr[v] # NoCommit

(* A job goes on where an earlier run stopped: it fails only when one of   *)
(* its own commands fails or another run publishes the same version under  *)
(* its hands, never because of what is there or of the order of packages.  *)
RetriesComplete ==
    \A r \in Runs : \A j \in Jobs :
       run[r].job[j].step = "failure" => run[r].hit \/ run[r].raced

(* Releases that the Tests workflow starts are of commits whose tests ran  *)
(* and passed, also when the run that starts them reused a result.         *)
AutomaticReleasesWereTested ==
    \A r \in Runs : run[r].auto => run[r].sha \in verified

(* The four promises of the release tooling together.                      *)
ReleasesAreTraceable ==
    /\ PublishedSourcesPassedTheGate
    /\ TagsMarkReleases
    /\ RetriesComplete
    /\ AutomaticReleasesWereTested
=============================================================================
