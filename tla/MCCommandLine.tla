--------------------------- MODULE MCCommandLine ---------------------------
(***************************************************************************)
(* The programs that are run from a command line on shared files, on small *)
(* instances: servers and the CLI on one credential file, and the release  *)
(* tooling.  A behaviour runs one of them, and the release tooling in one  *)
(* of three situations: a maintainer who edits versions while a run of     *)
(* what is pushed goes on, the tests of pushed commits, and two runs on    *)
(* commits of the same version.                                            *)
(***************************************************************************)
EXTENDS MCCredsManageStore, ReleasePipeline

CONSTANTS r1, r2

VARIABLE active     \* which of them this behaviour runs

MCNodePackages == <<"client", "webui">>
MCCrates == <<"utils", "creds">>
MCDependsOn == "utils" :> {} @@ "creds" :> {"utils"}
MCSelections == {{"npm", "crates"}, {"docker"}}

MCSymmetry == Permutations({r1, r2})

\* Two commits of the first version, the second one a fix of the first.
TwoCommits == <<TreeAt(FirstVersion), TreeAt(FirstVersion)>>

CommandInit ==
    /\ Init
    /\ active \in {"store", "edit", "tests", "runs"}
    /\ \/ active \in {"store", "edit"} /\ ReleaseInit
       \/ active = "tests" /\ ReleaseInitAt(TwoCommits, 1)
       \/ active = "runs" /\ ReleaseInitAt(TwoCommits, 2)

\* One run next to the edits, and no local ones where two runs meet.
RunsAreFew ==
    /\ active = "edit" => \E r \in Runs : \A q \in Runs \ {r} : run[q] = NoRun
    /\ active = "runs" => \A r \in Runs : ~run[r].local

CommandNext ==
    /\ UNCHANGED active
    /\ \/ active = "store" /\ Next /\ UNCHANGED releaseVars
       \/ active = "edit" /\ SourceNext /\ UNCHANGED vars
       \/ active \in {"edit", "tests"} /\ PushNext /\ UNCHANGED vars
       \/ active = "tests" /\ TestsNext /\ UNCHANGED vars
       \/ active \in {"tests", "runs"} /\ TagsNext /\ UNCHANGED vars
       \/ active \in {"edit", "runs"} /\ (\E r \in Runs : RunNext(r)) /\ RunsAreFew'
            /\ UNCHANGED vars

CommandSpec == CommandInit /\ [][CommandNext]_<<active, vars, releaseVars>>
=============================================================================
