--------------------------- MODULE FixStageProperties ---------------------------
(***************************************************************************)
(* What FixStage promises.                                                 *)
(***************************************************************************)
EXTENDS FixStage

\* An item never has two active fix jobs, however requests, the daemon's
\* unguarded updates, reclaims and crashes interleave: CreateFixJob supersedes
\* or refuses, and no late write revives a job that was given up.
OneActiveJobPerItem ==
    \A j, k \in JobId :
        /\ itemOf[j] = itemOf[k]
        /\ status[j] \in {"queued", "running"}
        /\ status[k] \in {"queued", "running"}
        => j = k

\* While the daemon is running an agent, or is about to record what the run came
\* to, the job's row is mid-agent: no request superseded it ("without abandoning
\* a live agent subprocess") and no reclaim failed it.
RunnerOwnsRow ==
    Running \/ pc = "record" => cur \in JobId /\ MidAgent(cur)

\* A job is not reported as succeeded unless its PR exists or its commits are on
\* the existing PR's head, or PR creation is switched off.
SucceededHasEffect ==
    \A j \in JobId :
        status[j] = "succeeded" => pr[j] = "open" \/ j \in pushed \/ prCreate[j] = "disabled"

\* Where no write is lost, no call errs after its effect and the daemon is not
\* killed, a failed job left no PR behind and no pipeline that will open one: an
\* undetected PR is waited for, and waiting jobs are never reclaimed.
FailedLeavesNoPR ==
    \A j \in JobId : status[j] = "failed" => pr[j] = "none" /\ j \notin pushed

\* A row seen as what its user waits for.
JobState(j) ==
    IF status[j] # "running" THEN status[j]
    ELSE IF phase[j] = "waiting_for_pr" THEN "waiting" ELSE "working"

Lifecycle == INSTANCE FixJobLifecycle
    WITH Job <- JobId, item <- itemOf, state <- [j \in JobId |-> JobState(j)]

\* The table, the stage and the runner keep the promises of FixJobLifecycle: a
\* job that has ended never changes again, a job past its agent's run only
\* succeeds or is superseded, and no job is run twice, however PR detection,
\* reclaims, late updates and new requests interleave.
ImplementsLifecycle == Lifecycle!Spec

\* Every queued job is claimed or superseded in the end.
QueuedJobLeavesQueue ==
    \A j \in JobId : status[j] = "queued" ~> status[j] # "queued"

\* A run never blocks its item for good: also when the daemon was killed or the
\* last write was lost, the job is reclaimed and new requests are accepted.
MidAgentEnds ==
    \A j \in JobId : MidAgent(j) ~> ~MidAgent(j)

\* A PR that the pipeline opens later is found and recorded, unless a newer
\* request superseded its job.
LatePRIsRecorded ==
    \A j \in JobId : Waiting(j) /\ j \notin manual /\ pr[j] = "open" ~> ~Waiting(j)

\* README.md: "Contributor fixes update the existing PR head branch instead of
\* creating a new PR."
ContributorFixOpensNoPR ==
    \A j \in JobId : itemOf[j] \in ContribItems => pr[j] = "none"

=============================================================================
