------------------------------- MODULE FixStage -------------------------------
(***************************************************************************)
(* The life of fix jobs: users who request fixes, the fix stage of the     *)
(* daemon's poll cycle (internal/daemon/fix.go), the runner it calls       *)
(* (cliFixRunner in internal/cli/root.go), the PR creators                 *)
(* (internal/pr/pr.go), the contributor sweep that owns the item rows the  *)
(* runner reads, and a daemon that may be killed between any two steps.    *)
(*                                                                         *)
(* Every run works on a branch of its own, so a branch, and the pull       *)
(* request made from it, are named by the job.                             *)
(***************************************************************************)
EXTENDS FixJobs

CONSTANTS
    ContribItems,   \* the items that are the user's PRs in repositories of others
    PRCreate,       \* the values fixes.pr_create takes
    ContribPush,    \* the values fixes.contrib_push takes
    Tools,          \* the PR creators found in PATH
    LostWrites,     \* a write may fail (SQLITE_BUSY: other processes write too)
    LateErrors,     \* a call may report an error after it took effect
    MaxCrashes      \* bound: how often the daemon is killed

ASSUME ContribAssumption == ContribItems \subseteq Items
ASSUME PRCreateAssumption == PRCreate \subseteq PRCreateModes
ASSUME ContribPushAssumption == ContribPush \subseteq {"auto", "no-mistakes", "disabled"}
ASSUME ToolsAssumption == Tools \subseteq {"gh", "no-mistakes"}
ASSUME FaultsAssumption == LostWrites \in BOOLEAN /\ LateErrors \in BOOLEAN
ASSUME MaxCrashesAssumption == MaxCrashes \in Nat

VARIABLES
    pc,         \* where the daemon is
    cur,        \* the job it works on; 0 for none
    route,      \* how the runner pushes: to a PR of its own or to the PR's head
    result,     \* what RunFix returned
    listed,     \* the waiting jobs still to look at, as listed
    didWork,    \* a waiting job was completed in this stage
    pr,         \* GitHub: what became of the job's branch
    pushed,     \* GitHub: the jobs whose commits were pushed to an existing PR's head
    known,      \* the items that have a row in the items table
    crashes     \* how often the daemon was killed

daemon == <<pc, cur, route, result, listed, didWork>>
github == <<pr, pushed>>
vars == <<rows, daemon, github, known, crashes>>

Results == {"none", "pr", "waiting", "manual", "completed"}

Pcs == {"down", "idle", "list", "detect", "complete", "claim", "record"} \cup RunPhases

TypeOK ==
    /\ RowsTypeOK
    /\ pc \in Pcs
    /\ cur \in JobId \cup {0}
    /\ route \in {"maintainer", "contributor"}
    /\ result \in Results
    /\ listed \in SUBSET JobId
    /\ didWork \in BOOLEAN
    /\ pr \in [JobId -> {"none", "pipeline", "open"}]
    /\ pushed \in SUBSET JobId
    /\ known \in SUBSET Items
    /\ crashes \in 0 .. MaxCrashes

Init ==
    /\ RowsInit
    /\ pc = "down" /\ cur = 0 /\ route = "maintainer" /\ result = "none"
    /\ listed = {} /\ didWork = FALSE
    /\ pr = [j \in JobId |-> "none"]
    /\ pushed = {}
    /\ known = Items
    /\ crashes = 0

-----------------------------------------------------------------------------
(***************************************************************************)
(* Users, the contributor sweep, time.                                     *)
(***************************************************************************)

\* A user asks for a fix, through the daemon or, when it is not running, in
\* the command's own process.  The recommendation and the item must exist.
RequestFix(i) ==
    /\ i \in known
    /\ \E j \in JobId, mode \in PRCreate : CreateFixJob(i, j, mode)
    /\ UNCHANGED <<daemon, github, known, crashes>>

\* The sweep precedes the fix stage in a cycle.  An item that the searches no
\* longer return (closed, or last updated too long ago) loses its row; fix_jobs
\* does not refer to items, so its jobs stay.
ContribSweepPrune(i) ==
    /\ pc = "idle"
    /\ i \in ContribItems \cap known
    /\ known' = known \ {i}
    /\ UNCHANGED <<rows, daemon, github, crashes>>

ContribSweepUpsert(i) ==
    /\ pc = "idle"
    /\ i \in ContribItems \ known
    /\ known' = known \cup {i}
    /\ UNCHANGED <<rows, daemon, github, crashes>>

TimePasses(j) ==
    /\ GoStale(j)
    /\ UNCHANGED <<daemon, github, known, crashes>>

-----------------------------------------------------------------------------
(***************************************************************************)
(* The fix stage up to the claim.                                          *)
(***************************************************************************)

Goto(p) == pc' = p /\ UNCHANGED <<cur, route, result, listed, didWork>>

MutReturn ==
    /\ pc' = "idle"
    /\ cur' = 0 /\ route' = "maintainer" /\ result' = "none"
    /\ listed' = {} /\ UNCHANGED didWork

\* Back to the end of the stage; what the stage held locally is gone.
Return ==
    /\ pc' = "idle"
    /\ cur' = 0 /\ route' = "maintainer" /\ result' = "none"
    /\ listed' = {} /\ didWork' = FALSE

Start ==
    /\ pc = "down"
    /\ Goto("idle")
    /\ UNCHANGED <<rows, github, known, crashes>>

ReclaimStale ==
    /\ pc = "idle"
    /\ ReclaimStaleRunningFixJobs
    /\ Goto("list")
    /\ UNCHANGED <<github, known, crashes>>

MutListWaiting ==
    /\ pc = "list"
    /\ pc' = "detect"
    /\ listed' = {j \in JobId : Waiting(j) /\ j \in manual}
    /\ UNCHANGED <<rows, cur, route, result, didWork, github, known, crashes>>

\* The list is read once.  A job for manual review is left alone.
ListWaiting ==
    /\ pc = "list"
    /\ pc' = "detect"
    /\ listed' = {j \in JobId : Waiting(j) /\ j \notin manual}
    /\ UNCHANGED <<rows, cur, route, result, didWork, github, known, crashes>>

\* gh reports a PR for the branch of the next job of the list.
DetectFound(j) ==
    /\ pc = "detect"
    /\ j \in Oldest(listed)
    /\ pr[j] = "open"
    /\ pc' = "complete"
    /\ cur' = j
    /\ UNCHANGED <<rows, route, result, listed, didWork, github, known, crashes>>

\* gh reports none, or fails: the job is looked at again in the next cycle.
DetectNothing(j) ==
    /\ pc = "detect"
    /\ j \in Oldest(listed)
    /\ listed' = listed \ {j}
    /\ UNCHANGED <<rows, pc, cur, route, result, didWork, github, known, crashes>>

\* The row is completed only if it is still waiting.
CompleteDetected ==
    /\ pc = "complete"
    /\ \/ /\ CompleteWaitingFixJobWithPR(cur)
          /\ didWork' = TRUE
       \/ /\ ~Waiting(cur)
          /\ UNCHANGED <<rows, didWork>>
    /\ pc' = "detect"
    /\ cur' = 0
    /\ listed' = listed \ {cur}
    /\ UNCHANGED <<route, result, github, known, crashes>>

\* A failed write ends the stage.
CompleteFails ==
    /\ LostWrites
    /\ pc = "complete"
    /\ Return
    /\ UNCHANGED <<rows, github, known, crashes>>

EndDetect ==
    /\ pc = "detect"
    /\ listed = {}
    /\ IF didWork THEN Return ELSE Goto("claim")
    /\ UNCHANGED <<rows, github, known, crashes>>

\* The runner looks the item up: no row means it is taken for the maintainer's.
LookupContribInfo(j) ==
    IF itemOf[j] \in known \cap ContribItems THEN "contributor" ELSE "maintainer"

Claim(j) ==
    /\ pc = "claim"
    /\ ClaimNextQueuedFixJob(j)
    /\ pc' = "preparing_worktree"
    /\ cur' = j
    /\ route' = LookupContribInfo(j)
    /\ UNCHANGED <<result, listed, didWork, github, known, crashes>>

ClaimNothing ==
    /\ pc = "claim"
    /\ Queued = {} \/ LostWrites
    /\ Return
    /\ UNCHANGED <<rows, github, known, crashes>>

-----------------------------------------------------------------------------
(***************************************************************************)
(* The run: RunFix and runContribFix.                                      *)
(***************************************************************************)

Running == pc \in RunPhases

NextPhase ==
    [p \in RunPhases \ {"pushing"} |->
        CASE p = "preparing_worktree" -> "running_agent"
          [] p = "running_agent" -> "committing"
          [] p = "committing" -> "pushing"]

\* The creators that resolving a mode may select: one, or none (an error).
Resolve(mode) ==
    CASE mode = "disabled" -> {"disabled"}
      [] mode = "gh" -> {"gh"} \cap Tools
      [] mode = "no-mistakes" -> IF "gh" \in Tools THEN {"no-mistakes"} \cap Tools ELSE {}
      [] mode = "auto" -> IF Tools = {"gh", "no-mistakes"} THEN {"no-mistakes"}
                                                           ELSE {"gh"} \cap Tools

\* What must hold for the worktree to be prepared and the agent started.
MayRunAgent ==
    \/ route = "maintainer" /\ Resolve(prCreate[cur]) # {}
    \/ route = "contributor" /\ ContribPush # {"disabled"}

\* A contributor's commits are pushed by the daemon in mode auto only.
MayPush == route = "maintainer" \/ "auto" \in ContribPush

MutProgressStatus == ""

\* A report without a status means that the job is still running.
ProgressStatus == "running"

\* Work done, the next phase is reported; the report's failure is ignored.
Advance ==
    /\ pc \in DOMAIN NextPhase
    /\ pc = "preparing_worktree" => MayRunAgent
    /\ pc = "committing" => MayPush
    /\ pc' = NextPhase[pc]
    /\ \/ UpdateFixJob(cur, ProgressStatus, NextPhase[pc], FALSE)
       \/ LostWrites /\ UNCHANGED rows
    /\ UNCHANGED <<cur, route, result, listed, didWork, github, known, crashes>>

Returns(r) ==
    /\ pc' = "record"
    /\ result' = r
    /\ UNCHANGED <<rows, cur, route, listed, didWork, known, crashes>>

\* A contributor's commits are left in the worktree in mode no-mistakes.
LeaveForReview ==
    /\ pc = "committing"
    /\ route = "contributor"
    /\ "no-mistakes" \in ContribPush
    /\ Returns("manual")
    /\ UNCHANGED github

PushToHead ==
    /\ pc = "pushing"
    /\ route = "contributor"
    /\ pushed' = pushed \cup {cur}
    /\ Returns("completed")
    /\ UNCHANGED pr

Creators == Resolve(prCreate[cur])

\* gh opens the PR: as the creator selected, or, in mode auto, after
\* no-mistakes failed.
OpenWithGH ==
    /\ pc = "pushing"
    /\ route = "maintainer"
    /\ \/ Creators = {"gh"}
       \/ prCreate[cur] = "auto" /\ Creators = {"no-mistakes"}
    /\ pr' = [pr EXCEPT ![cur] = "open"]
    /\ Returns("pr")
    /\ UNCHANGED pushed

MutOpenWithNoMistakes ==
    /\ pc = "pushing"
    /\ route = "maintainer"
    /\ Creators = {"no-mistakes"}
    /\ \E p \in {"pipeline", "open"} :
        /\ pr' = [pr EXCEPT ![cur] = p]
        /\ \/ p = "open" /\ Returns("pr")
           \/ Returns("completed")
    /\ UNCHANGED pushed

\* no-mistakes takes the branch and its pipeline opens the PR, some time.  One
\* look for the PR follows; a PR not seen by it is waited for.
OpenWithNoMistakes ==
    /\ pc = "pushing"
    /\ route = "maintainer"
    /\ Creators = {"no-mistakes"}
    /\ \E p \in {"pipeline", "open"} :
        /\ pr' = [pr EXCEPT ![cur] = p]
        /\ \/ p = "open" /\ Returns("pr")
           \/ Returns("waiting")
    /\ UNCHANGED pushed

OpenNothing ==
    /\ pc = "pushing"
    /\ route = "maintainer"
    /\ Creators = {"disabled"}
    /\ Returns("completed")
    /\ UNCHANGED github

\* What an erring push or PR creation may have done all the same.
LateEffect ==
    /\ LateErrors
    /\ pc = "pushing"
    /\ \/ /\ route = "contributor"
          /\ pushed' = pushed \cup {cur}
          /\ UNCHANGED pr
       \/ /\ route = "maintainer"
          /\ Creators # {"disabled"}
          /\ \E p \in {"pipeline", "open"} :
                /\ p = "pipeline" => Creators = {"no-mistakes"}
                /\ pr' = [pr EXCEPT ![cur] = p]
          /\ UNCHANGED pushed

\* Any step of the run may fail, the timeout included.  The job is failed; an
\* error of that write is ignored.
RunFails ==
    /\ Running
    /\ LateEffect \/ UNCHANGED github
    /\ \/ UpdateFixJob(cur, "failed", "failed", FALSE)
       \/ LostWrites /\ UNCHANGED rows
    /\ Return
    /\ UNCHANGED <<known, crashes>>

\* The row gets what the run came to.  When this write fails the row stays
\* mid-agent, for a later reclaim.
Record ==
    /\ pc = "record"
    /\ \/ result \in {"pr", "completed"} /\ UpdateFixJob(cur, "succeeded", "pr_opened", FALSE)
       \/ result = "waiting" /\ UpdateFixJob(cur, "running", "waiting_for_pr", FALSE)
       \/ result = "manual" /\ UpdateFixJob(cur, "running", "waiting_for_pr", TRUE)
       \/ LostWrites /\ UNCHANGED rows
    /\ Return
    /\ UNCHANGED <<github, known, crashes>>

-----------------------------------------------------------------------------
(***************************************************************************)
(* The no-mistakes pipeline, and the daemon's death.                       *)
(***************************************************************************)

PipelineOpensPR(j) ==
    /\ pr[j] = "pipeline"
    /\ pr' = [pr EXCEPT ![j] = "open"]
    /\ UNCHANGED <<rows, daemon, pushed, known, crashes>>

PipelineGivesUp(j) ==
    /\ pr[j] = "pipeline"
    /\ pr' = [pr EXCEPT ![j] = "none"]
    /\ UNCHANGED <<rows, daemon, pushed, known, crashes>>

\* SIGKILL, a power cut, or (while idle) an orderly stop.
Crash ==
    /\ pc # "down"
    /\ crashes < MaxCrashes
    /\ crashes' = crashes + 1
    /\ pc' = "down"
    /\ cur' = 0 /\ route' = "maintainer" /\ result' = "none"
    /\ listed' = {} /\ didWork' = FALSE
    /\ UNCHANGED <<rows, github, known>>

-----------------------------------------------------------------------------

StageStep ==
    \/ ReclaimStale \/ ListWaiting \/ CompleteDetected \/ CompleteFails
    \/ EndDetect \/ ClaimNothing
    \/ \E j \in JobId : DetectFound(j) \/ DetectNothing(j) \/ Claim(j)

RunStep ==
    \/ Advance \/ LeaveForReview \/ PushToHead \/ OpenWithGH
    \/ OpenWithNoMistakes \/ OpenNothing \/ RunFails \/ Record

DaemonStep == Start \/ StageStep \/ RunStep

EnvironmentStep ==
    \/ Crash
    \/ \E i \in Items : RequestFix(i) \/ ContribSweepPrune(i) \/ ContribSweepUpsert(i)
    \/ \E j \in JobId : TimePasses(j) \/ PipelineOpensPR(j) \/ PipelineGivesUp(j)

Next == DaemonStep \/ EnvironmentStep

Spec == Init /\ [][Next]_vars

\* The service manager restarts the daemon, which polls for ever; time passes;
\* gh and the database do not fail for ever.  Nothing is assumed of users, of
\* the pipeline or of crashes.
Fairness ==
    /\ WF_vars(DaemonStep)
    /\ SF_vars(CompleteDetected)
    /\ \A j \in JobId :
        WF_vars(TimePasses(j)) /\ SF_vars(DetectFound(j)) /\ SF_vars(Claim(j))

FairSpec == Spec /\ Fairness

=============================================================================
