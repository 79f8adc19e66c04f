------------------------------- MODULE FixJobs -------------------------------
(***************************************************************************)
(* The fix_jobs table of the ezoss database (internal/db/fix_job.go): its  *)
(* rows, and one operator per SQL transaction or statement that changes    *)
(* them.  The database is shared by the daemon, by the IPC handlers that   *)
(* run inside it and by command-line processes, so each operator is one    *)
(* atomic step; the processes that take the steps are in FixStage.         *)
(*                                                                         *)
(* Rows are numbered in the order of their insertion.  created_at has a    *)
(* resolution of one second; rows of the same second are ordered here by   *)
(* insertion.  updated_at is compared only with now - timeout, so all that *)
(* is kept of it is whether it lies beyond that cutoff: the set stale.     *)
(***************************************************************************)
EXTENDS Naturals, FiniteSets

CONSTANTS
    Items,      \* the GitHub items that fixes are requested for
    NoItem,     \* the item of a row that does not exist yet
    MaxJobs     \* bound: how many fix jobs are ever created

ASSUME ItemsAssumption == NoItem \notin Items
ASSUME MaxJobsAssumption == MaxJobs \in Nat

VARIABLES
    itemOf,     \* item_id
    prCreate,   \* pr_create, copied from the configuration at creation
    status,     \* status
    phase,      \* phase
    manual,     \* the rows whose message is "waiting for manual review"
    stale       \* the rows with updated_at <= now - timeout

rows == <<itemOf, prCreate, status, phase, manual, stale>>

JobId == 1 .. MaxJobs

PRCreateModes == {"auto", "no-mistakes", "gh", "disabled"}

RunPhases == {"preparing_worktree", "running_agent", "committing", "pushing"}

Phases == {"none", "queued", "waiting_for_pr", "pr_opened", "failed"} \cup RunPhases

Terminal == {"succeeded", "failed", "cancelled"}

Statuses == {"none", "queued", "running"} \cup Terminal

RowsTypeOK ==
    /\ itemOf \in [JobId -> Items \cup {NoItem}]
    /\ prCreate \in [JobId -> PRCreateModes]
    /\ status \in [JobId -> Statuses]
    /\ phase \in [JobId -> Phases]
    /\ manual \in SUBSET JobId
    /\ stale \in SUBSET JobId

RowsInit ==
    /\ itemOf = [j \in JobId |-> NoItem]
    /\ prCreate = [j \in JobId |-> "auto"]
    /\ status = [j \in JobId |-> "none"]
    /\ phase = [j \in JobId |-> "none"]
    /\ manual = {}
    /\ stale = {}

-----------------------------------------------------------------------------

MutActive(i) == {j \in JobId : itemOf[j] = i /\ status[j] = "queued"}

\* The rows the active-job query of an item selects.
Active(i) == {j \in JobId : itemOf[j] = i /\ status[j] \in {"queued", "running"}}

\* ORDER BY created_at ASC LIMIT 1: at most one row.
Oldest(S) == {j \in S : \A k \in S : j <= k}

Waiting(j) == status[j] = "running" /\ phase[j] = "waiting_for_pr"

\* An agent may be at work on the row: claimed, and not yet past the run.
MidAgent(j) == status[j] = "running" /\ phase[j] # "waiting_for_pr"

MutCanSupersedeFixJob(j) == status[j] \in {"queued", "running"}

CanSupersedeFixJob(j) == status[j] = "queued" \/ Waiting(j)

\* One transaction: the oldest active job of the item is cancelled (its phase
\* stays) and the new row inserted; a mid-agent job rejects the request
\* (ErrFixJobInFlight), and the transaction leaves no trace.
CreateFixJob(i, j, mode) ==
    LET old == Oldest(Active(i)) IN
    /\ status[j] = "none"
    /\ \A k \in JobId : k < j => status[k] # "none"
    /\ \A k \in old : CanSupersedeFixJob(k)
    /\ itemOf' = [itemOf EXCEPT ![j] = i]
    /\ prCreate' = [prCreate EXCEPT ![j] = mode]
    /\ status' = [k \in JobId |-> CASE k = j -> "queued"
                                    [] k \in old -> "cancelled"
                                    [] OTHER -> status[k]]
    /\ phase' = [phase EXCEPT ![j] = "queued"]
    /\ manual' = manual \ old
    /\ stale' = stale \ old

Queued == {j \in JobId : status[j] = "queued"}

\* One transaction: the oldest queued row starts running.
ClaimNextQueuedFixJob(j) ==
    /\ j \in Oldest(Queued)
    /\ status' = [status EXCEPT ![j] = "running"]
    /\ phase' = [phase EXCEPT ![j] = "preparing_worktree"]
    /\ stale' = stale \ {j}
    /\ UNCHANGED <<itemOf, prCreate, manual>>

\* The update names its row by id alone: it looks at neither the status nor
\* the phase that the row has by then.
UpdateFixJob(j, newStatus, newPhase, isManual) ==
    /\ status' = [status EXCEPT ![j] = newStatus]
    /\ phase' = [phase EXCEPT ![j] = newPhase]
    /\ manual' = IF isManual THEN manual \cup {j} ELSE manual \ {j}
    /\ stale' = stale \ {j}
    /\ UNCHANGED <<itemOf, prCreate>>

MutReclaimable == {j \in stale : status[j] = "running"}

MutReclaimableWaiting == {j \in stale : Waiting(j)}

\* The rows a reclaim fails: mid-agent, and not written for a whole timeout.
Reclaimable == {j \in stale : MidAgent(j)}

ReclaimStaleRunningFixJobs ==
    /\ status' = [j \in JobId |-> IF j \in Reclaimable THEN "failed" ELSE status[j]]
    /\ phase' = [j \in JobId |-> IF j \in Reclaimable THEN "failed" ELSE phase[j]]
    /\ manual' = manual \ Reclaimable
    /\ stale' = stale \ Reclaimable
    /\ UNCHANGED <<itemOf, prCreate>>

MutCompleteWaitingFixJobWithPR(j) == UpdateFixJob(j, "succeeded", "pr_opened", FALSE)

\* The update is guarded: the row must still be waiting for its PR.
CompleteWaitingFixJobWithPR(j) ==
    /\ Waiting(j)
    /\ status' = [status EXCEPT ![j] = "succeeded"]
    /\ phase' = [phase EXCEPT ![j] = "pr_opened"]
    /\ manual' = manual \ {j}
    /\ stale' = stale \ {j}
    /\ UNCHANGED <<itemOf, prCreate>>

\* updated_at of a running row falls behind the cutoff.
GoStale(j) ==
    /\ status[j] = "running"
    /\ j \notin stale
    /\ stale' = stale \cup {j}
    /\ UNCHANGED <<itemOf, prCreate, status, phase, manual>>

=============================================================================
