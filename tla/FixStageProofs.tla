----------------------------- MODULE FixStageProofs -----------------------------
(***************************************************************************)
(* Proofs about FixStage for any number of items and jobs, any setting of  *)
(* the configuration and any combination of the modelled failures.         *)
(***************************************************************************)
EXTENDS FixStageProperties, TLAPS

-----------------------------------------------------------------------------
(***************************************************************************)
(* Types.                                                                  *)
(***************************************************************************)

\* A write of the table keeps its rows well typed.
LEMMA UpdateTyped ==
    ASSUME NEW j \in JobId, NEW s \in Statuses, NEW p \in Phases, NEW m \in BOOLEAN,
           RowsTypeOK, UpdateFixJob(j, s, p, m)
    PROVE  RowsTypeOK'
BY DEF RowsTypeOK, UpdateFixJob

\* A request.
LEMMA CreateTyped ==
    ASSUME NEW i \in Items, NEW j \in JobId, NEW m \in PRCreateModes,
           RowsTypeOK, CreateFixJob(i, j, m)
    PROVE  RowsTypeOK'
BY DEF RowsTypeOK, CreateFixJob, Statuses, Terminal, Phases

\* A reclaim.
LEMMA ReclaimTyped ==
    ASSUME RowsTypeOK, ReclaimStaleRunningFixJobs
    PROVE  RowsTypeOK'
BY DEF RowsTypeOK, ReclaimStaleRunningFixJobs, Statuses, Terminal, Phases

\* A claim.
LEMMA ClaimTyped ==
    ASSUME NEW j \in JobId, RowsTypeOK, ClaimNextQueuedFixJob(j)
    PROVE  RowsTypeOK'
BY DEF RowsTypeOK, ClaimNextQueuedFixJob, Statuses, Phases, RunPhases

\* The completion of a waiting job.
LEMMA CompleteTyped ==
    ASSUME NEW j \in JobId, RowsTypeOK, CompleteWaitingFixJobWithPR(j)
    PROVE  RowsTypeOK'
BY DEF RowsTypeOK, CompleteWaitingFixJobWithPR, Statuses, Terminal, Phases

\* A step that leaves the table alone.
LEMMA RowsUnchangedTyped ==
    ASSUME RowsTypeOK, UNCHANGED rows
    PROVE  RowsTypeOK'
BY DEF RowsTypeOK, rows

\* A step of the daemon only happens to a job it has in hand.
CurOK == pc \in RunPhases \cup {"complete", "record"} => cur \in JobId

Typed == TypeOK /\ CurOK

\* An empty table is well typed.
LEMMA TypedInit == Init => Typed
<1> SUFFICES ASSUME Init
             PROVE  Typed
  OBVIOUS
<1>1. RowsTypeOK
  BY DEF Init, RowsInit, RowsTypeOK, PRCreateModes, Statuses, Phases, Terminal
<1>2. crashes \in 0 .. MaxCrashes
  BY MaxCrashesAssumption DEF Init
<1>3. pr \in [JobId -> {"none", "pipeline", "open"}]
  BY DEF Init
<1>4. QED
  BY <1>1, <1>2, <1>3 DEF Init, Typed, TypeOK, CurOK, Pcs, RunPhases, Results

\* Every step keeps the types.
LEMMA TypedNext == Typed /\ [Next]_vars => Typed'
<1> SUFFICES ASSUME Typed, [Next]_vars
             PROVE  Typed'
  OBVIOUS
<1> USE DEF Typed, TypeOK, CurOK, Pcs, RunPhases, Results, daemon, github
<1>1. CASE Start
  BY <1>1, RowsUnchangedTyped DEF Start, Goto
<1>2. CASE StageStep
  <2>1. CASE ReclaimStale
    BY <2>1, ReclaimTyped DEF ReclaimStale, Goto
  <2>2. CASE ListWaiting
    BY <2>2, RowsUnchangedTyped DEF ListWaiting
  <2>3. CASE CompleteDetected
    <3>1. RowsTypeOK'
      BY <2>3, CompleteTyped, RowsUnchangedTyped DEF CompleteDetected
    <3>2. QED
      BY <2>3, <3>1 DEF CompleteDetected
  <2>4. CASE CompleteFails
    BY <2>4, RowsUnchangedTyped DEF CompleteFails, Return
  <2>5. CASE EndDetect
    BY <2>5, RowsUnchangedTyped DEF EndDetect, Return, Goto
  <2>6. CASE ClaimNothing
    BY <2>6, RowsUnchangedTyped DEF ClaimNothing, Return
  <2>7. ASSUME NEW j \in JobId, DetectFound(j)
        PROVE  Typed'
    BY <2>7, RowsUnchangedTyped DEF DetectFound
  <2>8. ASSUME NEW j \in JobId, DetectNothing(j)
        PROVE  Typed'
    BY <2>8, RowsUnchangedTyped DEF DetectNothing
  <2>9. ASSUME NEW j \in JobId, Claim(j)
        PROVE  Typed'
    BY <2>9, ClaimTyped DEF Claim, LookupContribInfo
  <2>10. QED
    BY <1>2, <2>1, <2>2, <2>3, <2>4, <2>5, <2>6, <2>7, <2>8, <2>9 DEF StageStep
<1>3. CASE RunStep
  <2>1. CASE Advance
    <3>1. pc \in {"preparing_worktree", "running_agent", "committing"}
      BY <2>1 DEF Advance, NextPhase
    <3>2. NextPhase[pc] \in RunPhases
      BY <3>1 DEF NextPhase
    <3>3. RowsTypeOK'
      BY <2>1, <3>1, <3>2, UpdateTyped, RowsUnchangedTyped
         DEF Advance, ProgressStatus, Statuses, Phases
    <3>4. QED
      BY <2>1, <3>1, <3>2, <3>3 DEF Advance
  <2>2. CASE LeaveForReview
    BY <2>2, RowsUnchangedTyped DEF LeaveForReview, Returns
  <2>3. CASE PushToHead
    BY <2>3, RowsUnchangedTyped DEF PushToHead, Returns
  <2>4. CASE OpenWithGH
    BY <2>4, RowsUnchangedTyped DEF OpenWithGH, Returns
  <2>5. CASE OpenWithNoMistakes
    BY <2>5, RowsUnchangedTyped DEF OpenWithNoMistakes, Returns
  <2>6. CASE OpenNothing
    BY <2>6, RowsUnchangedTyped DEF OpenNothing, Returns
  <2>7. CASE RunFails
    <3>1. RowsTypeOK'
      BY <2>7, UpdateTyped, RowsUnchangedTyped
         DEF RunFails, Running, Statuses, Terminal, Phases
    <3>2. pr' \in [JobId -> {"none", "pipeline", "open"}] /\ pushed' \in SUBSET JobId
      BY <2>7 DEF RunFails, LateEffect, Running
    <3>3. QED
      BY <2>7, <3>1, <3>2 DEF RunFails, Return
  <2>8. CASE Record
    <3>1. RowsTypeOK'
      BY <2>8, UpdateTyped, RowsUnchangedTyped DEF Record, Statuses, Terminal, Phases
    <3>2. QED
      BY <2>8, <3>1 DEF Record, Return
  <2>9. QED
    BY <1>3, <2>1, <2>2, <2>3, <2>4, <2>5, <2>6, <2>7, <2>8 DEF RunStep
<1>4. CASE EnvironmentStep
  <2>1. CASE Crash
    <3>1. crashes' \in 0 .. MaxCrashes
      BY <2>1, MaxCrashesAssumption DEF Crash
    <3>2. QED
      BY <2>1, <3>1, RowsUnchangedTyped DEF Crash
  <2>2. ASSUME NEW i \in Items, RequestFix(i)
        PROVE  Typed'
    <3>1. RowsTypeOK'
      BY <2>2, CreateTyped, PRCreateAssumption DEF RequestFix
    <3>2. QED
      BY <2>2, <3>1 DEF RequestFix
  <2>3. ASSUME NEW i \in Items, ContribSweepPrune(i) \/ ContribSweepUpsert(i)
        PROVE  Typed'
    BY <2>3, RowsUnchangedTyped DEF ContribSweepPrune, ContribSweepUpsert
  <2>4. ASSUME NEW j \in JobId, TimePasses(j)
        PROVE  Typed'
    BY <2>4 DEF TimePasses, GoStale, RowsTypeOK
  <2>5. ASSUME NEW j \in JobId, PipelineOpensPR(j) \/ PipelineGivesUp(j)
        PROVE  Typed'
    BY <2>5, RowsUnchangedTyped DEF PipelineOpensPR, PipelineGivesUp
  <2>6. QED
    BY <1>4, <2>1, <2>2, <2>3, <2>4, <2>5 DEF EnvironmentStep
<1>5. CASE UNCHANGED vars
  BY <1>5, RowsUnchangedTyped DEF vars
<1>6. QED
  BY <1>1, <1>2, <1>3, <1>4, <1>5 DEF Next, DaemonStep

\* Every reachable state is well typed.
THEOREM TypeCorrect == Spec => []TypeOK
<1>1. Typed => TypeOK
  BY DEF Typed
<1>2. QED
  BY <1>1, TypedInit, TypedNext, PTL DEF Spec

-----------------------------------------------------------------------------
(***************************************************************************)
(* One active job per item; the runner's row is mid-agent.  Neither is     *)
(* inductive alone: UpdateFixJob, which looks at nothing, would revive a   *)
(* job that ended, unless the row it is applied to is the runner's own and *)
(* still mid-agent; and a request would cancel the runner's row, unless    *)
(* the active job it finds first is the only one of its item.              *)
(***************************************************************************)

IInv == Typed /\ OneActiveJobPerItem /\ RunnerOwnsRow

\* With one active job at most, the oldest one is all there is.
LEMMA OldestIsActive ==
    ASSUME RowsTypeOK, OneActiveJobPerItem, NEW i \in Items, NEW k \in Active(i)
    PROVE  k \in Oldest(Active(i))
<1>1. \A l \in Active(i) : l = k
  BY ItemsAssumption DEF OneActiveJobPerItem, Active
<1>2. k \in Nat
  BY MaxJobsAssumption DEF Active, JobId
<1>3. QED
  BY <1>1, <1>2 DEF Oldest

\* A request leaves its item with the new job alone.
LEMMA CreateKeepsOne ==
    ASSUME RowsTypeOK, OneActiveJobPerItem,
           NEW i \in Items, NEW j \in JobId, NEW m \in PRCreateModes,
           CreateFixJob(i, j, m)
    PROVE  OneActiveJobPerItem'
<1> SUFFICES ASSUME NEW k \in JobId, NEW l \in JobId,
                    (itemOf[k] = itemOf[l])',
                    (status[k] \in {"queued", "running"})',
                    (status[l] \in {"queued", "running"})'
             PROVE  k = l
  BY DEF OneActiveJobPerItem
<1>1. ASSUME NEW n \in JobId, n # j, status'[n] \in {"queued", "running"}
      PROVE  /\ itemOf'[n] = itemOf[n] /\ status'[n] = status[n]
             /\ n \notin Active(i)
  <2>1. status'[n] = IF n \in Oldest(Active(i)) THEN "cancelled" ELSE status[n]
    BY <1>1 DEF CreateFixJob
  <2>2. n \notin Oldest(Active(i)) /\ status'[n] = status[n]
    BY <1>1, <2>1
  <2>3. itemOf'[n] = itemOf[n]
    BY <1>1 DEF CreateFixJob, RowsTypeOK
  <2>4. QED
    BY <2>2, <2>3, OldestIsActive
<1>2. itemOf'[j] = i
  BY DEF CreateFixJob, RowsTypeOK
<1>3. CASE k = j
  BY <1>1, <1>2, <1>3 DEF Active
<1>4. CASE l = j
  BY <1>1, <1>2, <1>4 DEF Active
<1>5. CASE k # j /\ l # j
  BY <1>1, <1>5 DEF OneActiveJobPerItem
<1>6. QED
  BY <1>3, <1>4, <1>5

\* A request does not touch a row that an agent is at work on.
LEMMA CreateSparesMidAgent ==
    ASSUME RowsTypeOK, NEW i \in Items, NEW j \in JobId, NEW m \in PRCreateModes,
           CreateFixJob(i, j, m), NEW k \in JobId, MidAgent(k)
    PROVE  MidAgent(k)'
<1>1. k # j
  BY DEF CreateFixJob, MidAgent
<1>2. k \notin Oldest(Active(i))
  BY DEF CreateFixJob, CanSupersedeFixJob, MidAgent, Waiting
<1>3. status'[k] = status[k] /\ phase'[k] = phase[k]
  BY <1>1, <1>2 DEF CreateFixJob, RowsTypeOK
<1>4. QED
  BY <1>3 DEF MidAgent

\* An update of a row that is active already makes no row active.
LEMMA UpdateKeepsOne ==
    ASSUME RowsTypeOK, OneActiveJobPerItem, NEW j \in JobId, MidAgent(j),
           NEW s, NEW p, NEW m, UpdateFixJob(j, s, p, m)
    PROVE  OneActiveJobPerItem'
BY DEF OneActiveJobPerItem, RowsTypeOK, UpdateFixJob, MidAgent

\* Steps under which no row becomes active keep OneActiveJobPerItem.
LEMMA FewerActive ==
    ASSUME OneActiveJobPerItem, UNCHANGED itemOf,
           \A j \in JobId : status'[j] \in {"queued", "running"}
                            => status[j] \in {"queued", "running"}
    PROVE  OneActiveJobPerItem'
BY DEF OneActiveJobPerItem

\* There is no job yet.
LEMMA IInvInit == Init => IInv
BY TypedInit DEF Init, RowsInit, IInv, OneActiveJobPerItem, RunnerOwnsRow, Running, RunPhases

\* Every step keeps one active job per item, and the row of the run.
LEMMA IInvNext == IInv /\ [Next]_vars => IInv'
<1> SUFFICES ASSUME IInv, [Next]_vars
             PROVE  OneActiveJobPerItem' /\ RunnerOwnsRow'
  BY TypedNext DEF IInv
<1>0. Typed' /\ RowsTypeOK /\ RowsTypeOK'
  BY TypedNext DEF IInv, Typed, TypeOK
<1>a. ASSUME UNCHANGED rows
      PROVE  OneActiveJobPerItem' /\ (\A j \in JobId : MidAgent(j) => MidAgent(j)')
  BY <1>a DEF IInv, OneActiveJobPerItem, MidAgent, rows
<1>b. ASSUME UNCHANGED rows, UNCHANGED <<pc, cur>>
      PROVE  OneActiveJobPerItem' /\ RunnerOwnsRow'
  BY <1>a, <1>b DEF IInv, RunnerOwnsRow, Running
<1>c. ASSUME UNCHANGED rows, pc' \notin RunPhases \cup {"record"}
      PROVE  OneActiveJobPerItem' /\ RunnerOwnsRow'
  BY <1>a, <1>c DEF RunnerOwnsRow, Running
<1>d. ASSUME UNCHANGED rows, Running, pc' = "record", UNCHANGED cur
      PROVE  OneActiveJobPerItem' /\ RunnerOwnsRow'
  BY <1>a, <1>d DEF RunnerOwnsRow, IInv
<1>1. CASE Start
  BY <1>1, <1>c DEF Start, Goto, RunPhases
<1>2. CASE StageStep
  <2>1. CASE ReclaimStale
    <3>1. OneActiveJobPerItem'
      BY <2>1, FewerActive DEF IInv, ReclaimStale, ReclaimStaleRunningFixJobs
    <3>2. QED
      BY <2>1, <3>1 DEF ReclaimStale, Goto, RunnerOwnsRow, Running, RunPhases
  <2>2. CASE ListWaiting
    BY <2>2, <1>c DEF ListWaiting, RunPhases
  <2>3. CASE CompleteDetected
    <3>1. pc' \notin RunPhases \cup {"record"} /\ cur \in JobId
      BY <2>3 DEF CompleteDetected, RunPhases, IInv, Typed, CurOK
    <3>2. CASE CompleteWaitingFixJobWithPR(cur)
      <4>1. OneActiveJobPerItem'
        BY <3>1, <3>2, <1>0, FewerActive
           DEF IInv, CompleteWaitingFixJobWithPR, RowsTypeOK
      <4>2. QED
        BY <3>1, <4>1 DEF RunnerOwnsRow, Running
    <3>3. CASE UNCHANGED rows
      BY <3>1, <3>3, <1>c
    <3>4. QED
      BY <2>3, <3>2, <3>3 DEF CompleteDetected
  <2>4. CASE CompleteFails
    BY <2>4, <1>c DEF CompleteFails, Return, RunPhases
  <2>5. CASE EndDetect
    BY <2>5, <1>c DEF EndDetect, Return, Goto, RunPhases
  <2>6. CASE ClaimNothing
    BY <2>6, <1>c DEF ClaimNothing, Return, RunPhases
  <2>7. ASSUME NEW j \in JobId, DetectFound(j)
        PROVE  OneActiveJobPerItem' /\ RunnerOwnsRow'
    BY <2>7, <1>c DEF DetectFound, RunPhases
  <2>8. ASSUME NEW j \in JobId, DetectNothing(j)
        PROVE  OneActiveJobPerItem' /\ RunnerOwnsRow'
    BY <2>8, <1>b DEF DetectNothing
  <2>9. ASSUME NEW j \in JobId, Claim(j)
        PROVE  OneActiveJobPerItem' /\ RunnerOwnsRow'
    <3>1. /\ status[j] = "queued"
          /\ status' = [status EXCEPT ![j] = "running"]
          /\ phase' = [phase EXCEPT ![j] = "preparing_worktree"]
          /\ UNCHANGED itemOf
      BY <2>9 DEF Claim, ClaimNextQueuedFixJob, Oldest, Queued
    <3>2. OneActiveJobPerItem'
      BY <3>1, <1>0, FewerActive DEF IInv, RowsTypeOK
    <3>3. MidAgent(j)'
      BY <3>1, <1>0 DEF MidAgent, RowsTypeOK
    <3>4. QED
      BY <2>9, <3>2, <3>3 DEF Claim, RunnerOwnsRow
  <2>10. QED
    BY <1>2, <2>1, <2>2, <2>3, <2>4, <2>5, <2>6, <2>7, <2>8, <2>9 DEF StageStep
<1>3. CASE RunStep
  <2>1. CASE Advance
    <3>1. Running /\ MidAgent(cur) /\ cur \in JobId
      BY <2>1 DEF Advance, NextPhase, IInv, RunnerOwnsRow, Running, RunPhases
    <3>2. NextPhase[pc] \in RunPhases /\ NextPhase[pc] # "waiting_for_pr"
      BY <2>1 DEF Advance, NextPhase, RunPhases
    <3>3. CASE UpdateFixJob(cur, ProgressStatus, NextPhase[pc], FALSE)
      <4>1. OneActiveJobPerItem'
        BY <3>1, <3>3, <1>0, UpdateKeepsOne DEF IInv
      <4>2. MidAgent(cur)'
        BY <2>1, <3>1, <3>2, <3>3, <1>0
           DEF UpdateFixJob, ProgressStatus, MidAgent, RowsTypeOK, Advance
      <4>3. QED
        BY <2>1, <3>1, <4>1, <4>2 DEF RunnerOwnsRow, Advance
    <3>4. CASE UNCHANGED rows
      BY <2>1, <3>1, <3>4, <1>a DEF RunnerOwnsRow, Advance, MidAgent
    <3>5. QED
      BY <2>1, <3>3, <3>4 DEF Advance
  <2>2. CASE LeaveForReview
    BY <2>2, <1>d DEF LeaveForReview, Returns, Running, RunPhases
  <2>3. CASE PushToHead
    BY <2>3, <1>d DEF PushToHead, Returns, Running, RunPhases
  <2>4. CASE OpenWithGH
    BY <2>4, <1>d DEF OpenWithGH, Returns, Running, RunPhases
  <2>5. CASE OpenWithNoMistakes
    BY <2>5, <1>d DEF OpenWithNoMistakes, Returns, Running, RunPhases
  <2>6. CASE OpenNothing
    BY <2>6, <1>d DEF OpenNothing, Returns, Running, RunPhases
  <2>7. CASE RunFails
    <3>1. pc' \notin RunPhases \cup {"record"} /\ MidAgent(cur) /\ cur \in JobId
      BY <2>7 DEF RunFails, Return, RunPhases, IInv, RunnerOwnsRow
    <3>2. OneActiveJobPerItem'
      BY <2>7, <3>1, <1>0, <1>a, UpdateKeepsOne DEF RunFails, IInv
    <3>3. QED
      BY <3>1, <3>2 DEF RunnerOwnsRow, Running
  <2>8. CASE Record
    <3>1. pc' \notin RunPhases \cup {"record"} /\ MidAgent(cur) /\ cur \in JobId
      BY <2>8 DEF Record, Return, RunPhases, IInv, RunnerOwnsRow
    <3>2. OneActiveJobPerItem'
      BY <2>8, <3>1, <1>0, <1>a, UpdateKeepsOne DEF Record, IInv
    <3>3. QED
      BY <3>1, <3>2 DEF RunnerOwnsRow, Running
  <2>9. QED
    BY <1>3, <2>1, <2>2, <2>3, <2>4, <2>5, <2>6, <2>7, <2>8 DEF RunStep
<1>4. CASE EnvironmentStep
  <2>1. CASE Crash
    BY <2>1, <1>c DEF Crash, RunPhases
  <2>2. ASSUME NEW i \in Items, RequestFix(i)
        PROVE  OneActiveJobPerItem' /\ RunnerOwnsRow'
    <3> PICK j \in JobId, m \in PRCreateModes : CreateFixJob(i, j, m)
      BY <2>2, PRCreateAssumption DEF RequestFix
    <3>1. OneActiveJobPerItem'
      BY <1>0, CreateKeepsOne DEF IInv
    <3>2. \A k \in JobId : MidAgent(k) => MidAgent(k)'
      BY <1>0, CreateSparesMidAgent
    <3>3. QED
      BY <2>2, <3>1, <3>2 DEF RequestFix, daemon, IInv, RunnerOwnsRow, Running
  <2>3. ASSUME NEW i \in Items, ContribSweepPrune(i) \/ ContribSweepUpsert(i)
        PROVE  OneActiveJobPerItem' /\ RunnerOwnsRow'
    BY <2>3, <1>b DEF ContribSweepPrune, ContribSweepUpsert, daemon
  <2>4. ASSUME NEW j \in JobId, TimePasses(j)
        PROVE  OneActiveJobPerItem' /\ RunnerOwnsRow'
    BY <2>4 DEF TimePasses, GoStale, daemon, IInv, OneActiveJobPerItem, RunnerOwnsRow,
                Running, MidAgent
  <2>5. ASSUME NEW j \in JobId, PipelineOpensPR(j) \/ PipelineGivesUp(j)
        PROVE  OneActiveJobPerItem' /\ RunnerOwnsRow'
    BY <2>5, <1>b DEF PipelineOpensPR, PipelineGivesUp, daemon
  <2>6. QED
    BY <1>4, <2>1, <2>2, <2>3, <2>4, <2>5 DEF EnvironmentStep
<1>5. CASE UNCHANGED vars
  BY <1>5, <1>b DEF vars, daemon
<1>6. QED
  BY <1>1, <1>2, <1>3, <1>4, <1>5 DEF Next, DaemonStep

\* However requests, runs, detections, reclaims, lost writes and crashes
\* interleave, an item never has two active fix jobs.
THEOREM OneActive == Spec => []OneActiveJobPerItem
<1>1. IInv => OneActiveJobPerItem
  BY DEF IInv
<1>2. QED
  BY <1>1, IInvInit, IInvNext, PTL DEF Spec

\* No request and no reclaim takes a job away from the run that is at work on it.
THEOREM RunnerKeepsRow == Spec => []RunnerOwnsRow
<1>1. IInv => RunnerOwnsRow
  BY DEF IInv
<1>2. QED
  BY <1>1, IInvInit, IInvNext, PTL DEF Spec

-----------------------------------------------------------------------------
(***************************************************************************)
(* A job that succeeded has an effect on GitHub.  The inductive invariant  *)
(* adds what the daemon carries from the step that had the effect to the   *)
(* step that records it.                                                   *)
(***************************************************************************)

CarriesEffect ==
    /\ pc = "record" /\ result = "pr" => pr[cur] = "open"
    /\ pc = "record" /\ result = "completed" => cur \in pushed \/ prCreate[cur] = "disabled"
    /\ pc = "complete" => pr[cur] = "open"

EInv == IInv /\ CarriesEffect /\ SucceededHasEffect

\* What is on GitHub for a job stays, but for a branch left to a pipeline.
Keeps(j) ==
    /\ pr[j] = "open" => pr'[j] = "open"
    /\ j \in pushed => j \in pushed'
    /\ prCreate[j] = "disabled" => prCreate'[j] = "disabled"

\* A step that keeps what there is for succeeded jobs, and lets no job succeed,
\* keeps SucceededHasEffect.
LEMMA NoneSucceeds ==
    ASSUME SucceededHasEffect,
           \A j \in JobId : status'[j] = "succeeded" => status[j] = "succeeded" /\ Keeps(j)
    PROVE  SucceededHasEffect'
BY DEF SucceededHasEffect, Keeps

\* Nothing has succeeded yet.
LEMMA EInvInit == Init => EInv
BY IInvInit DEF Init, RowsInit, EInv, CarriesEffect, SucceededHasEffect

\* Every step keeps what a success stands for.
LEMMA EInvNext == EInv /\ [Next]_vars => EInv'
<1> SUFFICES ASSUME EInv, [Next]_vars
             PROVE  CarriesEffect' /\ SucceededHasEffect'
  BY IInvNext DEF EInv
<1>0. /\ status \in [JobId -> Statuses] /\ prCreate \in [JobId -> PRCreateModes]
      /\ phase \in [JobId -> Phases] /\ itemOf \in [JobId -> Items \cup {NoItem}]
      /\ pr \in [JobId -> {"none", "pipeline", "open"}] /\ pushed \in SUBSET JobId
  BY DEF EInv, IInv, Typed, TypeOK, RowsTypeOK
<1>a. ASSUME UNCHANGED rows, UNCHANGED github
      PROVE  SucceededHasEffect'
  BY <1>a DEF EInv, SucceededHasEffect, rows, github
<1>b. ASSUME UNCHANGED rows, UNCHANGED github, pc' \notin {"record", "complete"}
      PROVE  CarriesEffect' /\ SucceededHasEffect'
  BY <1>a, <1>b DEF CarriesEffect
<1>1. CASE Start
  BY <1>1, <1>b DEF Start, Goto, github
<1>2. CASE StageStep
  <2>1. CASE ReclaimStale
    <3>1. SucceededHasEffect'
      BY <2>1, <1>0, NoneSucceeds
         DEF EInv, ReclaimStale, ReclaimStaleRunningFixJobs, Keeps, github
    <3>2. QED
      BY <2>1, <3>1 DEF ReclaimStale, Goto, CarriesEffect
  <2>2. CASE ListWaiting
    BY <2>2, <1>b DEF ListWaiting, github
  <2>3. CASE CompleteDetected
    <3>1. pr[cur] = "open" /\ pc' = "detect" /\ UNCHANGED github
      BY <2>3 DEF CompleteDetected, EInv, CarriesEffect
    <3>2. CASE CompleteWaitingFixJobWithPR(cur)
      <4>1. SucceededHasEffect'
        BY <3>1, <3>2, <1>0
           DEF EInv, SucceededHasEffect, CompleteWaitingFixJobWithPR, github
      <4>2. QED
        BY <3>1, <4>1 DEF CarriesEffect
    <3>3. CASE UNCHANGED rows
      BY <3>1, <3>3, <1>b
    <3>4. QED
      BY <2>3, <3>2, <3>3 DEF CompleteDetected
  <2>4. CASE CompleteFails
    BY <2>4, <1>b DEF CompleteFails, Return, github
  <2>5. CASE EndDetect
    BY <2>5, <1>b DEF EndDetect, Return, Goto, github
  <2>6. CASE ClaimNothing
    BY <2>6, <1>b DEF ClaimNothing, Return, github
  <2>7. ASSUME NEW j \in JobId, DetectFound(j)
        PROVE  CarriesEffect' /\ SucceededHasEffect'
    BY <2>7, <1>a DEF DetectFound, CarriesEffect, github
  <2>8. ASSUME NEW j \in JobId, DetectNothing(j)
        PROVE  CarriesEffect' /\ SucceededHasEffect'
    BY <2>8, <1>b DEF DetectNothing, github
  <2>9. ASSUME NEW j \in JobId, Claim(j)
        PROVE  CarriesEffect' /\ SucceededHasEffect'
    <3>1. SucceededHasEffect'
      BY <2>9, <1>0, NoneSucceeds DEF EInv, Claim, ClaimNextQueuedFixJob, Keeps, github
    <3>2. QED
      BY <2>9, <3>1 DEF Claim, CarriesEffect
  <2>10. QED
    BY <1>2, <2>1, <2>2, <2>3, <2>4, <2>5, <2>6, <2>7, <2>8, <2>9 DEF StageStep
<1>3. CASE RunStep
  <2>0. cur \in JobId /\ status[cur] = "running"
    <3>1. Running \/ pc = "record"
      BY <1>3 DEF RunStep, Advance, LeaveForReview, PushToHead, OpenWithGH, OpenWithNoMistakes,
             OpenNothing, RunFails, Record, Running, RunPhases, NextPhase
    <3>2. QED
      BY <3>1 DEF EInv, IInv, RunnerOwnsRow, MidAgent
  <2>1. CASE Advance
    <3>1. pc' \notin {"record", "complete"} /\ UNCHANGED github
      <4>1. pc \in {"preparing_worktree", "running_agent", "committing"}
        BY <2>1 DEF Advance, NextPhase, RunPhases
      <4>2. NextPhase[pc] \in RunPhases
        BY <4>1 DEF NextPhase, RunPhases
      <4>3. QED
        BY <2>1, <4>2 DEF Advance, RunPhases
    <3>2. CASE UpdateFixJob(cur, ProgressStatus, NextPhase[pc], FALSE)
      <4>1. SucceededHasEffect'
        BY <2>0, <3>1, <3>2, <1>0, NoneSucceeds
           DEF EInv, UpdateFixJob, ProgressStatus, Keeps, github
      <4>2. QED
        BY <3>1, <4>1 DEF CarriesEffect
    <3>3. QED
      BY <2>1, <3>1, <3>2, <1>b DEF Advance
  <2>2. CASE LeaveForReview
    BY <2>2, <1>a DEF LeaveForReview, Returns, CarriesEffect, github
  <2>3. CASE PushToHead
    BY <2>3, <2>0, <1>0
       DEF EInv, PushToHead, Returns, CarriesEffect, SucceededHasEffect, rows
  <2>4. CASE OpenWithGH
    BY <2>4, <2>0, <1>0
       DEF EInv, OpenWithGH, Returns, CarriesEffect, SucceededHasEffect, rows
  <2>5. CASE OpenWithNoMistakes
    BY <2>5, <2>0, <1>0
       DEF EInv, OpenWithNoMistakes, Returns, CarriesEffect, SucceededHasEffect, rows
  <2>6. CASE OpenNothing
    <3>1. prCreate[cur] = "disabled"
      BY <2>6, <2>0, <1>0 DEF OpenNothing, Creators, Resolve, PRCreateModes
    <3>2. QED
      BY <2>6, <3>1, <1>a DEF OpenNothing, Returns, CarriesEffect, github, rows
  <2>7. CASE RunFails
    <3>1. pc' \notin {"record", "complete"}
      BY <2>7 DEF RunFails, Return
    <3>2. \A j \in JobId : status'[j] = "succeeded" => status[j] = "succeeded" /\ j # cur
      BY <2>7, <2>0, <1>0 DEF RunFails, UpdateFixJob, rows
    <3>3. \A j \in JobId : j # cur => Keeps(j)
      BY <2>7, <1>0 DEF RunFails, LateEffect, Keeps, UpdateFixJob, rows, github
    <3>4. QED
      BY <3>1, <3>2, <3>3, NoneSucceeds DEF EInv, CarriesEffect
  <2>8. CASE Record
    <3>1. pc' \notin {"record", "complete"} /\ UNCHANGED github
      BY <2>8 DEF Record, Return
    <3>2. CASE UNCHANGED rows
      BY <3>1, <3>2, <1>b
    <3>3. CASE result \in {"pr", "completed"} /\ UpdateFixJob(cur, "succeeded", "pr_opened", FALSE)
      <4>1. pr[cur] = "open" \/ cur \in pushed \/ prCreate[cur] = "disabled"
        BY <2>8, <3>3 DEF EInv, CarriesEffect, Record
      <4>2. SucceededHasEffect'
        BY <3>1, <3>3, <4>1, <1>0 DEF EInv, SucceededHasEffect, UpdateFixJob, github
      <4>3. QED
        BY <3>1, <4>2 DEF CarriesEffect
    <3>4. ASSUME NEW m \in BOOLEAN, UpdateFixJob(cur, "running", "waiting_for_pr", m)
          PROVE  CarriesEffect' /\ SucceededHasEffect'
      <4>1. SucceededHasEffect'
        BY <3>1, <3>4, <1>0 DEF EInv, SucceededHasEffect, UpdateFixJob, github
      <4>2. QED
        BY <3>1, <4>1 DEF CarriesEffect
    <3>5. QED
      BY <2>8, <3>2, <3>3, <3>4 DEF Record
  <2>9. QED
    BY <1>3, <2>1, <2>2, <2>3, <2>4, <2>5, <2>6, <2>7, <2>8 DEF RunStep
<1>4. CASE EnvironmentStep
  <2>1. CASE Crash
    BY <2>1, <1>b DEF Crash, github
  <2>2. ASSUME NEW i \in Items, RequestFix(i)
        PROVE  CarriesEffect' /\ SucceededHasEffect'
    <3> PICK j \in JobId, m \in PRCreateModes : CreateFixJob(i, j, m)
      BY <2>2, PRCreateAssumption DEF RequestFix
    <3>1. status[j] = "none" /\ prCreate' = [prCreate EXCEPT ![j] = m]
      BY DEF CreateFixJob
    <3>2. \A k \in JobId : status'[k] = "succeeded" => status[k] = "succeeded" /\ k # j
      BY DEF CreateFixJob
    <3>3. SucceededHasEffect'
      BY <2>2, <3>1, <3>2, <1>0, NoneSucceeds DEF EInv, RequestFix, Keeps, github
    <3>4. pc = "record" => cur \in JobId /\ cur # j
      BY <3>1 DEF EInv, IInv, RunnerOwnsRow, MidAgent
    <3>5. QED
      BY <2>2, <3>1, <3>3, <3>4, <1>0 DEF EInv, RequestFix, CarriesEffect, daemon, github
  <2>3. ASSUME NEW i \in Items, ContribSweepPrune(i) \/ ContribSweepUpsert(i)
        PROVE  CarriesEffect' /\ SucceededHasEffect'
    BY <2>3, <1>a DEF EInv, ContribSweepPrune, ContribSweepUpsert, CarriesEffect, rows, daemon, github
  <2>4. ASSUME NEW j \in JobId, TimePasses(j)
        PROVE  CarriesEffect' /\ SucceededHasEffect'
    BY <2>4 DEF EInv, TimePasses, GoStale, CarriesEffect, SucceededHasEffect, daemon, github
  <2>5. ASSUME NEW j \in JobId, PipelineOpensPR(j) \/ PipelineGivesUp(j)
        PROVE  CarriesEffect' /\ SucceededHasEffect'
    <3>1. cur \in JobId \/ pc \notin {"record", "complete"}
      BY DEF EInv, IInv, Typed, CurOK
    <3>2. QED
      BY <2>5, <3>1, <1>0
         DEF EInv, PipelineOpensPR, PipelineGivesUp, CarriesEffect, SucceededHasEffect, rows, daemon
  <2>6. QED
    BY <1>4, <2>1, <2>2, <2>3, <2>4, <2>5 DEF EnvironmentStep
<1>5. CASE UNCHANGED vars
  BY <1>5, <1>a DEF EInv, vars, CarriesEffect, rows, daemon, github
<1>6. QED
  BY <1>1, <1>2, <1>3, <1>4, <1>5 DEF Next, DaemonStep

\* A succeeded job has an open PR or pushed commits, unless PR creation is off.
THEOREM SuccessIsReal == Spec => []SucceededHasEffect
<1>1. EInv => SucceededHasEffect
  BY DEF EInv
<1>2. QED
  BY <1>1, EInvInit, EInvNext, PTL DEF Spec

-----------------------------------------------------------------------------
(***************************************************************************)
(* The implementation of FixJobLifecycle.                                  *)
(***************************************************************************)

\* The states the rows map to.
Mapped == [j \in JobId |-> JobState(j)]

\* An update moves one job of the abstraction.
LEMMA UpdateMoves ==
    ASSUME RowsTypeOK, NEW j \in JobId, NEW s \in Statuses, NEW p \in Phases, NEW m,
           UpdateFixJob(j, s, p, m)
    PROVE  /\ UNCHANGED itemOf
           /\ Mapped' = [Mapped EXCEPT ![j] =
                            IF s # "running" THEN s
                            ELSE IF p = "waiting_for_pr" THEN "waiting" ELSE "working"]
BY DEF RowsTypeOK, UpdateFixJob, Mapped, JobState

\* A step that leaves the table alone is none of the abstraction.
LEMMA RowsUnchangedStutters ==
    ASSUME UNCHANGED rows
    PROVE  UNCHANGED Lifecycle!vars
BY DEF rows, Lifecycle!vars, JobState

\* A request supersedes every open job of its item: OneActiveJobPerItem makes
\* of the oldest one, which is all CreateFixJob looks at, the only one.
LEMMA CreateSubmits ==
    ASSUME RowsTypeOK, OneActiveJobPerItem,
           NEW i \in Items, NEW j \in JobId, NEW m \in PRCreateModes,
           CreateFixJob(i, j, m)
    PROVE  Lifecycle!Submit(i, j)
<1>1. Lifecycle!Open(i) = Active(i)
  BY DEF Lifecycle!Open, Active, JobState, RowsTypeOK, Statuses, Terminal
<1>2. Oldest(Active(i)) = Active(i)
  BY OldestIsActive DEF Oldest
<1>3. \A k \in Active(i) : Mapped[k] # "working"
  BY <1>2 DEF CreateFixJob, CanSupersedeFixJob, Waiting, Mapped, JobState, Active
<1>4. Mapped[j] = "none"
  BY DEF CreateFixJob, Mapped, JobState
<1>5. itemOf' = [itemOf EXCEPT ![j] = i]
  BY DEF CreateFixJob
<1>6. ASSUME NEW k \in JobId
      PROVE  Mapped'[k] = CASE k = j -> "queued"
                            [] k \in Active(i) -> "cancelled"
                            [] OTHER -> Mapped[k]
  <2>1. CASE k = j
    <3>1. j \notin Active(i)
      BY DEF CreateFixJob, Active
    <3>2. status'[j] = "queued"
      BY <1>2, <3>1 DEF CreateFixJob
    <3>3. QED
      BY <2>1, <3>1, <3>2 DEF Mapped, JobState
  <2>2. CASE k # j /\ k \in Active(i)
    BY <1>2, <2>2 DEF CreateFixJob, Mapped, JobState
  <2>3. CASE k # j /\ k \notin Active(i)
    <3>1. status'[k] = status[k] /\ phase'[k] = phase[k]
      BY <1>2, <2>3 DEF CreateFixJob, RowsTypeOK
    <3>2. QED
      BY <2>3, <3>1 DEF Mapped, JobState
  <2>4. QED
    BY <2>1, <2>2, <2>3
<1>7. QED
  BY <1>1, <1>3, <1>4, <1>5, <1>6 DEF Lifecycle!Submit, Mapped

\* Every step is one of the abstraction, or none.
LEMMA StepImplements ==
    ASSUME IInv, [Next]_vars
    PROVE  [Lifecycle!Next]_(Lifecycle!vars)
<1>0. RowsTypeOK /\ OneActiveJobPerItem
  BY DEF IInv, Typed, TypeOK
<1>1. CASE UNCHANGED rows
  BY <1>1, RowsUnchangedStutters
<1>2. ASSUME NEW j \in JobId, NEW s \in Statuses, NEW p \in Phases, NEW m,
             MidAgent(j), UpdateFixJob(j, s, p, m),
             s \in {"succeeded", "failed", "running"}
      PROVE  [Lifecycle!Next]_(Lifecycle!vars)
  <2>1. Mapped[j] = "working"
    BY <1>2 DEF MidAgent, Mapped, JobState
  <2>2. UNCHANGED itemOf
    BY <1>0, <1>2, UpdateMoves
  <2>3. CASE s = "succeeded"
    <3>1. Mapped' = [Mapped EXCEPT ![j] = "succeeded"]
      BY <1>0, <1>2, <2>3, UpdateMoves
    <3>2. QED
      BY <2>1, <2>2, <3>1 DEF Lifecycle!Next, Lifecycle!Succeed, Lifecycle!Move, Mapped
  <2>4. CASE s = "failed"
    <3>1. Mapped' = [Mapped EXCEPT ![j] = "failed"]
      BY <1>0, <1>2, <2>4, UpdateMoves
    <3>2. QED
      BY <2>1, <2>2, <3>1 DEF Lifecycle!Next, Lifecycle!Fail, Lifecycle!Move, Mapped
  <2>5. CASE s = "running" /\ p = "waiting_for_pr"
    <3>1. Mapped' = [Mapped EXCEPT ![j] = "waiting"]
      BY <1>0, <1>2, <2>5, UpdateMoves
    <3>2. QED
      BY <2>1, <2>2, <3>1 DEF Lifecycle!Next, Lifecycle!Await, Lifecycle!Move, Mapped
  <2>6. CASE s = "running" /\ p # "waiting_for_pr"
    <3>1. Mapped' = [Mapped EXCEPT ![j] = "working"]
      BY <1>0, <1>2, <2>6, UpdateMoves
    <3>2. Mapped' = Mapped
      BY <2>1, <3>1 DEF Mapped
    <3>3. QED
      BY <2>2, <3>2 DEF Lifecycle!vars, Mapped
  <2>7. QED
    BY <1>2, <2>3, <2>4, <2>5, <2>6
<1>3. CASE ReclaimStale
  <2>1. \A j \in Reclaimable : Mapped[j] = "working"
    BY <1>0 DEF Reclaimable, MidAgent, Mapped, JobState, RowsTypeOK
  <2>2. Mapped' = [j \in JobId |-> IF j \in Reclaimable THEN "failed" ELSE Mapped[j]]
    BY <1>0, <1>3
       DEF ReclaimStale, ReclaimStaleRunningFixJobs, Mapped, JobState, RowsTypeOK
  <2>3. UNCHANGED itemOf /\ Reclaimable \in SUBSET JobId
    BY <1>0, <1>3 DEF ReclaimStale, ReclaimStaleRunningFixJobs, Reclaimable, RowsTypeOK
  <2>4. Lifecycle!GiveUp(Reclaimable)
    BY <2>1, <2>2, <2>3 DEF Lifecycle!GiveUp, Mapped
  <2>5. QED
    BY <2>3, <2>4 DEF Lifecycle!Next
<1>4. CASE CompleteDetected
  <2>1. CASE UNCHANGED rows
    BY <2>1, <1>1
  <2>2. CASE CompleteWaitingFixJobWithPR(cur)
    <3>1. cur \in JobId
      BY <1>4 DEF CompleteDetected, IInv, Typed, CurOK
    <3>2. Mapped[cur] = "waiting"
      BY <2>2, <3>1 DEF CompleteWaitingFixJobWithPR, Waiting, Mapped, JobState
    <3>3. Mapped' = [Mapped EXCEPT ![cur] = "succeeded"] /\ UNCHANGED itemOf
      BY <2>2, <3>1, <1>0 DEF CompleteWaitingFixJobWithPR, Mapped, JobState, RowsTypeOK
    <3>4. QED
      BY <3>1, <3>2, <3>3 DEF Lifecycle!Next, Lifecycle!Succeed, Lifecycle!Move, Mapped
  <2>3. QED
    BY <1>4, <2>1, <2>2 DEF CompleteDetected
<1>5. ASSUME NEW j \in JobId, Claim(j)
      PROVE  [Lifecycle!Next]_(Lifecycle!vars)
  <2>1. Mapped[j] = "queued"
    BY <1>5 DEF Claim, ClaimNextQueuedFixJob, Oldest, Queued, Mapped, JobState
  <2>2. Mapped' = [Mapped EXCEPT ![j] = "working"] /\ UNCHANGED itemOf
    BY <1>5, <1>0 DEF Claim, ClaimNextQueuedFixJob, Mapped, JobState, RowsTypeOK
  <2>3. QED
    BY <2>1, <2>2 DEF Lifecycle!Next, Lifecycle!Begin, Lifecycle!Move, Mapped
<1>6. CASE Advance
  <2>1. pc \in {"preparing_worktree", "running_agent", "committing"}
    BY <1>6 DEF Advance, NextPhase, RunPhases
  <2>2. NextPhase[pc] \in RunPhases
    BY <2>1 DEF NextPhase, RunPhases
  <2>3. cur \in JobId /\ MidAgent(cur)
    BY <2>1 DEF IInv, RunnerOwnsRow, Running, RunPhases
  <2>4. CASE UpdateFixJob(cur, ProgressStatus, NextPhase[pc], FALSE)
    BY <2>2, <2>3, <2>4, <1>2 DEF ProgressStatus, Statuses, Phases
  <2>5. QED
    BY <1>6, <2>4, <1>1 DEF Advance
<1>7. CASE RunFails
  <2>1. cur \in JobId /\ MidAgent(cur)
    BY <1>7 DEF RunFails, IInv, RunnerOwnsRow
  <2>2. CASE UpdateFixJob(cur, "failed", "failed", FALSE)
    BY <2>1, <2>2, <1>2 DEF Statuses, Terminal, Phases
  <2>3. QED
    BY <1>7, <2>2, <1>1 DEF RunFails
<1>8. CASE Record
  <2>1. cur \in JobId /\ MidAgent(cur)
    BY <1>8 DEF Record, IInv, RunnerOwnsRow
  <2>2. CASE UpdateFixJob(cur, "succeeded", "pr_opened", FALSE)
    BY <2>1, <2>2, <1>2 DEF Statuses, Terminal, Phases
  <2>3. ASSUME NEW m \in BOOLEAN, UpdateFixJob(cur, "running", "waiting_for_pr", m)
        PROVE  [Lifecycle!Next]_(Lifecycle!vars)
    BY <2>1, <2>3, <1>2 DEF Statuses, Phases
  <2>4. QED
    BY <1>8, <2>2, <2>3, <1>1 DEF Record
<1>9. ASSUME NEW i \in Items, RequestFix(i)
      PROVE  [Lifecycle!Next]_(Lifecycle!vars)
  <2> PICK j \in JobId, m \in PRCreateModes : CreateFixJob(i, j, m)
    BY <1>9, PRCreateAssumption DEF RequestFix
  <2>1. Lifecycle!Submit(i, j)
    BY <1>0, CreateSubmits
  <2>2. QED
    BY <2>1 DEF Lifecycle!Next
<1>10. ASSUME NEW j \in JobId, TimePasses(j)
       PROVE  [Lifecycle!Next]_(Lifecycle!vars)
  BY <1>10 DEF TimePasses, GoStale, Lifecycle!vars, JobState
<1>11. QED
  <2>1. CASE StageStep
    <3>1. CASE ListWaiting \/ CompleteFails \/ EndDetect \/ ClaimNothing
      BY <3>1, <1>1 DEF ListWaiting, CompleteFails, EndDetect, ClaimNothing
    <3>2. CASE \E j \in JobId : DetectFound(j) \/ DetectNothing(j)
      BY <3>2, <1>1 DEF DetectFound, DetectNothing
    <3>3. QED
      BY <2>1, <3>1, <3>2, <1>3, <1>4, <1>5 DEF StageStep
  <2>2. CASE RunStep
    <3>1. CASE LeaveForReview \/ PushToHead \/ OpenWithGH \/ OpenWithNoMistakes \/ OpenNothing
      BY <3>1, <1>1
         DEF LeaveForReview, PushToHead, OpenWithGH, OpenWithNoMistakes, OpenNothing, Returns
    <3>2. QED
      BY <2>2, <3>1, <1>6, <1>7, <1>8 DEF RunStep
  <2>3. CASE EnvironmentStep
    <3>1. CASE Crash
      BY <3>1, <1>1 DEF Crash
    <3>2. CASE \E i \in Items : ContribSweepPrune(i) \/ ContribSweepUpsert(i)
      BY <3>2, <1>1 DEF ContribSweepPrune, ContribSweepUpsert
    <3>3. CASE \E j \in JobId : PipelineOpensPR(j) \/ PipelineGivesUp(j)
      BY <3>3, <1>1 DEF PipelineOpensPR, PipelineGivesUp
    <3>4. QED
      BY <2>3, <3>1, <3>2, <3>3, <1>9, <1>10 DEF EnvironmentStep
  <2>4. CASE Start
    BY <2>4, <1>1 DEF Start
  <2>5. CASE UNCHANGED vars
    BY <2>5, <1>1 DEF vars
  <2>6. QED
    BY <2>1, <2>2, <2>3, <2>4, <2>5 DEF Next, DaemonStep

\* Every behaviour of the fix stage is one that FixJobLifecycle allows.
THEOREM Refinement == Spec => ImplementsLifecycle
<1>1. Init => Lifecycle!Init
  BY DEF Init, RowsInit, Lifecycle!Init, JobState
<1>2. QED
  BY <1>1, IInvInit, IInvNext, StepImplements, PTL DEF Spec, ImplementsLifecycle, Lifecycle!Spec

-----------------------------------------------------------------------------
(***************************************************************************)
(* Failed jobs leave no PR, where only the work itself fails.  What makes  *)
(* it inductive: an agent is at work on the runner's row alone, so that a  *)
(* reclaim finds nothing; and GitHub knows of no job before the runner's   *)
(* last phase is over.                                                     *)
(***************************************************************************)

\* No write is lost, no call errs after its effect, and the daemon is not killed.
Reliable == ~LostWrites /\ ~LateErrors /\ MaxCrashes = 0

OnGitHub(j) == pr[j] # "none" \/ j \in pushed

OnlyRunnerAtWork == \A j \in JobId : MidAgent(j) => j = cur /\ pc \in RunPhases \cup {"record"}

EffectsComeLast ==
    \A j \in JobId : OnGitHub(j) => /\ status[j] \notin {"none", "queued", "failed"}
                                    /\ ~(Running /\ j = cur)

RInv == IInv /\ OnlyRunnerAtWork /\ EffectsComeLast

\* Steps of the daemon that touch neither table nor GitHub, before or after a run.
LEMMA AsideKeepsR ==
    ASSUME RInv, UNCHANGED <<rows, github>>, pc \notin RunPhases \cup {"record"},
           pc' \notin RunPhases
    PROVE  OnlyRunnerAtWork' /\ EffectsComeLast'
BY DEF RInv, OnlyRunnerAtWork, EffectsComeLast, OnGitHub, MidAgent, Running, rows, github

\* Nothing is requested, and GitHub knows of no job.
LEMMA RInvInit == Init => RInv
BY IInvInit DEF Init, RowsInit, RInv, OnlyRunnerAtWork, EffectsComeLast, OnGitHub, MidAgent

\* Every step of a reliable fix stage keeps it.
LEMMA RInvNext == Reliable /\ RInv /\ [Next]_vars => RInv'
<1> SUFFICES ASSUME Reliable, RInv, [Next]_vars
             PROVE  OnlyRunnerAtWork' /\ EffectsComeLast'
  BY IInvNext DEF RInv
<1>0. /\ RowsTypeOK /\ TypeOK /\ IInv /\ ~LostWrites /\ ~LateErrors
      /\ pr \in [JobId -> {"none", "pipeline", "open"}]
      /\ pc \in RunPhases \cup {"complete", "record"} => cur \in JobId
  BY DEF RInv, IInv, Typed, TypeOK, CurOK, Reliable
<1>1. CASE Start
  BY <1>1, AsideKeepsR DEF Start, Goto, RunPhases
<1>2. CASE StageStep
  <2>1. CASE ReclaimStale
    <3>1. Reclaimable = {}
      BY <2>1 DEF ReclaimStale, Reclaimable, RInv, OnlyRunnerAtWork, RowsTypeOK, RunPhases, IInv, Typed, TypeOK
    <3>2. status' = status /\ phase' = phase
      BY <2>1, <3>1, <1>0 DEF ReclaimStale, ReclaimStaleRunningFixJobs, RowsTypeOK
    <3>3. pc = "idle" /\ pc' = "list" /\ UNCHANGED <<cur, pr, pushed>>
      BY <2>1 DEF ReclaimStale, Goto, github
    <3>4. QED
      BY <3>2, <3>3 DEF RInv, OnlyRunnerAtWork, EffectsComeLast, OnGitHub, MidAgent, Running, RunPhases
  <2>2. CASE ListWaiting
    BY <2>2, AsideKeepsR DEF ListWaiting, RunPhases
  <2>3. CASE CompleteDetected
    <3>1. pc = "complete" /\ pc' = "detect" /\ UNCHANGED github /\ cur \in JobId
      BY <2>3, <1>0 DEF CompleteDetected
    <3>2. CASE UNCHANGED rows
      BY <3>1, <3>2, AsideKeepsR DEF RunPhases
    <3>3. CASE CompleteWaitingFixJobWithPR(cur)
      <4>1. \A j \in JobId : j # cur => status'[j] = status[j] /\ phase'[j] = phase[j]
        BY <3>1, <3>3, <1>0 DEF CompleteWaitingFixJobWithPR, RowsTypeOK
      <4>2. status'[cur] = "succeeded"
        BY <3>1, <3>3, <1>0 DEF CompleteWaitingFixJobWithPR, RowsTypeOK
      <4>3. QED
        BY <3>1, <4>1, <4>2
           DEF RInv, OnlyRunnerAtWork, EffectsComeLast, OnGitHub, MidAgent, Running, RunPhases, github
    <3>4. QED
      BY <2>3, <3>2, <3>3 DEF CompleteDetected
  <2>4. CASE CompleteFails
    BY <2>4, <1>0 DEF CompleteFails
  <2>5. CASE EndDetect
    BY <2>5, AsideKeepsR DEF EndDetect, Return, Goto, RunPhases
  <2>6. CASE ClaimNothing
    BY <2>6, AsideKeepsR DEF ClaimNothing, Return, RunPhases
  <2>7. ASSUME NEW j \in JobId, DetectFound(j)
        PROVE  OnlyRunnerAtWork' /\ EffectsComeLast'
    BY <2>7, AsideKeepsR DEF DetectFound, RunPhases
  <2>8. ASSUME NEW j \in JobId, DetectNothing(j)
        PROVE  OnlyRunnerAtWork' /\ EffectsComeLast'
    BY <2>8, AsideKeepsR DEF DetectNothing, RunPhases
  <2>9. ASSUME NEW j \in JobId, Claim(j)
        PROVE  OnlyRunnerAtWork' /\ EffectsComeLast'
    <3>1. /\ status[j] = "queued" /\ pc = "claim" /\ cur' = j /\ pc' = "preparing_worktree"
          /\ status' = [status EXCEPT ![j] = "running"]
          /\ phase' = [phase EXCEPT ![j] = "preparing_worktree"]
          /\ UNCHANGED github
      BY <2>9 DEF Claim, ClaimNextQueuedFixJob, Oldest, Queued
    <3>2. \A k \in JobId : k # j => status'[k] = status[k] /\ phase'[k] = phase[k]
      BY <3>1, <1>0 DEF RowsTypeOK
    <3>3. status'[j] = "running"
      BY <3>1, <1>0 DEF RowsTypeOK
    <3>4. OnlyRunnerAtWork'
      BY <3>1, <3>2 DEF RInv, OnlyRunnerAtWork, MidAgent, RunPhases
    <3>5. EffectsComeLast'
      BY <3>1, <3>2, <3>3 DEF RInv, EffectsComeLast, OnGitHub, github
    <3>6. QED
      BY <3>4, <3>5
  <2>10. QED
    BY <1>2, <2>1, <2>2, <2>3, <2>4, <2>5, <2>6, <2>7, <2>8, <2>9 DEF StageStep
<1>3. CASE RunStep
  <2>1. CASE Advance
    <3>1. Running /\ cur \in JobId /\ UNCHANGED <<cur, pr, pushed>>
      BY <2>1, <1>0 DEF Advance, NextPhase, Running, RunPhases, github
    <3>2. pc' \in RunPhases
      BY <2>1 DEF Advance, NextPhase, RunPhases
    <3>3. UpdateFixJob(cur, "running", NextPhase[pc], FALSE)
      BY <2>1, <1>0 DEF Advance, ProgressStatus
    <3>4. /\ \A k \in JobId : k # cur => status'[k] = status[k] /\ phase'[k] = phase[k]
          /\ status'[cur] = "running"
      BY <3>1, <3>3, <1>0 DEF UpdateFixJob, RowsTypeOK
    <3>5. QED
      BY <3>1, <3>2, <3>4 DEF RInv, OnlyRunnerAtWork, EffectsComeLast, OnGitHub, MidAgent, Running
  <2>2. ASSUME UNCHANGED <<rows, cur>>, Running, pc' = "record",
               \A j \in JobId : j # cur => pr'[j] = pr[j] /\ (j \in pushed' <=> j \in pushed)
        PROVE  OnlyRunnerAtWork' /\ EffectsComeLast'
    <3>1. OnlyRunnerAtWork'
      BY <2>2 DEF RInv, OnlyRunnerAtWork, MidAgent, Running, rows
    <3>2. MidAgent(cur) /\ cur \in JobId
      BY <2>2 DEF RInv, IInv, RunnerOwnsRow
    <3>3. EffectsComeLast'
      BY <2>2, <3>2 DEF RInv, EffectsComeLast, OnGitHub, MidAgent, Running, RunPhases, rows
    <3>4. QED
      BY <3>1, <3>3
  <2>3. CASE LeaveForReview \/ OpenNothing
    BY <2>2, <2>3 DEF LeaveForReview, OpenNothing, Returns, github, Running, RunPhases
  <2>4. CASE PushToHead
    BY <2>2, <2>4 DEF PushToHead, Returns, Running, RunPhases
  <2>5. CASE OpenWithGH
    BY <2>2, <2>5, <1>0 DEF OpenWithGH, Returns, Running, RunPhases
  <2>6. CASE OpenWithNoMistakes
    BY <2>2, <2>6, <1>0 DEF OpenWithNoMistakes, Returns, Running, RunPhases
  <2>7. CASE RunFails
    <3>1. Running /\ cur \in JobId /\ UpdateFixJob(cur, "failed", "failed", FALSE)
          /\ UNCHANGED github /\ pc' = "idle"
      BY <2>7, <1>0 DEF RunFails, LateEffect, Return, Running
    <3>2. /\ \A k \in JobId : k # cur => status'[k] = status[k] /\ phase'[k] = phase[k]
          /\ status'[cur] = "failed"
      BY <3>1, <1>0 DEF UpdateFixJob, RowsTypeOK
    <3>3. OnlyRunnerAtWork'
      BY <3>2 DEF RInv, OnlyRunnerAtWork, MidAgent
    <3>4. EffectsComeLast'
      BY <3>1, <3>2 DEF RInv, EffectsComeLast, OnGitHub, Running, RunPhases, github
    <3>5. QED
      BY <3>3, <3>4
  <2>8. CASE Record
    <3>1. PICK s \in {"succeeded", "running"}, p \in {"pr_opened", "waiting_for_pr"}, m \in BOOLEAN :
            /\ UpdateFixJob(cur, s, p, m)
            /\ s = "running" => p = "waiting_for_pr"
      BY <2>8, <1>0 DEF Record
    <3>2. pc = "record" /\ pc' = "idle" /\ cur \in JobId /\ UNCHANGED github
      BY <2>8, <1>0 DEF Record, Return
    <3>3. /\ \A k \in JobId : k # cur => status'[k] = status[k] /\ phase'[k] = phase[k]
          /\ status'[cur] = s /\ phase'[cur] = p
      BY <3>1, <3>2, <1>0 DEF UpdateFixJob, RowsTypeOK
    <3>4. OnlyRunnerAtWork'
      BY <3>1, <3>3 DEF RInv, OnlyRunnerAtWork, MidAgent
    <3>5. EffectsComeLast'
      BY <3>2, <3>3 DEF RInv, EffectsComeLast, OnGitHub, Running, RunPhases, github
    <3>6. QED
      BY <3>4, <3>5
  <2>9. QED
    BY <1>3, <2>1, <2>3, <2>4, <2>5, <2>6, <2>7, <2>8 DEF RunStep
<1>4. CASE EnvironmentStep
  <2>1. CASE Crash
    BY <2>1, <1>0 DEF Crash, Reliable, TypeOK
  <2>2. ASSUME NEW i \in Items, RequestFix(i)
        PROVE  OnlyRunnerAtWork' /\ EffectsComeLast'
    <3> PICK j \in JobId, m \in PRCreateModes : CreateFixJob(i, j, m)
      BY <2>2, PRCreateAssumption DEF RequestFix
    <3>1. UNCHANGED <<daemon, github>>
      BY <2>2 DEF RequestFix
    <3>2. ASSUME NEW k \in JobId
          PROVE  /\ status'[k] \in {"queued", "cancelled", status[k]}
                 /\ status'[k] = "queued" => status[k] \in {"none", "queued"}
                 /\ phase'[k] = phase[k] \/ status'[k] = "queued"
      <4>1. status[j] = "none"
        BY DEF CreateFixJob
      <4>2. CASE k = j
        <5>1. status' = [n \in JobId |-> CASE n = j -> "queued"
                                           [] n \in Oldest(Active(i)) -> "cancelled"
                                           [] OTHER -> status[n]]
          BY DEF CreateFixJob
        <5>2. j \notin Oldest(Active(i))
          BY <4>1 DEF Oldest, Active
        <5>3. status'[j] = "queued"
          BY <5>1, <5>2
        <5>4. QED
          BY <4>1, <4>2, <5>3
      <4>3. CASE k # j
        <5>1. status'[k] \in {"cancelled", status[k]}
          BY <4>3 DEF CreateFixJob
        <5>2. phase'[k] = phase[k]
          BY <4>3, <1>0 DEF CreateFixJob, RowsTypeOK
        <5>3. QED
          BY <5>1, <5>2
      <4>4. QED
        BY <4>2, <4>3
    <3>3. OnlyRunnerAtWork'
      BY <3>1, <3>2 DEF RInv, OnlyRunnerAtWork, MidAgent, daemon
    <3>4. EffectsComeLast'
      BY <3>1, <3>2 DEF RInv, EffectsComeLast, OnGitHub, Running, daemon, github
    <3>5. QED
      BY <3>3, <3>4
  <2>3. ASSUME NEW i \in Items, ContribSweepPrune(i) \/ ContribSweepUpsert(i)
        PROVE  OnlyRunnerAtWork' /\ EffectsComeLast'
    BY <2>3 DEF ContribSweepPrune, ContribSweepUpsert,
       RInv, OnlyRunnerAtWork, EffectsComeLast, OnGitHub, MidAgent, Running, rows, daemon, github
  <2>4. ASSUME NEW j \in JobId, TimePasses(j)
        PROVE  OnlyRunnerAtWork' /\ EffectsComeLast'
    BY <2>4 DEF TimePasses, GoStale,
       RInv, OnlyRunnerAtWork, EffectsComeLast, OnGitHub, MidAgent, Running, daemon, github
  <2>5. ASSUME NEW j \in JobId, PipelineOpensPR(j) \/ PipelineGivesUp(j)
        PROVE  OnlyRunnerAtWork' /\ EffectsComeLast'
    <3>1. \A k \in JobId : OnGitHub(k)' => OnGitHub(k)
      BY <2>5, <1>0 DEF PipelineOpensPR, PipelineGivesUp, OnGitHub
    <3>2. UNCHANGED <<rows, daemon>>
      BY <2>5 DEF PipelineOpensPR, PipelineGivesUp
    <3>3. QED
      BY <3>1, <3>2 DEF RInv, OnlyRunnerAtWork, EffectsComeLast, MidAgent, Running, rows, daemon
  <2>6. QED
    BY <1>4, <2>1, <2>2, <2>3, <2>4, <2>5 DEF EnvironmentStep
<1>5. CASE UNCHANGED vars
  BY <1>5 DEF vars, RInv, OnlyRunnerAtWork, EffectsComeLast, OnGitHub, MidAgent, Running,
     rows, daemon, github
<1>6. QED
  BY <1>1, <1>2, <1>3, <1>4, <1>5 DEF Next, DaemonStep

\* Where only the work itself fails, a job that failed has no PR, no pipeline that will
\* open one, and nothing pushed: RunFix only fails before its run has had an effect.
THEOREM FailureIsClean == Reliable => (Spec => []FailedLeavesNoPR)
<1>1. RInv => FailedLeavesNoPR
  <2> SUFFICES ASSUME RInv, NEW j \in JobId, status[j] = "failed"
               PROVE  pr[j] = "none" /\ j \notin pushed
    BY DEF FailedLeavesNoPR
  <2> QED
    BY DEF RInv, EffectsComeLast, OnGitHub
<1>2. SUFFICES ASSUME Reliable
               PROVE  Spec => []FailedLeavesNoPR
  OBVIOUS
<1>3. RInv /\ [Next]_vars => RInv'
  BY <1>2, RInvNext
<1> HIDE DEF RInv, FailedLeavesNoPR
<1>4. QED
  BY <1>1, <1>3, RInvInit, PTL DEF Spec

=============================================================================
