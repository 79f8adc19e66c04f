----------------------------- MODULE PollLoopProofs -----------------------------
(***************************************************************************)
(* Proofs about PollLoop for any set of recommendations and repositories,  *)
(* any number of jobs, items and failures, and a buffer of any size.       *)
(***************************************************************************)
EXTENDS PollLoop, FiniteSetTheorems, SequenceTheorems, TLAPS

\* The actions of the inbox and of the timers: they leave rows alone.
InboxActs == OpenInbox \/ InboxStep \/ RefreshTick

TimerActs == Ticks \/ DiscoveryDue

-----------------------------------------------------------------------------
(***************************************************************************)
(* The rows.                                                               *)
(***************************************************************************)

\* One row more leaves a sequence of job rows.
LEMMA JobsAppend ==
    ASSUME NEW s \in Seq(JobStates), NEW x \in JobStates
    PROVE  /\ Append(s, x) \in Seq(JobStates)
           /\ Len(Append(s, x)) = Len(s) + 1
           /\ DOMAIN Append(s, x) = DOMAIN s \cup {Len(s) + 1}
           /\ Append(s, x)[Len(s) + 1] = x
           /\ \A i \in DOMAIN s : Append(s, x)[i] = s[i]
<1>1. Append(s, x) \in Seq(JobStates) /\ Len(Append(s, x)) = Len(s) + 1
      /\ Append(s, x)[Len(s) + 1] = x /\ \A i \in 1 .. Len(s) : Append(s, x)[i] = s[i]
  BY AppendProperties
<1>2. Len(s) \in Nat /\ DOMAIN s = 1 .. Len(s)
  BY LenProperties
<1>3. DOMAIN Append(s, x) = 1 .. (Len(s) + 1)
  BY <1>1, LenProperties
<1>4. 1 .. (Len(s) + 1) = (1 .. Len(s)) \cup {Len(s) + 1}
  BY <1>2
<1>. QED
  BY <1>1, <1>2, <1>3, <1>4

\* A row in another state leaves a sequence of job rows, too.
LEMMA JobsExcept ==
    ASSUME NEW s \in Seq(JobStates), NEW x \in JobStates, NEW j \in DOMAIN s
    PROVE  /\ [s EXCEPT ![j] = x] \in Seq(JobStates)
           /\ Len([s EXCEPT ![j] = x]) = Len(s)
           /\ DOMAIN [s EXCEPT ![j] = x] = DOMAIN s
BY ExceptSeq, LenProperties

\* Which actions leave the rows and what is known of them alone.
LEMMA RowsFrame ==
    ASSUME \/ SyncRepo \/ ListItems \/ TriageItem \/ CycleEnds
           \/ EmitRecommendationEvents \/ EmitFixJobEvents \/ BackOff \/ WakeUp \/ OnTick
           \/ Start \/ Stop \/ TimerActs \/ InboxActs
    PROVE  UNCHANGED <<db, ipc>>
<1>. USE DEF Quiet, db, ipc
<1>1. ASSUME SyncRepo \/ ListItems \/ TriageItem \/ CycleEnds PROVE UNCHANGED <<db, ipc>>
  BY <1>1 DEF SyncRepo, ListItems, TriageItem, CycleEnds
<1>2. ASSUME EmitRecommendationEvents \/ EmitFixJobEvents PROVE UNCHANGED <<db, ipc>>
  BY <1>2 DEF EmitRecommendationEvents, EmitFixJobEvents
<1>3. ASSUME BackOff \/ WakeUp \/ OnTick \/ Start \/ Stop PROVE UNCHANGED <<db, ipc>>
  BY <1>3 DEF BackOff, WakeUp, OnTick, Start, Stop
<1>4. ASSUME TimerActs \/ InboxActs PROVE UNCHANGED <<db, ipc>>
  BY <1>4 DEF TimerActs, Ticks, DiscoveryDue, InboxActs, InboxStep, OpenInbox, Register,
              Send, NotifyReload, ApplyReload, RefreshTick
<1>. QED
  BY <1>1, <1>2, <1>3, <1>4

\* Every step keeps the rows well typed.
LEMMA RowsStep == RowsTyped /\ [Next]_vars => RowsTyped'
<1>. SUFFICES ASSUME RowsTyped, [Next]_vars PROVE RowsTyped'
  OBVIOUS
<1>. USE DEF RowsTyped, Jobs, db, ipc
<1>1. ASSUME UNCHANGED <<db, ipc>> PROVE RowsTyped'
  BY <1>1
<1>2. ASSUME NEW r \in Recs, Recommend(r) \/ Decide(r) PROVE RowsTyped'
  BY <1>2 DEF Recommend, Decide, RecStates
<1>3. CASE CreateFixJob
  <2>1. "queued" \in JobStates
    BY DEF JobStates
  <2>2. /\ jobs' \in Seq(JobStates) /\ Len(jobs') <= MaxJobs
        /\ DOMAIN jobs' = DOMAIN jobs \cup {Len(jobs) + 1}
    BY <1>3, <2>1, JobsAppend, LenProperties, BoundsAssumption DEF CreateFixJob
  <2>. QED
    BY <1>3, <2>2 DEF CreateFixJob
<1>4. ASSUME NEW j \in Jobs, FixStarted(j) PROVE RowsTyped'
  BY <1>4 DEF FixStarted
<1>5. CASE Resolve \/ Snapshot
  BY <1>5 DEF Resolve, Snapshot, WorkOn, GiveUp, Quiet
<1>6. CASE RepoSynced \/ ItemTriaged \/ AgentsDone
  BY <1>6 DEF RepoSynced, ItemTriaged, AgentsDone, MaySupersede, MayRecommend, RecStates, Live
<1>7. CASE FixStage
  <2>1. CASE jobs' = jobs /\ recs' = recs
    BY <1>7, <2>1 DEF FixStage
  <2>2. ASSUME NEW j \in Jobs, jobs' = [jobs EXCEPT ![j] = "running"], UNCHANGED recs
        PROVE  RowsTyped'
    BY <1>7, <2>2, JobsExcept DEF FixStage, JobStates
  <2>. QED
    BY <1>7, <2>1, <2>2 DEF FixStage, Quiet
<1>8. CASE FixDone
  BY <1>8, JobsExcept DEF FixDone, JobStates
<1>9. CASE UNCHANGED vars
  BY <1>1, <1>9 DEF vars
<1>. QED
  BY <1>1, <1>2, <1>3, <1>4, <1>5, <1>6, <1>7, <1>8, <1>9, RowsFrame
     DEF Next, LoopStep, TimerActs, InboxActs

-----------------------------------------------------------------------------
(***************************************************************************)
(* The wake-up.                                                            *)
(***************************************************************************)

\* Before the fix stage of a cycle, nothing needs a wake-up.
ToCome == pc \in {"resolve", "snapshot", "sync", "repo", "stopped"}

\* What is left of WakeReachesFixStage when no job comes to need a wake-up.
LEMMA WakeKept ==
    ASSUME WakeReachesFixStage, wake => wake' \/ ToCome', ToCome => ToCome',
           \A j \in Jobs' : jobs'[j] = "queued" /\ j \notin serving' \cup seen'
                => j \in Jobs /\ jobs[j] = "queued" /\ j \notin serving \cup seen
    PROVE  WakeReachesFixStage'
BY DEF WakeReachesFixStage, ToCome

\* A cycle that has met all jobs, or has left them aside, owes nothing.
LEMMA AllSeen ==
    ASSUME seen' = Jobs, Jobs' = Jobs
    PROVE  WakeReachesFixStage'
BY DEF WakeReachesFixStage

\* No step overlooks a queued job.
LEMMA WakeStep == RowsTyped /\ WakeReachesFixStage /\ [Next]_vars
                      => WakeReachesFixStage'
<1>. SUFFICES ASSUME RowsTyped, WakeReachesFixStage, [Next]_vars
              PROVE  WakeReachesFixStage'
  OBVIOUS
<1>. USE DEF Jobs, db, ipc
<1>1. ASSUME UNCHANGED <<jobs, ipc, loop, wake>> PROVE WakeReachesFixStage'
  BY <1>1, WakeKept DEF ToCome, loop
<1>2. ASSUME NEW r \in Recs, Recommend(r) \/ Decide(r) PROVE UNCHANGED <<jobs, ipc, loop, wake>>
  BY <1>2 DEF Recommend, Decide, clock, loop
<1>3. CASE TimerActs \/ InboxActs
  <2>1. UNCHANGED <<loop, wake>>
    BY <1>3 DEF TimerActs, Ticks, DiscoveryDue, InboxActs, InboxStep, OpenInbox, Register,
                Send, NotifyReload, ApplyReload, RefreshTick, clock, loop
  <2>. QED
    BY <1>1, <1>3, <2>1, RowsFrame
<1>4. CASE CreateFixJob
  <2>1. /\ DOMAIN jobs' = DOMAIN jobs \cup {Len(jobs) + 1}
        /\ \A i \in DOMAIN jobs : jobs'[i] = jobs[i]
    BY <1>4, JobsAppend DEF CreateFixJob, RowsTyped, JobStates
  <2>. QED
    BY <1>4, <2>1, WakeKept DEF CreateFixJob, ToCome, loop, clock
<1>5. ASSUME NEW j \in Jobs, FixStarted(j) PROVE WakeReachesFixStage'
  BY <1>5 DEF FixStarted, WakeReachesFixStage
<1>6. CASE Resolve
  BY <1>6, WakeKept, AllSeen DEF Resolve, WorkOn, GiveUp, GoTo, Quiet, ToCome, clock
<1>7. CASE Snapshot
  BY <1>7, WakeKept, AllSeen DEF Snapshot, GiveUp, GoTo, Quiet, ToCome, clock
<1>8. CASE SyncRepo \/ RepoSynced
  BY <1>8, WakeKept DEF SyncRepo, RepoSynced, GoTo, Quiet, ToCome, clock
<1>9. CASE FixStage
  <2>1. DOMAIN jobs' = DOMAIN jobs
    BY <1>9, JobsExcept DEF FixStage, Quiet, RowsTyped, JobStates
  <2>. QED
    BY <1>9, <2>1, AllSeen DEF FixStage
<1>10. CASE FixDone
  BY <1>10, WakeKept DEF FixDone, GoTo, ToCome, clock
<1>11. CASE ListItems \/ TriageItem \/ ItemTriaged \/ AgentsDone
  BY <1>11, WakeKept DEF ListItems, TriageItem, ItemTriaged, AgentsDone, GoTo, Quiet, ToCome, clock
<1>12. CASE CycleEnds \/ EmitRecommendationEvents \/ EmitFixJobEvents
  BY <1>12, WakeKept DEF CycleEnds, EmitRecommendationEvents, EmitFixJobEvents, CannotCompare,
                         KeepQuiet, GoTo, ToCome
<1>13. CASE BackOff \/ WakeUp \/ OnTick \/ Start \/ Stop
  BY <1>13, WakeKept DEF BackOff, WakeUp, OnTick, Start, Stop, GoTo, Quiet, ToCome, clock
<1>14. CASE UNCHANGED vars
  BY <1>1, <1>14 DEF vars, clock
<1>. QED
  BY <1>1, <1>2, <1>3, <1>4, <1>5, <1>6, <1>7, <1>8, <1>9, <1>10, <1>11, <1>12, <1>13, <1>14
     DEF Next, LoopStep, TimerActs, InboxActs

\* The wake-up of a fix that is queued over IPC is never lost.
THEOREM WakeUpIsNotLost == Spec => []WakeReachesFixStage
<1>1. Init => RowsTyped /\ WakeReachesFixStage
  BY BoundsAssumption, EmptySeq DEF Init, RowsTyped, RecStates, WakeReachesFixStage, Jobs
<1>2. RowsTyped /\ WakeReachesFixStage /\ [Next]_vars => (RowsTyped /\ WakeReachesFixStage)'
  BY RowsStep, WakeStep
<1>. QED
  BY <1>1, <1>2, PTL DEF Spec

-----------------------------------------------------------------------------
(***************************************************************************)
(* The loop and the progress record.                                       *)
(***************************************************************************)

\* The progress record says where the loop is, and what it says of the agents stage
\* adds up with the items that the cycle has still to do.
ProgressFollowsLoop ==
    /\ progress.syncing = IF pc = "repo" THEN {progress.repo} ELSE {}
    /\ progress.item <=> pc = "item"
    /\ progress.repo # None => progress.phase = "sync"
    /\ pc \in {"sync", "repo", "work", "agents"} => progress.phase = "sync"
    /\ progress.phase = "sync" => progress.total = 0
    /\ pc \in {"items", "item"}
          => /\ progress.phase = "agents"
             /\ progress.done + cycle.items + (IF pc = "item" THEN 1 ELSE 0) = progress.total
    /\ progress.done <= progress.total

\* Each operation of the progress record keeps it well typed.
LEMMA SyncStateTyped ==
    ASSUME progress \in SyncStates
    PROVE  /\ NewSyncState \in SyncStates
           /\ BeginCycle \in SyncStates /\ EndAgents \in SyncStates /\ EndCycle \in SyncStates
           /\ AgentItemBegin \in SyncStates
           /\ \A r \in Repos : RepoBegin(r) \in SyncStates
           /\ \A r : RepoEnd(r) \in SyncStates
           /\ \A n \in 0 .. MaxItems : BeginAgents(n) \in SyncStates
           /\ progress.done < MaxItems => AgentItemEnd \in SyncStates
<1>. USE BoundsAssumption DEF SyncStates
<1>1. 0 \in 0 .. MaxItems
  OBVIOUS
<1>2. NewSyncState \in SyncStates
  BY <1>1 DEF NewSyncState
<1>3. BeginCycle \in SyncStates
  BY <1>1 DEF BeginCycle
<1>4. EndAgents \in SyncStates
  BY DEF EndAgents
<1>5. EndCycle \in SyncStates /\ AgentItemBegin \in SyncStates
  BY DEF EndCycle, AgentItemBegin
<1>6. ASSUME NEW r \in Repos PROVE RepoBegin(r) \in SyncStates
  BY <1>6 DEF RepoBegin
<1>7. ASSUME NEW r PROVE RepoEnd(r) \in SyncStates
  BY DEF RepoEnd
<1>8. ASSUME NEW n \in 0 .. MaxItems PROVE BeginAgents(n) \in SyncStates
  BY <1>1, <1>8 DEF BeginAgents
<1>9. ASSUME progress.done < MaxItems PROVE AgentItemEnd \in SyncStates
  <2>1. progress.done + 1 \in 0 .. MaxItems
    BY <1>9
  <2>. QED
    BY <2>1 DEF AgentItemEnd
<1>. QED
  BY <1>2, <1>3, <1>4, <1>5, <1>6, <1>7, <1>8, <1>9

\* Which actions leave the loop and its progress record alone.
LEMMA LoopFrame ==
    ASSUME \/ \E r \in Recs : Recommend(r) \/ Decide(r)
           \/ CreateFixJob \/ (\E j \in Jobs : FixStarted(j))
           \/ TimerActs \/ InboxActs \/ UNCHANGED vars
    PROVE  UNCHANGED <<pc, cycle, progress>>
<1>. USE DEF loop
<1>1. ASSUME NEW r \in Recs, Recommend(r) \/ Decide(r) PROVE UNCHANGED <<pc, cycle, progress>>
  BY <1>1 DEF Recommend, Decide
<1>2. ASSUME CreateFixJob PROVE UNCHANGED <<pc, cycle, progress>>
  BY <1>2 DEF CreateFixJob
<1>3. ASSUME NEW j \in Jobs, FixStarted(j) PROVE UNCHANGED <<pc, cycle, progress>>
  BY <1>3 DEF FixStarted
<1>4. ASSUME TimerActs \/ InboxActs PROVE UNCHANGED <<pc, cycle, progress>>
  BY <1>4 DEF TimerActs, Ticks, DiscoveryDue, InboxActs, InboxStep, OpenInbox, Register,
              Send, NotifyReload, ApplyReload, RefreshTick
<1>5. ASSUME UNCHANGED vars PROVE UNCHANGED <<pc, cycle, progress>>
  BY <1>5 DEF vars
<1>. QED
  BY <1>1, <1>2, <1>3, <1>4, <1>5

\* The progress record keeps step with the loop.
LEMMA ProgressStep ==
    pc \in Places /\ cycle \in Cycles /\ progress \in SyncStates
       /\ ProgressFollowsLoop /\ [Next]_vars => ProgressFollowsLoop'
<1>. SUFFICES ASSUME pc \in Places, cycle \in Cycles, progress \in SyncStates,
                     ProgressFollowsLoop, [Next]_vars
              PROVE  ProgressFollowsLoop'
  OBVIOUS
<1>1. progress = [phase |-> progress.phase, repo |-> progress.repo,
                     syncing |-> progress.syncing, total |-> progress.total,
                     done |-> progress.done, item |-> progress.item]
  BY DEF SyncStates
<1>2. progress.total \in Nat /\ progress.done \in Nat
  BY BoundsAssumption DEF SyncStates
<1>3. cycle.items \in Nat
  BY BoundsAssumption DEF Cycles
<1>4. CASE UNCHANGED <<pc, cycle, progress>>
  BY <1>4 DEF ProgressFollowsLoop
<1>5. CASE Resolve
  BY <1>5 DEF Resolve, WorkOn, GiveUp, GoTo, ProgressFollowsLoop
<1>6. CASE Snapshot
  <2>1. CASE progress' = BeginCycle /\ GoTo("sync")
    BY <1>6, <1>1, <2>1 DEF Snapshot, GoTo, BeginCycle, ProgressFollowsLoop
  <2>2. CASE GiveUp /\ UNCHANGED progress
    BY <1>6, <2>2 DEF Snapshot, GiveUp, GoTo, ProgressFollowsLoop
  <2>. QED
    BY <1>6, <2>1, <2>2 DEF Snapshot
<1>7. CASE SyncRepo
  BY <1>7, <1>1, <1>2, <1>3 DEF SyncRepo, GoTo, RepoBegin, ProgressFollowsLoop
<1>8. CASE RepoSynced
  BY <1>8, <1>1, <1>2, <1>3 DEF RepoSynced, GoTo, RepoEnd, ProgressFollowsLoop
<1>9. CASE FixStage \/ FixDone
  BY <1>9 DEF FixStage, FixDone, GoTo, ProgressFollowsLoop
<1>10. CASE ListItems
  <2>1. CASE GoTo("end") /\ UNCHANGED progress
    BY <1>10, <2>1 DEF ListItems, GoTo, ProgressFollowsLoop
  <2>2. ASSUME NEW n \in 0 .. MaxItems, cycle' = [cycle EXCEPT !.items = n],
               progress' = BeginAgents(n), GoTo("items")
        PROVE  ProgressFollowsLoop'
    <3>1. cycle'.items = n /\ n \in Nat
      BY <2>2, BoundsAssumption DEF Cycles
    <3>2. /\ progress'.phase = "agents" /\ progress'.repo = None /\ progress'.done = 0
          /\ progress'.total = n /\ progress'.item = FALSE
          /\ progress'.syncing = progress.syncing
      BY <2>2 DEF BeginAgents, SyncStates
    <3>3. pc = "agents" /\ pc' = "items"
      BY <1>10, <2>2 DEF ListItems, GoTo
    <3>. QED
      BY <3>1, <3>2, <3>3 DEF ProgressFollowsLoop
  <2>. QED
    BY <1>10, <2>1, <2>2 DEF ListItems
<1>11. CASE TriageItem
  <2>1. cycle'.items = cycle.items - 1
    BY <1>11 DEF TriageItem, Cycles
  <2>. QED
    BY <1>11, <2>1, <1>1, <1>2, <1>3 DEF TriageItem, GoTo, AgentItemBegin, ProgressFollowsLoop
<1>12. CASE ItemTriaged
  BY <1>12, <1>1, <1>2, <1>3 DEF ItemTriaged, GoTo, AgentItemEnd, ProgressFollowsLoop
<1>13. CASE AgentsDone
  BY <1>13, <1>1, <1>2, <1>3 DEF AgentsDone, GoTo, EndAgents, ProgressFollowsLoop
<1>14. CASE CycleEnds
  BY <1>14, <1>1, <1>2, <1>3 DEF CycleEnds, KeepQuiet, GoTo, EndCycle, ProgressFollowsLoop
<1>15. CASE EmitRecommendationEvents \/ EmitFixJobEvents
  BY <1>15 DEF EmitRecommendationEvents, EmitFixJobEvents, CannotCompare, KeepQuiet, GoTo,
               ProgressFollowsLoop
<1>16. CASE BackOff \/ WakeUp \/ OnTick \/ Start
  BY <1>16 DEF BackOff, WakeUp, OnTick, Start, GoTo, ProgressFollowsLoop
<1>17. CASE Stop
  BY <1>17 DEF Stop, GoTo, NewSyncState, ProgressFollowsLoop
<1>. QED
  BY <1>4, <1>5, <1>6, <1>7, <1>8, <1>9, <1>10, <1>11, <1>12, <1>13, <1>14, <1>15, <1>16, <1>17,
     LoopFrame DEF Next, LoopStep, TimerActs, InboxActs

\* What a cycle works with stays well typed.
LEMMA CycleStep == RowsTyped /\ cycle \in Cycles /\ discovery \in Resolvers /\ [Next]_vars
                       => cycle' \in Cycles
<1>. SUFFICES ASSUME RowsTyped, cycle \in Cycles, discovery \in Resolvers, [Next]_vars
              PROVE  cycle' \in Cycles
  OBVIOUS
<1>1. NoCycle \in Cycles
  BY BoundsAssumption, EmptySeq DEF NoCycle, Cycles, RecStates
<1>2. CASE UNCHANGED <<pc, cycle, progress>>
  BY <1>2
<1>3. CASE Resolve
  <2>1. ASSUME NEW found \in SUBSET Dynamic, WorkOn(found) PROVE cycle' \in Cycles
    <3>1. Static \cup found \in SUBSET Repos
      BY DEF Repos
    <3>. QED
      BY <1>1, <2>1, <3>1 DEF WorkOn, Cycles
  <2>2. discovery.known \in SUBSET Dynamic
    BY DEF Resolvers
  <2>. QED
    BY <1>3, <2>1, <2>2 DEF Resolve
<1>4. CASE Snapshot
  BY <1>4 DEF Snapshot, Cycles, RowsTyped
<1>5. CASE SyncRepo \/ FixDone \/ ItemTriaged \/ AgentsDone \/ CycleEnds \/ WakeUp \/ OnTick
           \/ Start \/ Stop
  BY <1>5 DEF SyncRepo, FixDone, ItemTriaged, AgentsDone, CycleEnds, WakeUp, OnTick, Start, Stop
<1>6. CASE RepoSynced
  BY <1>6 DEF RepoSynced, Cycles
<1>7. CASE FixStage
  BY <1>7 DEF FixStage, Cycles
<1>8. CASE ListItems
  BY <1>8 DEF ListItems, Cycles
<1>9. CASE TriageItem
  <2>1. cycle.items - 1 \in 0 .. MaxItems
    BY <1>9, BoundsAssumption DEF TriageItem, Cycles
  <2>. QED
    BY <1>9, <2>1 DEF TriageItem, Cycles
<1>10. CASE EmitRecommendationEvents \/ EmitFixJobEvents \/ BackOff
  BY <1>1, <1>10 DEF EmitRecommendationEvents, EmitFixJobEvents, BackOff, CannotCompare
<1>. QED
  BY <1>2, <1>3, <1>4, <1>5, <1>6, <1>7, <1>8, <1>9, <1>10, LoopFrame
     DEF Next, LoopStep, TimerActs, InboxActs

\* So does the progress record.
LEMMA SyncStateStep ==
    pc \in Places /\ cycle \in Cycles /\ progress \in SyncStates
       /\ ProgressFollowsLoop /\ [Next]_vars => progress' \in SyncStates
<1>. SUFFICES ASSUME pc \in Places, cycle \in Cycles, progress \in SyncStates,
                     ProgressFollowsLoop, [Next]_vars
              PROVE  progress' \in SyncStates
  OBVIOUS
<1>1. CASE UNCHANGED <<pc, cycle, progress>>
  BY <1>1
<1>2. CASE Resolve \/ FixStage \/ FixDone \/ BackOff \/ WakeUp \/ OnTick \/ Start
           \/ EmitRecommendationEvents \/ EmitFixJobEvents
  BY <1>2 DEF Resolve, FixStage, FixDone, BackOff, WakeUp, OnTick, Start,
              EmitRecommendationEvents, EmitFixJobEvents
<1>3. CASE Snapshot \/ TriageItem \/ AgentsDone \/ CycleEnds \/ Stop
  BY <1>3, SyncStateTyped DEF Snapshot, TriageItem, AgentsDone, CycleEnds, Stop
<1>4. CASE SyncRepo
  <2>1. cycle.todo \subseteq Repos
    BY DEF Cycles
  <2>. QED
    BY <1>4, <2>1, SyncStateTyped DEF SyncRepo
<1>5. CASE RepoSynced
  BY <1>5, SyncStateTyped DEF RepoSynced
<1>6. CASE ListItems
  BY <1>6, SyncStateTyped DEF ListItems
<1>7. CASE ItemTriaged
  <2>1. cycle.items \in Nat /\ progress.done \in Nat /\ progress.total \in 0 .. MaxItems
    BY BoundsAssumption DEF Cycles, SyncStates
  <2>2. progress.done < MaxItems
    BY <1>7, <2>1, BoundsAssumption DEF ItemTriaged, ProgressFollowsLoop
  <2>. QED
    BY <1>7, <2>2, SyncStateTyped DEF ItemTriaged
<1>. QED
  BY <1>1, <1>2, <1>3, <1>4, <1>5, <1>6, <1>7, LoopFrame
     DEF Next, LoopStep, TimerActs, InboxActs

\* Failures are counted within their bound.
LEMMA FaultCounted ==
    ASSUME faults \in 0 .. MaxFaults, Fault
    PROVE  faults' \in 0 .. MaxFaults
BY BoundsAssumption DEF Fault

\* Channels, ticker, discovery and failures stay well typed.
LEMMA SignalsStep ==
    LoopTyped /\ [Next]_vars
      => /\ pc' \in Places
         /\ wake' \in BOOLEAN /\ tick' \in BOOLEAN /\ ticking' \in BOOLEAN
         /\ discovery' \in Resolvers /\ faults' \in 0 .. MaxFaults
<1>. DEFINE G == /\ pc' \in Places
                /\ wake' \in BOOLEAN /\ tick' \in BOOLEAN /\ ticking' \in BOOLEAN
                /\ discovery' \in Resolvers /\ faults' \in 0 .. MaxFaults
<1>. SUFFICES ASSUME LoopTyped, [Next]_vars PROVE G
  OBVIOUS
<1>. USE FaultCounted DEF LoopTyped, Places, GoTo, Quiet, clock, loop
<1>1. ASSUME NEW r \in Recs, Recommend(r) \/ Decide(r) PROVE G
  BY <1>1 DEF Recommend, Decide
<1>2. CASE CreateFixJob
  BY <1>2 DEF CreateFixJob
<1>3. ASSUME NEW j \in Jobs, FixStarted(j) PROVE G
  BY <1>3 DEF FixStarted
<1>4. CASE Resolve
  <2>1. pc' \in {"snapshot", "backoff"}
    BY <1>4 DEF Resolve, WorkOn, GiveUp
  <2>2. discovery' \in Resolvers
    <3>1. \/ discovery' = [known |-> Dynamic, ever |-> TRUE, due |-> FALSE]
          \/ discovery' = [discovery EXCEPT !.due = FALSE]
          \/ UNCHANGED discovery
      BY <1>4 DEF Resolve
    <3>2. [known |-> Dynamic, ever |-> TRUE, due |-> FALSE] \in Resolvers
      BY DEF Resolvers
    <3>3. [discovery EXCEPT !.due = FALSE] \in Resolvers
      BY DEF Resolvers
    <3>. QED
      BY <3>1, <3>2, <3>3
  <2>3. faults' \in 0 .. MaxFaults /\ UNCHANGED clock
    BY <1>4 DEF Resolve
  <2>. QED
    BY <2>1, <2>2, <2>3
<1>5. CASE Snapshot \/ SyncRepo \/ RepoSynced
  BY <1>5 DEF Snapshot, SyncRepo, RepoSynced, GiveUp
<1>6. CASE FixStage \/ FixDone
  BY <1>6 DEF FixStage, FixDone
<1>7. CASE ListItems \/ TriageItem \/ ItemTriaged \/ AgentsDone
  BY <1>7 DEF ListItems, TriageItem, ItemTriaged, AgentsDone
<1>8. CASE CycleEnds
  BY <1>8 DEF CycleEnds, KeepQuiet
<1>9. CASE EmitRecommendationEvents \/ EmitFixJobEvents
  BY <1>9 DEF EmitRecommendationEvents, EmitFixJobEvents, Emit, CannotCompare, KeepQuiet
<1>10. CASE BackOff \/ WakeUp \/ OnTick \/ Start
  BY <1>10 DEF BackOff, WakeUp, OnTick, Start
<1>11. CASE Stop
  BY <1>11 DEF Stop, Resolvers, NewResolver
<1>12. CASE TimerActs
  BY <1>12 DEF TimerActs, Ticks, DiscoveryDue, Resolvers
<1>13. CASE InboxActs
  BY <1>13 DEF InboxActs, InboxStep, OpenInbox, Register, Send, NotifyReload, ApplyReload,
               RefreshTick
<1>14. CASE UNCHANGED vars
  BY <1>14 DEF vars
<1>. QED
  BY <1>1, <1>2, <1>3, <1>4, <1>5, <1>6, <1>7, <1>8, <1>9, <1>10, <1>11, <1>12, <1>13, <1>14
     DEF Next, LoopStep, TimerActs, InboxActs

\* The invariant on which the two theorems about the loop rest.
LoopInv == RowsTyped /\ LoopTyped /\ ProgressFollowsLoop

\* The loop starts with a fresh progress record and no cycle.
LEMMA LoopInit == Init => LoopInv
<1>. SUFFICES ASSUME Init PROVE LoopInv
  OBVIOUS
<1>1. RowsTyped
  BY BoundsAssumption, EmptySeq DEF Init, RowsTyped, RecStates, Jobs
<1>2. cycle \in Cycles
  BY BoundsAssumption, EmptySeq DEF Init, NoCycle, Cycles, RecStates
<1>3. progress \in SyncStates
  <2>1. 0 \in 0 .. MaxItems
    BY BoundsAssumption
  <2>. QED
    BY <2>1 DEF Init, NewSyncState, SyncStates
<1>4. discovery \in Resolvers /\ faults \in 0 .. MaxFaults
  BY BoundsAssumption DEF Init, NewResolver, Resolvers
<1>5. ProgressFollowsLoop
  BY DEF Init, NewSyncState, ProgressFollowsLoop
<1>. QED
  BY <1>1, <1>2, <1>3, <1>4, <1>5 DEF LoopInv, LoopTyped, Init, Places

\* The lemmas above make it inductive.
LEMMA LoopInvStep == LoopInv /\ [Next]_vars => LoopInv'
BY RowsStep, CycleStep, SyncStateStep, SignalsStep, ProgressStep DEF LoopInv, LoopTyped

\* What "ezoss status" shows fits together at any moment.
THEOREM ProgressFits == Spec => []ProgressIsConsistent
<1>1. LoopInv => ProgressIsConsistent
  <2>. SUFFICES ASSUME LoopInv PROVE ProgressIsConsistent
    OBVIOUS
  <2>1. progress.done \in Nat /\ progress.total \in Nat /\ cycle.items \in Nat
    BY BoundsAssumption DEF LoopInv, LoopTyped, SyncStates, Cycles
  <2>. QED
    BY <2>1 DEF LoopInv, LoopTyped, ProgressFollowsLoop, ProgressIsConsistent
<1>. QED
  BY <1>1, LoopInit, LoopInvStep, PTL DEF Spec

-----------------------------------------------------------------------------
(***************************************************************************)
(* The inbox.                                                              *)
(***************************************************************************)

\* What is published is finite.
LEMMA RowsFinite ==
    ASSUME RowsTyped
    PROVE  /\ IsFiniteSet(ChangedRecs) /\ IsFiniteSet(ChangedJobs)
           /\ \A j : IsFiniteSet({j})
           /\ Cardinality(Live(recs)) \in 0 .. Cardinality(Recs)
<1>1. ChangedRecs \subseteq Recs /\ Live(recs) \subseteq Recs
  BY DEF ChangedRecs, Live
<1>2. IsFiniteSet(Jobs) /\ ChangedJobs \subseteq Jobs
  <2>1. Jobs = 1 .. Len(jobs) /\ Len(jobs) \in Int
    BY LenProperties DEF RowsTyped, Jobs
  <2>. QED
    BY <2>1, FS_Interval DEF ChangedJobs
<1>3. Cardinality(Live(recs)) \in 0 .. Cardinality(Recs)
  <2>1. /\ IsFiniteSet(Live(recs)) /\ Cardinality(Live(recs)) <= Cardinality(Recs)
    BY <1>1, RecsAssumption, FS_Subset
  <2>. QED
    BY <2>1, RecsAssumption, FS_CardinalityType
<1>4. IsFiniteSet(ChangedRecs) /\ IsFiniteSet(ChangedJobs)
  BY <1>1, <1>2, RecsAssumption, FS_Subset
<1>. QED
  BY <1>3, <1>4, FS_Singleton

\* What the publication of rows does to the inbox.
LEMMA Published ==
    ASSUME inbox \in Inboxes, NEW rows, IsFiniteSet(rows), Publish(rows)
    PROVE  /\ inbox' \in Inboxes
           /\ inbox'.sub = inbox.sub /\ inbox'.snapshot = inbox.snapshot
           /\ inbox'.notify = inbox.notify /\ inbox'.buffer >= inbox.buffer
           /\ Subscribed /\ rows # {} => inbox'.buffer > 0
<1>1. Cardinality(rows) \in Nat /\ (rows # {} => Cardinality(rows) > 0)
  BY FS_CardinalityType, FS_EmptySet
<1>. DEFINE b == IF inbox.buffer + Cardinality(rows) < BufCap
                 THEN inbox.buffer + Cardinality(rows) ELSE BufCap
<1>2. inbox.buffer \in 0 .. BufCap
  BY DEF Inboxes
<1>3. b \in 0 .. BufCap /\ b >= inbox.buffer /\ (rows # {} => b > 0)
  BY <1>1, <1>2, BoundsAssumption
<1>4. inbox' = IF Subscribed THEN [inbox EXCEPT !.buffer = b] ELSE inbox
  BY DEF Publish
<1>5. inbox.buffer >= inbox.buffer
  BY <1>2, BoundsAssumption
<1>. HIDE DEF b
<1>6. CASE Subscribed
  BY <1>3, <1>4, <1>6 DEF Inboxes
<1>7. CASE ~Subscribed
  BY <1>4, <1>5, <1>7
<1>. QED
  BY <1>6, <1>7

\* When rows change, the inbox is no longer fresh, and nothing else happens to it.
LEMMA Outdated ==
    ASSUME inbox \in Inboxes, reload \in {"idle", "fresh", "stale"}, NEW set, Outdate(set)
    PROVE  /\ inbox' \in Inboxes /\ reload' \in {"idle", "fresh", "stale"} /\ news' = set
           /\ inbox'.sub = inbox.sub /\ inbox'.snapshot = inbox.snapshot
           /\ inbox'.notify = inbox.notify /\ inbox'.buffer = inbox.buffer
BY DEF Outdate, Inboxes

\* How rows move: none is ever taken back.
RecMoves(a, b) == b = a \/ <<a, b>> \in {<<"none", "live">>, <<"live", "gone">>}

JobMoves(a, b) == b = a \/ <<a, b>> \in {<<"queued", "running">>, <<"running", "ended">>}

\* Each step moves each row at most once, and forward.
LEMMA RowsMove ==
    RowsTyped /\ [Next]_vars
      => /\ \A r \in Recs : RecMoves(recs[r], recs'[r])
         /\ \A j \in Jobs : j \in Jobs' /\ JobMoves(jobs[j], jobs'[j])
<1>. DEFINE G == /\ \A r \in Recs : RecMoves(recs[r], recs'[r])
                /\ \A j \in Jobs : j \in Jobs' /\ JobMoves(jobs[j], jobs'[j])
<1>. SUFFICES ASSUME RowsTyped, [Next]_vars PROVE G
  OBVIOUS
<1>. USE DEF RowsTyped, RecMoves, JobMoves, Jobs
<1>1. CASE UNCHANGED <<recs, jobs>>
  BY <1>1
<1>2. ASSUME NEW r \in Recs, Recommend(r) \/ Decide(r) PROVE G
  BY <1>2 DEF Recommend, Decide
<1>3. CASE CreateFixJob
  BY <1>3, JobsAppend DEF CreateFixJob, JobStates
<1>4. ASSUME NEW j \in Jobs, FixStarted(j) PROVE UNCHANGED <<recs, jobs>>
  BY <1>4 DEF FixStarted, db
<1>5. CASE Resolve \/ Snapshot
  BY <1>1, <1>5 DEF Resolve, Snapshot, Quiet, db
<1>6. CASE RepoSynced \/ ItemTriaged \/ AgentsDone
  BY <1>6 DEF RepoSynced, ItemTriaged, AgentsDone, MaySupersede, MayRecommend, Live
<1>7. CASE FixStage
  BY <1>7, JobsExcept DEF FixStage, Quiet, db, JobStates
<1>8. CASE FixDone
  BY <1>8, JobsExcept DEF FixDone, JobStates
<1>9. CASE UNCHANGED vars
  BY <1>1, <1>9 DEF vars, db
<1>. QED
  BY <1>1, <1>2, <1>3, <1>4, <1>5, <1>6, <1>7, <1>8, <1>9, RowsFrame
     DEF Next, LoopStep, TimerActs, InboxActs, db

\* What the inbox keeps stays well typed.
LEMMA ViewStep == RowsTyped /\ ViewTyped /\ [Next]_vars => ViewTyped'
<1>. SUFFICES ASSUME RowsTyped, ViewTyped, [Next]_vars PROVE ViewTyped'
  OBVIOUS
<1>1. Jobs \subseteq Jobs'
  BY RowsMove
<1>. USE <1>1 DEF ViewTyped
<1>2. CASE UNCHANGED view
  BY <1>2 DEF view
<1>3. ASSUME NEW set, set \subseteq Recs \cup Jobs, Outdate(set) PROVE ViewTyped'
  BY <1>3, Outdated
<1>4. ASSUME NEW rows, rows \subseteq Recs \cup Jobs, ByDaemon(rows) \/ ByOthers(rows)
      PROVE  ViewTyped'
  <2>1. CASE ByDaemon(rows)
    <3>1. PICK set \in {{}, news \cup rows} : Outdate(set)
      BY <2>1 DEF ByDaemon
    <3>. QED
      BY <1>3, <1>4, <3>1
  <2>2. CASE ByOthers(rows)
    BY <1>3, <2>2 DEF ByOthers
  <2>. QED
    BY <1>4, <2>1, <2>2
<1>5. ASSUME NEW rows, IsFiniteSet(rows), Publish(rows), UNCHANGED reload,
             news' \subseteq Recs \cup Jobs
      PROVE  ViewTyped'
  BY <1>5, Published
<1>6. ASSUME NEW r \in Recs, Recommend(r) \/ Decide(r) PROVE ViewTyped'
  BY <1>4, <1>6 DEF Recommend, Decide
<1>7. CASE CreateFixJob
  BY <1>4, <1>7 DEF CreateFixJob
<1>8. ASSUME NEW j \in Jobs, FixStarted(j) PROVE ViewTyped'
  BY <1>5, <1>8, RowsFinite DEF FixStarted
<1>9. CASE Resolve \/ Snapshot \/ SyncRepo \/ ListItems \/ TriageItem
  BY <1>2, <1>9 DEF Resolve, Snapshot, SyncRepo, ListItems, TriageItem, Quiet
<1>10. CASE RepoSynced
  BY <1>2, <1>4, <1>10 DEF RepoSynced, MaySupersede, Live
<1>11. CASE FixStage \/ FixDone
  BY <1>2, <1>4, <1>11 DEF FixStage, FixDone, Quiet
<1>12. CASE ItemTriaged \/ AgentsDone
  BY <1>2, <1>4, <1>12 DEF ItemTriaged, AgentsDone, MayRecommend
<1>13. CASE CycleEnds
  BY <1>13 DEF CycleEnds, KeepQuiet
<1>14. CASE EmitRecommendationEvents
  BY <1>5, <1>14, RowsFinite DEF EmitRecommendationEvents, Emit, CannotCompare, KeepQuiet
<1>15. CASE EmitFixJobEvents
  BY <1>5, <1>15, RowsFinite DEF EmitFixJobEvents, Emit, CannotCompare, KeepQuiet
<1>16. CASE BackOff \/ WakeUp \/ OnTick \/ Start \/ TimerActs
  BY <1>2, <1>16 DEF BackOff, WakeUp, OnTick, Start, TimerActs, Ticks, DiscoveryDue, Quiet
<1>17. CASE Stop
  <2>1. 0 \in 0 .. Cardinality(Recs) /\ 0 \in 0 .. BufCap
    BY BoundsAssumption, RowsFinite, RecsAssumption, FS_CardinalityType
  <2>2. [inbox EXCEPT !.sub = "dead", !.snapshot = 0, !.buffer = 0] \in Inboxes
    BY <2>1 DEF Inboxes
  <2>. QED
    BY <1>17, <2>2 DEF Stop
<1>18. CASE OpenInbox
  BY <1>18 DEF OpenInbox, Inboxes
<1>19. CASE Register
  <2>1. Cardinality(Live(recs)) \in 0 .. Cardinality(Recs)
    BY RowsFinite
  <2>2. [inbox EXCEPT !.sub = "snapshot", !.snapshot = Cardinality(Live(recs))] \in Inboxes
    BY <2>1 DEF Inboxes
  <2>3. [inbox EXCEPT !.sub = "dead"] \in Inboxes
    BY DEF Inboxes
  <2>. QED
    BY <1>19, <2>2, <2>3 DEF Register
<1>20. CASE Send
  <2>1. [inbox EXCEPT !.sub = "on"] \in Inboxes
    BY DEF Inboxes
  <2>2. ASSUME inbox.snapshot # 0
        PROVE  [inbox EXCEPT !.snapshot = @ - 1, !.notify = TRUE] \in Inboxes
    <3>1. inbox.snapshot - 1 \in 0 .. Cardinality(Recs)
      BY <2>2, RecsAssumption, FS_CardinalityType DEF Inboxes
    <3>. QED
      BY <3>1 DEF Inboxes
  <2>3. ASSUME inbox.buffer > 0
        PROVE  [inbox EXCEPT !.buffer = @ - 1, !.notify = TRUE] \in Inboxes
    <3>1. inbox.buffer - 1 \in 0 .. BufCap
      BY <2>3, BoundsAssumption DEF Inboxes
    <3>. QED
      BY <3>1 DEF Inboxes
  <2>. QED
    BY <1>20, <2>1, <2>2, <2>3 DEF Send
<1>21. CASE NotifyReload \/ RefreshTick
  BY <1>21 DEF NotifyReload, RefreshTick, Inboxes
<1>22. CASE ApplyReload
  <2>1. (reload = "fresh") \in BOOLEAN
    OBVIOUS
  <2>. QED
    BY <1>22, <2>1 DEF ApplyReload, Inboxes
<1>23. CASE UNCHANGED vars
  BY <1>2, <1>23 DEF vars
<1>. QED
  BY <1>6, <1>7, <1>8, <1>9, <1>10, <1>11, <1>12, <1>13, <1>14, <1>15, <1>16, <1>17, <1>18,
     <1>19, <1>20, <1>21, <1>22, <1>23 DEF Next, LoopStep, InboxStep, TimerActs

\* The inbox is closed at first.
LEMMA ViewInit == Init => ViewTyped
<1>. SUFFICES ASSUME Init PROVE ViewTyped
  OBVIOUS
<1>1. 0 \in 0 .. Cardinality(Recs) /\ 0 \in 0 .. BufCap
  BY BoundsAssumption, RecsAssumption, FS_CardinalityType
<1>2. inbox \in Inboxes
  BY <1>1 DEF Init, ClosedInbox, Inboxes
<1>. QED
  BY <1>2 DEF Init, ViewTyped

\* All of the state is well typed.
THEOREM PollLoopTyped == Spec => []TypeOK
<1>1. Init => LoopInv /\ ViewTyped
  BY LoopInit, ViewInit
<1>2. LoopInv /\ ViewTyped /\ [Next]_vars => (LoopInv /\ ViewTyped)'
  BY LoopInvStep, ViewStep DEF LoopInv
<1>3. LoopInv /\ ViewTyped => TypeOK
  BY DEF LoopInv, TypeOK
<1>. QED
  BY <1>1, <1>2, <1>3, PTL DEF Spec

-----------------------------------------------------------------------------
(***************************************************************************)
(* News.                                                                   *)
(***************************************************************************)

\* A sign of news on its way: an event in the snapshot or the buffer, or a token.
UnderWay == inbox.snapshot > 0 \/ inbox.buffer > 0 \/ inbox.notify

\* No row is further in what the cycle compares with than it is in the database.
SnapshotIsOld ==
    /\ \A r \in Recs : recs[r] = "none" => cycle.recs[r] = "none"
    /\ \A j \in DOMAIN cycle.jobs :
          /\ j \in Jobs
          /\ jobs[j] = "queued" => cycle.jobs[j] = "queued"
          /\ jobs[j] = "running" => cycle.jobs[j] # "ended"

\* News of which the inbox has no sign is of rows that the cycle will find changed, and
\* there is none between cycles.
NewsToCome ==
    Subscribed /\ ~UnderWay
      => /\ news \subseteq ChangedRecs \cup ChangedJobs
         /\ pc \in {"sync", "repo"} => news \cap Recs \subseteq Live(cycle.recs)
         /\ pc = "emitJobs" => news \subseteq ChangedJobs
         /\ pc \in {"resolve", "snapshot", "select", "backoff", "stopped"} => news = {}

\* A cycle compares with rows it has read, or, between cycles, with none.
LEMMA CycleCompares ==
    ASSUME cycle \in Cycles, [Next]_vars
    PROVE  \/ cycle'.recs = cycle.recs /\ cycle'.jobs = cycle.jobs
           \/ cycle'.recs = NoCycle.recs /\ cycle'.jobs = NoCycle.jobs
           \/ cycle'.recs = recs /\ cycle'.jobs = jobs /\ UNCHANGED <<recs, jobs>>
<1>. USE DEF Cycles
<1>1. CASE UNCHANGED <<pc, cycle, progress>>
  BY <1>1
<1>2. CASE Resolve
  BY <1>2 DEF Resolve, WorkOn, NoCycle
<1>3. CASE Snapshot
  BY <1>3 DEF Snapshot, Quiet, db
<1>4. CASE SyncRepo \/ FixDone \/ ItemTriaged \/ AgentsDone \/ CycleEnds \/ WakeUp \/ OnTick
           \/ Start \/ Stop
  BY <1>4 DEF SyncRepo, FixDone, ItemTriaged, AgentsDone, CycleEnds, WakeUp, OnTick, Start, Stop
<1>5. CASE RepoSynced \/ FixStage \/ ListItems \/ TriageItem
  BY <1>5 DEF RepoSynced, FixStage, ListItems, TriageItem
<1>6. CASE EmitRecommendationEvents \/ EmitFixJobEvents \/ BackOff
  BY <1>6 DEF EmitRecommendationEvents, EmitFixJobEvents, BackOff, CannotCompare
<1>. QED
  BY <1>1, <1>2, <1>3, <1>4, <1>5, <1>6, LoopFrame
     DEF Next, LoopStep, TimerActs, InboxActs

\* It stays behind the database.
LEMMA SnapshotStep ==
    RowsTyped /\ cycle \in Cycles /\ SnapshotIsOld /\ [Next]_vars => SnapshotIsOld'
<1>. SUFFICES ASSUME RowsTyped, cycle \in Cycles, SnapshotIsOld, [Next]_vars
              PROVE  SnapshotIsOld'
  OBVIOUS
<1>1. /\ \A r \in Recs : RecMoves(recs[r], recs'[r])
      /\ \A j \in Jobs : j \in Jobs' /\ JobMoves(jobs[j], jobs'[j])
  BY RowsMove
<1>2. CASE cycle'.recs = cycle.recs /\ cycle'.jobs = cycle.jobs
  BY <1>1, <1>2 DEF SnapshotIsOld, RecMoves, JobMoves
<1>3. CASE cycle'.recs = NoCycle.recs /\ cycle'.jobs = NoCycle.jobs
  <2>1. DOMAIN NoCycle.jobs = {} /\ \A r \in Recs : NoCycle.recs[r] = "none"
    BY EmptySeq DEF NoCycle
  <2>. QED
    BY <1>3, <2>1 DEF SnapshotIsOld
<1>4. CASE cycle'.recs = recs /\ cycle'.jobs = jobs /\ UNCHANGED <<recs, jobs>>
  BY <1>4 DEF SnapshotIsOld, Jobs
<1>. QED
  BY <1>2, <1>3, <1>4, CycleCompares

\* What the cycle will find changed it will still find changed, unless somebody else
\* decides on the recommendation.
LEMMA JobsStayChanged ==
    ASSUME RowsTyped, [Next]_vars, SnapshotIsOld, cycle'.jobs = cycle.jobs
    PROVE  /\ ChangedJobs \subseteq ChangedJobs'
           /\ \A j \in Jobs : jobs'[j] # jobs[j] => j \in ChangedJobs'
<1>1. \A j \in Jobs : j \in Jobs' /\ JobMoves(jobs[j], jobs'[j])
  BY RowsMove
<1>. SUFFICES ASSUME NEW j \in Jobs, j \in ChangedJobs \/ jobs'[j] # jobs[j]
              PROVE  j \in ChangedJobs'
  BY DEF ChangedJobs
<1>2. j \in Jobs' /\ JobMoves(jobs[j], jobs'[j])
  BY <1>1
<1>3. CASE j \notin DOMAIN cycle.jobs
  BY <1>2, <1>3 DEF ChangedJobs
<1>4. CASE j \in DOMAIN cycle.jobs
  <2>1. /\ jobs[j] = "queued" => cycle.jobs[j] = "queued"
        /\ jobs[j] = "running" => cycle.jobs[j] # "ended"
    BY <1>4 DEF SnapshotIsOld
  <2>2. jobs'[j] # cycle.jobs[j]
    BY <1>2, <1>4, <2>1 DEF ChangedJobs, JobMoves
  <2>. QED
    BY <1>2, <2>2 DEF ChangedJobs
<1>. QED
  BY <1>3, <1>4

\* What is under way to the inbox stays so.
SameSignals ==
    /\ inbox'.sub = inbox.sub /\ inbox'.snapshot = inbox.snapshot
    /\ inbox'.notify = inbox.notify /\ inbox'.buffer = inbox.buffer

\* The cycle goes on comparing with the same rows.
SameCycle == cycle'.recs = cycle.recs /\ cycle'.jobs = cycle.jobs

\* The places of the loop where no cycle has read rows that it will compare with.
BetweenCycles == pc \in {"resolve", "snapshot", "select", "backoff", "stopped"}

\* Between cycles there is nothing to come, and so nothing that a step could disturb.
LEMMA NewsBetweenCycles ==
    ASSUME NewsToCome, BetweenCycles, SameSignals, UNCHANGED news
    PROVE  NewsToCome'
BY DEF NewsToCome, BetweenCycles, SameSignals, Subscribed, UnderWay

\* Within a cycle, news are added of rows that will be found changed.
LEMMA NewsOfCycle ==
    ASSUME NewsToCome, SameSignals, cycle'.recs = cycle.recs,
           ~BetweenCycles, ~BetweenCycles', pc' # "emitJobs",
           NEW rows, news' \subseteq news \cup rows,
           Subscribed /\ ~UnderWay => news' \subseteq (ChangedRecs \cup ChangedJobs)',
           pc' \in {"sync", "repo"}
             => pc \in {"sync", "repo"} /\ rows \cap Recs \subseteq Live(cycle.recs)
    PROVE  NewsToCome'
BY DEF NewsToCome, BetweenCycles, SameSignals, Subscribed, UnderWay

\* What others do to rows is no news, and takes none of the news from the comparison.
LEMMA NewsOfOthers ==
    ASSUME NewsToCome, SameSignals, cycle'.recs = cycle.recs, UNCHANGED pc,
           news' \subseteq news, news' \cap ChangedRecs \subseteq ChangedRecs',
           ChangedJobs \subseteq ChangedJobs'
    PROVE  NewsToCome'
BY DEF NewsToCome, SameSignals, Subscribed, UnderWay

\* News are lost sight of at no step.
LEMMA NewsStep ==
    LoopInv /\ ViewTyped /\ SnapshotIsOld /\ NewsToCome /\ [Next]_vars => NewsToCome'
<1>. SUFFICES ASSUME LoopInv, ViewTyped, SnapshotIsOld, NewsToCome, [Next]_vars
              PROVE  NewsToCome'
  OBVIOUS
<1>1. RowsTyped /\ cycle \in Cycles /\ inbox \in Inboxes
      /\ reload \in {"idle", "fresh", "stale"}
  BY DEF LoopInv, LoopTyped, ViewTyped
<1>2. ASSUME ~Subscribed' \/ news' = {} \/ UnderWay' PROVE NewsToCome'
  BY <1>2 DEF NewsToCome
<1>3. ASSUME SameCycle
      PROVE  /\ ChangedJobs \subseteq ChangedJobs'
             /\ \A j \in Jobs : jobs'[j] # jobs[j] => j \in ChangedJobs'
  BY <1>1, <1>3, JobsStayChanged DEF SameCycle
<1>4. ASSUME NEW rows, ByDaemon(rows)
      PROVE  SameSignals /\ news' \subseteq news \cup rows
  BY <1>1, <1>4, Outdated DEF ByDaemon, SameSignals
<1>5. ASSUME NEW rows, ByOthers(rows) PROVE SameSignals /\ news' = news \ rows
  BY <1>1, <1>5, Outdated DEF ByOthers, SameSignals
<1>6. ASSUME UNCHANGED view PROVE SameSignals /\ UNCHANGED news
  BY <1>6 DEF view, SameSignals
<1>7. ASSUME NEW r \in Recs, Recommend(r) \/ Decide(r) PROVE NewsToCome'
  <2>1. UNCHANGED <<pc, cycle, jobs>> /\ ByOthers({r})
    BY <1>7 DEF Recommend, Decide, loop
  <2>2. \A x \in Recs \ {r} : recs'[x] = recs[x]
    BY <1>1, <1>7 DEF Recommend, Decide, RowsTyped
  <2>3. news' \cap ChangedRecs \subseteq ChangedRecs'
    BY <1>5, <2>1, <2>2 DEF ChangedRecs, Live
  <2>. QED
    BY <1>3, <1>5, <2>1, <2>3, NewsOfOthers DEF SameCycle
<1>8. CASE CreateFixJob
  <2>1. UNCHANGED <<pc, cycle, recs>> /\ ByOthers({})
    BY <1>8 DEF CreateFixJob, loop
  <2>. QED
    BY <1>3, <1>5, <2>1, NewsOfOthers DEF SameCycle, ChangedRecs
<1>9. ASSUME NEW j \in Jobs, FixStarted(j) PROVE NewsToCome'
  <2>1. CASE Subscribed
    BY <1>1, <1>2, <1>9, <2>1, RowsFinite, Published DEF FixStarted, UnderWay
  <2>2. CASE ~Subscribed
    BY <1>2, <1>9, <2>2 DEF FixStarted
  <2>. QED
    BY <2>1, <2>2
<1>10. CASE Resolve \/ Snapshot \/ BackOff \/ WakeUp \/ OnTick \/ Start \/ DiscoveryDue
  <2>1. BetweenCycles /\ UNCHANGED view
    BY <1>10 DEF Resolve, Snapshot, BackOff, WakeUp, OnTick, Start, DiscoveryDue, Quiet,
                 BetweenCycles
  <2>. QED
    BY <1>6, <2>1, NewsBetweenCycles
<1>11. ASSUME UNCHANGED <<recs, jobs, view>>, SameCycle, ~BetweenCycles, ~BetweenCycles',
              pc # "emitJobs", pc' # "emitJobs",
              pc' \in {"sync", "repo"} => pc \in {"sync", "repo"}
       PROVE  NewsToCome'
  <2>1. Subscribed /\ ~UnderWay => news \subseteq (ChangedRecs \cup ChangedJobs)'
    BY <1>11 DEF NewsToCome, ChangedRecs, ChangedJobs, Jobs, SameCycle
  <2>. QED
    BY <1>6, <1>11, <2>1, NewsOfCycle DEF SameCycle
<1>12. CASE SyncRepo \/ ListItems \/ TriageItem
  <2>1. SameCycle
    BY <1>1, <1>12 DEF SyncRepo, ListItems, TriageItem, SameCycle, Cycles
  <2>2. UNCHANGED <<recs, jobs, view>>
    BY <1>12 DEF SyncRepo, ListItems, TriageItem, Quiet, db
  <2>. QED
    BY <1>11, <1>12, <2>1, <2>2 DEF SyncRepo, ListItems, TriageItem, GoTo, BetweenCycles
<1>13. CASE RepoSynced
  <2>1. SameCycle
    BY <1>1, <1>13 DEF RepoSynced, SameCycle, Cycles
  <2>2. pc = "repo" /\ pc' = "sync" /\ UNCHANGED jobs
    BY <1>13 DEF RepoSynced, GoTo
  <2>3. CASE UNCHANGED <<recs, view>>
    BY <1>11, <2>1, <2>2, <2>3 DEF BetweenCycles
  <2>4. ASSUME NEW r \in Live(recs), recs' = [recs EXCEPT ![r] = "gone"],
               ByDaemon({r} \cap Live(cycle.recs))
        PROVE  NewsToCome'
    <3>1. ChangedRecs \cap Live(cycle.recs) \subseteq ChangedRecs'
      BY <1>1, <2>1, <2>4 DEF ChangedRecs, Live, SameCycle, RowsTyped
    <3>2. {r} \cap Live(cycle.recs) \subseteq ChangedRecs'
      BY <1>1, <2>1, <2>4 DEF ChangedRecs, Live, SameCycle, RowsTyped
    <3>3. Subscribed /\ ~UnderWay => news' \subseteq (ChangedRecs \cup ChangedJobs)'
      <4>1. ChangedRecs \subseteq Recs
        BY DEF ChangedRecs, Live
      <4>. QED
        BY <1>3, <1>4, <2>1, <2>2, <2>4, <3>1, <3>2, <4>1 DEF NewsToCome
    <3>. QED
      BY <1>4, <2>1, <2>2, <2>4, <3>3, NewsOfCycle DEF SameCycle, BetweenCycles
  <2>. QED
    BY <1>13, <2>3, <2>4 DEF RepoSynced, MaySupersede
<1>14. CASE FixStage \/ FixDone
  <2>1. SameCycle
    BY <1>1, <1>14 DEF FixStage, FixDone, SameCycle, Cycles
  <2>2. ~BetweenCycles /\ ~BetweenCycles' /\ {pc, pc'} \subseteq {"sync", "work", "agents", "end"}
        /\ pc' # "sync" /\ UNCHANGED recs
    BY <1>14 DEF FixStage, FixDone, GoTo, Quiet, db, BetweenCycles
  <2>3. CASE UNCHANGED <<recs, jobs, view>>
    BY <1>11, <2>1, <2>2, <2>3
  <2>4. ASSUME NEW j \in Jobs, jobs'[j] # jobs[j], ByDaemon({j}) PROVE NewsToCome'
    <3>1. j \in ChangedJobs' /\ ChangedJobs \subseteq ChangedJobs'
      BY <1>3, <2>1, <2>4
    <3>2. Subscribed /\ ~UnderWay => news' \subseteq (ChangedRecs \cup ChangedJobs)'
      BY <1>4, <2>1, <2>2, <2>4, <3>1 DEF NewsToCome, ChangedRecs, SameCycle
    <3>. QED
      BY <1>4, <2>1, <2>2, <2>4, <3>2, NewsOfCycle DEF SameCycle
  <2>. QED
    BY <1>1, <1>14, <2>3, <2>4 DEF FixStage, FixDone, Quiet, db, RowsTyped, Jobs
<1>15. CASE ItemTriaged \/ AgentsDone
  <2>1. SameCycle /\ UNCHANGED jobs
    BY <1>15 DEF ItemTriaged, AgentsDone, SameCycle
  <2>2. ~BetweenCycles /\ ~BetweenCycles' /\ {pc, pc'} \subseteq {"items", "item", "end"}
    BY <1>15 DEF ItemTriaged, AgentsDone, GoTo, BetweenCycles
  <2>3. CASE UNCHANGED <<recs, view>>
    BY <1>11, <2>1, <2>2, <2>3
  <2>4. ASSUME NEW r \in Recs, recs[r] = "none", recs' = [recs EXCEPT ![r] = "live"],
               ByDaemon({r})
        PROVE  NewsToCome'
    <3>1. cycle.recs[r] = "none"
      BY <2>4 DEF SnapshotIsOld
    <3>2. ChangedRecs \cup {r} \subseteq ChangedRecs'
      BY <1>1, <2>1, <2>4, <3>1 DEF ChangedRecs, Live, SameCycle, RowsTyped
    <3>3. Subscribed /\ ~UnderWay => news' \subseteq (ChangedRecs \cup ChangedJobs)'
      BY <1>3, <1>4, <2>1, <2>4, <3>2 DEF NewsToCome
    <3>. QED
      BY <1>4, <2>1, <2>2, <2>4, <3>3, NewsOfCycle DEF SameCycle
  <2>. QED
    BY <1>15, <2>3, <2>4 DEF ItemTriaged, AgentsDone, MayRecommend
<1>16. ASSUME KeepQuiet, UNCHANGED <<recs, jobs, inbox, cycle>>, ~BetweenCycles
       PROVE  NewsToCome'
  <2>1. news' = news \ (ChangedRecs \cup ChangedJobs) /\ pc' = "backoff"
    BY <1>16 DEF KeepQuiet, GoTo
  <2>. QED
    BY <1>16, <2>1 DEF NewsToCome, Subscribed, UnderWay
<1>17. CASE CycleEnds
  <2>1. UNCHANGED <<recs, jobs, inbox, cycle>> /\ ~BetweenCycles /\ pc = "end"
    BY <1>17 DEF CycleEnds, db, BetweenCycles
  <2>2. CASE KeepQuiet
    BY <1>16, <2>1, <2>2
  <2>3. CASE GoTo("emitRecs") /\ UNCHANGED news
    BY <2>1, <2>3 DEF GoTo, NewsToCome, Subscribed, UnderWay, ChangedRecs, ChangedJobs, Jobs
  <2>. QED
    BY <1>17, <2>2, <2>3 DEF CycleEnds
<1>18. CASE EmitRecommendationEvents
  <2>1. UNCHANGED <<recs, jobs>> /\ pc = "emitRecs" /\ ~BetweenCycles
    BY <1>18 DEF EmitRecommendationEvents, db, BetweenCycles
  <2>2. CASE CannotCompare
    BY <1>16, <2>1, <2>2 DEF CannotCompare
  <2>3. CASE Publish(ChangedRecs) /\ UNCHANGED <<news, cycle>> /\ pc' = "emitJobs"
    <3>1. /\ inbox'.sub = inbox.sub /\ inbox'.snapshot = inbox.snapshot
          /\ inbox'.notify = inbox.notify /\ inbox'.buffer >= inbox.buffer
          /\ Subscribed /\ ChangedRecs # {} => inbox'.buffer > 0
      BY <1>1, <2>3, RowsFinite, Published
    <3>2. inbox.buffer \in Nat /\ inbox'.buffer \in Nat
      BY <1>1, <2>3, RowsFinite, Published, BoundsAssumption DEF Inboxes
    <3>3. Subscribed' /\ ~UnderWay' => Subscribed /\ ~UnderWay /\ ChangedRecs = {}
      BY <3>1, <3>2 DEF Subscribed, UnderWay
    <3>. QED
      BY <2>1, <2>3, <3>3 DEF NewsToCome, ChangedJobs, ChangedRecs, Jobs
  <2>. QED
    BY <1>18, <2>2, <2>3 DEF EmitRecommendationEvents, Emit, GoTo
<1>19. CASE EmitFixJobEvents
  <2>1. UNCHANGED <<recs, jobs>> /\ pc = "emitJobs" /\ ~BetweenCycles
    BY <1>19 DEF EmitFixJobEvents, db, BetweenCycles
  <2>2. CASE CannotCompare
    BY <1>16, <2>1, <2>2 DEF CannotCompare
  <2>3. CASE Publish(ChangedJobs) /\ UNCHANGED news
    <3>1. /\ inbox'.sub = inbox.sub /\ inbox'.snapshot = inbox.snapshot
          /\ inbox'.notify = inbox.notify /\ inbox'.buffer >= inbox.buffer
          /\ Subscribed /\ ChangedJobs # {} => inbox'.buffer > 0
      BY <1>1, <2>3, RowsFinite, Published
    <3>2. inbox.buffer \in Nat /\ inbox'.buffer \in Nat
      BY <1>1, <2>3, RowsFinite, Published, BoundsAssumption DEF Inboxes
    <3>3. Subscribed' /\ ~UnderWay' => Subscribed /\ ~UnderWay /\ ChangedJobs = {}
      BY <3>1, <3>2 DEF Subscribed, UnderWay
    <3>. QED
      BY <1>2, <2>1, <2>3, <3>3 DEF NewsToCome
  <2>. QED
    BY <1>19, <2>2, <2>3 DEF EmitFixJobEvents, Emit
<1>20. CASE Ticks \/ ApplyReload \/ UNCHANGED vars
  <2>1. UNCHANGED <<recs, jobs, pc, cycle, news>>
    BY <1>20 DEF Ticks, ApplyReload, vars, Quiet, db, loop, view
  <2>2. SameSignals
    BY <1>1, <1>20 DEF Ticks, ApplyReload, vars, Quiet, view, SameSignals, Inboxes
  <2>. QED
    BY <2>1, <2>2, NewsOfOthers DEF ChangedRecs, ChangedJobs, Jobs
<1>21. CASE Stop
  <2>1. ~Subscribed'
    BY <1>1, <1>21 DEF Stop, Subscribed, Inboxes
  <2>. QED
    BY <1>2, <2>1
<1>22. CASE OpenInbox
  <2>1. ~Subscribed'
    BY <1>1, <1>22 DEF OpenInbox, Subscribed, Inboxes
  <2>. QED
    BY <1>2, <2>1
<1>23. CASE Register
  <2>1. ~Subscribed' \/ news' = {}
    BY <1>1, <1>23 DEF Register, Subscribed, Inboxes
  <2>. QED
    BY <1>2, <2>1
<1>24. CASE Send
  <2>1. CASE inbox' = [inbox EXCEPT !.sub = "on"] /\ inbox.sub = "snapshot"
    BY <1>1, <1>24, <2>1 DEF Send, Inboxes, NewsToCome, Subscribed, UnderWay, ChangedRecs,
                             ChangedJobs, Jobs, db, loop
  <2>2. CASE UnderWay'
    BY <1>2, <2>2
  <2>. QED
    BY <1>1, <1>24, <2>1, <2>2 DEF Send, Inboxes, UnderWay
<1>25. CASE NotifyReload \/ RefreshTick
  BY <1>2, <1>25 DEF NotifyReload, RefreshTick
<1>. QED
  BY <1>7, <1>8, <1>9, <1>10, <1>12, <1>13, <1>14, <1>15, <1>17, <1>18, <1>19, <1>20, <1>21,
     <1>22, <1>23, <1>24, <1>25 DEF Next, LoopStep, InboxStep

\* Although events are dropped and tokens coalesce, news never get out of sight of an inbox
\* that is subscribed.
THEOREM NewsIsNotLost == Spec => []NewsIsUnderWay
<1>. DEFINE NInv == LoopInv /\ ViewTyped /\ SnapshotIsOld /\ NewsToCome
<1>1. Init => SnapshotIsOld /\ NewsToCome
  BY EmptySeq DEF Init, NoCycle, SnapshotIsOld, NewsToCome, ClosedInbox, Subscribed
<1>2. NInv /\ [Next]_vars => NInv'
  <2>1. NInv => RowsTyped /\ cycle \in Cycles
    BY DEF LoopInv, LoopTyped
  <2>. QED
    BY <2>1, LoopInvStep, ViewStep, SnapshotStep, NewsStep
<1>3. NInv => NewsIsUnderWay
  BY DEF NewsToCome, UnderWay, NewsIsUnderWay
<1>4. Init => NInv
  BY <1>1, LoopInit, ViewInit
<1>. HIDE DEF NInv
<1>. QED
  BY <1>2, <1>3, <1>4, PTL DEF Spec

=============================================================================
