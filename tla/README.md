# A TLA+ model of ezoss

ezoss triages the GitHub issues and pull requests of a maintainer. A daemon
polls GitHub, runs a coding agent on what needs attention and stores its
recommendations in a SQLite database; an inbox shows them, and approving one
edits labels, posts comments, closes, merges, or queues a fix job that the
daemon runs in a worktree. This directory holds TLA+ modules of the parts of it
where several processes, crashes and slow services meet, TLC configurations that
check them on small instances, and proofs of the main safety properties for
instances of any size.

Every definition follows the Go code; `PROJECT.json` names the lines. Paths below
are relative to `internal/` of the repository.

## The system

| Component | State | Operations | What is hard |
| --- | --- | --- | --- |
| fix_jobs table (`db/fix_job.go`) | status, phase, PR URL, times of each job | create (superseding), claim, update, reclaim, complete | updates by id alone, several processes |
| fix stage (`daemon/fix.go`) | what it has listed, the job it runs | reclaim, detect PRs, refresh items, claim, run, record | crash or lost write at every step |
| fix runner (`cli/root.go`, `pr/pr.go`) | worktree, branch | prepare, agent, commit, push, open a PR, fall back | effects without answers, PRs that come late |
| poll cycle (`daemon/poll.go`) | items, repositories | sync, reconcile, refresh, probe, contributor sweep, agents, stale check | reads before gh calls, writes after them |
| recommendations (`db/recommendation.go`) | live and superseded recommendations | insert or discard, supersede | concurrent cycles |
| approvals, inbox actions (`db/approval.go`, `cli/root.go`) | approvals, the local gate of an item | approve, dismiss, rerun | partial failure, stale entries |
| manual triage (`cli/root.go`) | a poller of one item | triage, rerun | runs the same cycle beside the daemon's |
| daemon life cycle (`daemon/start.go`, `stop.go`, `status.go`) | pid file, signal channel | start, stop, restart, poll, back off | signals taken by a back-off, two starts at once, crashes |
| service managers (`daemon/service*.go`) | unit file, the managed process | install, start, stop, respawn | a daemon it did not start |
| self-update (`update/`) | the executable | check, download, replace, reset the daemon | a daemon that stays on the old release |
| poll loop (`daemon/start.go`, `cli/root.go`) | wake and tick channels, discovered repositories | cycle, wake, tick, back off | coalesced wake-ups, failed discovery |
| IPC and events (`ipc/`, `daemon/start.go`) | subscribers and buffers | subscribe, publish, fix start | full buffers, lost events |
| sync state (`daemon/syncstate.go`) | progress of the cycle | hooks, snapshot | cycles that end early |
| inbox TUI (`tui/tui.go`) | entries, cursor, filter, pending actions | keys, reload, notifications | reloads and results that come late |
| checkouts (`cli/root.go`) | a lock file per repository | acquire, remove a stale lock, release | check, then act |
| GitHub client, agents, triage parsing, configuration, wizard, doctor, telemetry, installation | - | - | I/O and text |

The daemon, the commands and the inbox share the database, a socket, and a few
files: the pid file, the locks of the checkouts, the executable. The inbox and the `fix` command ask the daemon through IPC to create a
fix job and create it themselves when it is not running; the daemon tells
subscribers of changes. SQLite makes each statement or transaction atomic. There
is no busy timeout (`db/db.go`), so that any write may fail because another
process is writing; several callers drop that error.

`PROJECT.json` lists every component with what is modelled of it, and every
hazard found while reading, with the properties that cover it or the reason why
none does yet.

## Modules

| Module | Models | Notes |
| --- | --- | --- |
| `FixJobs` | the `fix_jobs` table | one operator per SQL transaction; no processes |
| `FixStage` | the daemon's fix stage and runner, requests, the contributor sweep, the no-mistakes pipeline, crashes | extends `FixJobs` |
| `FixJobLifecycle` | what a job's user is promised | abstract: state per job, no daemon |
| `FixStageProperties` | properties of `FixStage`, and the refinement mapping to `FixJobLifecycle` | |
| `FixStageProofs` | proofs about `FixStage` | |
| `MCFixStage` | model values for TLC | three configurations |
| `Triage` | the poll cycle of the daemon and that of a manual run, the inbox, GitHub | |
| `TriageProperties` | properties of `Triage` | |
| `TriageProofs` | proofs about `Triage` | |
| `MCTriage` | starts with handled and with new issues for the liveness run | three configurations |
| `CheckoutLock` | the lock file of an investigation checkout | a specification of its own, and part of `Host` |
| `Host` | the processes of a machine: daemons, commands, service manager, triage, others that get a used pid | extends `CheckoutLock` |
| `HostProofs` | proofs about `Host` | extends `Host` |
| `PollLoop` | the poll loop, wake-ups, discovery, sync state, events, an inbox that follows | a cycle's effect on rows is abstract here, detailed in `Triage` and `FixStage` |
| `PollLoopProofs` | proofs about `PollLoop` | extends `PollLoop` |
| `Lists` | the part of a list that passes a test | extended by `Inbox` |
| `ListTheorems` | lemmas about `Lists`, with induction over a list's length | |
| `Inbox` | a session of the inbox and the work its keys start | a fix job is abstract here, detailed in `FixJobs` |
| `InboxProofs` | the types of `Inbox` | extends `Inbox` and `ListTheorems` |
| `InboxSafetyProofs` | the other proofs about `Inbox` | extends `InboxProofs` |
| `MCHost`, `MCPollLoop`, `MCInbox` | values for TLC | three, one and one configurations |

Operators whose names start with `Mut` are mistaken variants of the definition
that follows them. They show that the properties can fail: with the variant in
the place of the definition TLC finds the property violated.

### FixJobs and FixStage

A row has the item, the creation mode, status and phase, whether its message is
"waiting for manual review" (which the code compares with), and whether it is
older than the reclaim's cutoff. Rows are numbered by insertion; `created_at` has a
resolution of a second, and rows of one second are ordered by insertion here.

The daemon is one process with a program counter: `idle`, `list`, `detect`,
`complete`, `claim`, one value per phase of a run, and `record`. Each database
statement and each gh or git call is a step, so a request, a crash or the passing
of the timeout may come between any two:

- `RequestFix` is `createFixJobFromIPC` or `queueApprovedFixJob`: both check the
  item and call `CreateFixJob`, one transaction that supersedes the item's queued
  or waiting job, or refuses because an agent is at work on it.
- `ReclaimStale`, `ListWaiting`, `DetectFound`, `DetectNothing`,
  `CompleteDetected`, `EndDetect`, `Claim`, `ClaimNothing` are `runFixStage` and
  `detectWaitingFixPRs` in their order. The list of waiting jobs is read once.
- `Advance` is one stage of `RunFix` or `runContribFix` together with the report
  of the next phase, whose error the code ignores. `LeaveForReview`,
  `PushToHead`, `OpenWithGH`, `OpenWithNoMistakes`, `OpenNothing` are the ways a
  run ends well; `RunFails` is every other way, with or without an effect on
  GitHub (`LateEffect`).
- `Record` is the last update; `PipelineOpensPR` and `PipelineGivesUp` are what
  no-mistakes does on its own.
- `Crash` returns the daemon to `down` and forgets all it held in memory.
- A claim whose row cannot be read back is the same as a claim and a failed run
  whose failure was not written.

`LostWrites`, `LateErrors` and `MaxCrashes` switch the faults, so that a property
can be stated for the fault-free case too.

`FixJobLifecycle` gives a job the states queued, working, waiting, succeeded,
failed and cancelled. The mapping reads `running` as waiting in phase
`waiting_for_pr` and as working otherwise. The specification says that an item
has one open job at most, that an ended job stays as it is, that a working job
is never superseded, and that a waiting job never fails.

### Triage

One configured repository with issues of others. GitHub keeps for an issue
whether it is open, whether it has `ezoss/triaged`, `updated_at`, and from the
timeline when the label was added last and when somebody else was active last.
A row keeps state, `gh_triaged`, `last_event_at` and `last_self_activity_at`.

Two processes run cycles: the daemon again and again, and manual triage or rerun
(`newManualTriagePoller`), one at a time. `proc` holds for each the stage, what is
left to do in it, and what was listed or read and is still to be written: listing
then upserting (`ListNeedingTriage`, `SyncItem`), reading and asking GitHub then
writing (`ReconcileRead`, `ReconcileWrite`; `RefreshRead`, `RefreshWrite`;
`ProbeRead`, `ProbeWrite`). An agent's run lies between `BeginAgents` and
`Recommend` or `Discard`. The inbox acts in four steps: label edit, comment or
close, approval row, local gate; any of them may fail and leave the rest undone.
That gate is read and written within one step, as are two consecutive statements
about one issue. GitHub changes by `Activity`, `QuietActivity` (a merged PR refers
to the issue and `updated_at` stays), `Unlabel` and `CloseByOther`.

Times are GitHub's, and the local clock is in step with it; `created_at_nanos`
against the start of a cycle is the position of the recommendation in the order of
insertion against the number of recommendations at that start.

A manual run lists no triaged items and still stamps the repository's refresh time
(`daemon/poll.go:1122`), so that the daemon's next query, for changes after that time,
misses activity before it, also where that moved `updated_at`. The hourly probe makes up
for it where it is on: `triage_live` has such a run of another issue.

`overtaken` and `newer` in `proc` are not in the code: they remember which cycle
began later, for the properties.

### CheckoutLock and Host

`CheckoutLock` has the file (who created it, and is the pid in it) and, for each
process, where it is in `acquireInvestigationCheckoutLock`: open exclusively, write
the owner, judge the file that is in the way, remove it. `judge` and `remove` are
two steps, as they are in the code.

In `Host` a process has a stage: a daemon is booting (read the pid file, remove a
stale one, create, fill, listen), polling (in a cycle, in the select, in a back-off)
or closing; or it is a triage command, or a program that has nothing to do with
ezoss. `Status` is `ReadStatus`. A process that dies leaves its files as they are;
they then name the value `Dead`, since pids of dead processes need not be told apart
until one is used again. The code knows a dead process by asking whether some
process has its pid, so `PidOf` may give a new process, a daemon or any other, the
pid that the pid file, the lock or both still have (`MaxReuses`).

A command of the user is one at a time, with a program counter, and the next may come
as soon as the last one is reported, whatever the daemon it launched has done so far.
`StopWithOptions` reads, signals, waits, looks, kills after the grace period and
removes the file. Between that look and the kill (`GraceOver`, `Kill`) the process may
end; then the kill fails, and with it the command, and the file stays as it is. A
managed daemon is stopped and started by the service manager; an update checks,
downloads, replaces and resets. Nobody reads the signal channel during a cycle; the
back-off takes a signal from it and the loop goes on, so that the grace period is what
ends such a daemon.

Two variables are history, which no step reads. `raced` says that two processes have
been deciding about the pid file at the same time: each had read it and was still to
write, remove or act on what it read. `unseen` has the daemons whose pid was not in the
file yet when a stop or a reset read it.

What the model shows of the code, and what the properties therefore except:

- A write of the pid file that is interrupted leaves an empty file. `ReadStatus`
  then fails, and so does every start, stop and respawn until the file is removed: the service
  manager respawns daemons that all die of it.
- On the way out the IPC server waits for the handlers of its connections; a client
  that keeps a connection open without a word keeps the daemon from ending.
- "daemon start" does not wait for the daemon, and the pid file is checked in one step
  and written in another: two daemons may both get past the check and poll
  (`host_double_start`). `PollingIsReachable` says that nothing but such a race, which
  sets `raced`, makes a polling daemon unreachable.
- A stop or an update just after a start does not see the daemon, whose pid file is not
  there yet, and reports success; after the update that daemon runs the old release.
  `UpdateTakesEffect` and `StopLeavesNobody` speak of the daemons a command can be about
  (`Found`).
- A pid that is used again by a process of another kind is taken for the daemon's or for
  the lock owner's: no daemon starts, or no triage, while that process lives, and a stop
  signals it. After a reboot the process that waits for the lock may itself have the pid
  in it. `DeadOwnerBlocksNobody` and `ServiceKeepsDaemonUp` except just this (`Occupied`).
- With a unit installed, stop and update act on the managed daemon only, and report
  success also when another daemon runs. `Found` says so.
- `waitForDaemonReady` is content with any live pid in the file.
- A daemon whose executable was replaced under it has another path, and later updates
  are refused.

### PollLoop

The loop is a program counter through `runPollLoop`: resolve the repositories, read
the rows, sync repository by repository, fix stage, agents, end of the cycle,
events, select. A cycle changes rows as `Triage` and `FixStage` say; here it ends
or writes a recommendation, or runs the oldest job. `BeginCycle` to `EndCycle` are
the methods of `SyncState`. `Publish` drops what does not fit into a subscriber's
buffer; all events an inbox subscribes to make it reload, so they are counted.
`Register` comes after the server has answered, `Send` first passes the snapshot on,
then the buffer. The inbox holds one notification and reloads; `RefreshTick` is the
reload every 5 seconds, which may overtake the other.

`news` is not in the code: it is the rows the daemon has changed and the inbox has
not read since. `seen` is the jobs that need no wake-up.

- A recommendation that another process wrote during a cycle, and that this cycle
  supersedes, yields no event.
- A cycle that ends in an error publishes nothing of what it did.
- Until the discovery interval has passed after a failed first discovery, cycles poll
  the static repositories only.
- An open inbox does not subscribe again when its daemon is gone; the timed reload is
  what remains.
- Without repositories the loop idles (`daemon/start.go:301`), also where contributor
  items are to be tracked; the model starts with repositories or sources.

### Inbox

A recommendation is an item and a number. The session has the two lists of
`tui.go`, cursor, filter and dialog; keys are actions, and the work they start
(`startAction`) runs in `tasks`, one per recommendation (`guardConflict`), one call
to GitHub or one transaction per step, in the order of `approveInboxEntries`,
`dismissInboxEntries`, `rerunInboxEntries` and `startDaemonFixJob`. Each step may
fail; which of the disturbances in `FaultKinds` happens is open, and one does at
most. Reloads read the rows in one step (`ReadRows`) and are delivered in another.
Fix jobs have four states: queued (no agent at work, so that it may be replaced),
running, shown (ended, but still in the inbox) and over.

What the model shows of the code, beyond its properties:

- `applyReload` keeps what the user did to an entry when the option in view is edited
  or is not the first. An edit of the second option is lost by the next reload once
  the user is back on the first, where the comment on `CommitEdits` (`tui/tui.go:136`)
  says that cycling away and back retains in-progress edits.
- An entry with a fix job opens on the job's option; a reload that finds a new job
  moves a user who is on the untouched first option there.
- The result of a rerun that arrives after a reload has listed the new recommendation
  replaces that entry in `allEntries` only, with the edits made meanwhile.
- A late reload lists decided entries again, and approving one posts again: whether a
  recommendation is still live is not looked at.
- A merge that fails after its comment posts the comment again when it is retried. A
  failure between the approval row and the item's row leaves the item as it was.
- A fix stays queued when the labels or the comment of its approval fail.
- An option that the user has made a fix in the editor has no fix prompt, and its
  approval queues nothing (`shouldQueueFixOnApprove`); `ApprovedFixHasJob` therefore
  speaks of options that were a fix as the agent wrote them.

## Runs

| Run | Bounds | Shows |
| --- | --- | --- |
| `fix_faults` | 2 items, 2 jobs, 1 crash, lost writes, late errors | the type invariant; one active job per item; a running job's row stays the runner's; success means an effect; the life cycle is implemented; queued jobs leave the queue, runs end, late PRs are recorded |
| `fix_reliable` | a maintainer and a contributor item, 3 jobs, all modes, no faults | a failed job leaves no PR; success means an effect; one active job, the runner's row and the life cycle with three jobs |
| `fix_contributor` | 1 job of a contributor item | violation, see below |
| `triage_safety` | 1 issue, 1 change on GitHub, 3 recommendations, manual runs, dismissals | the type invariant; one live recommendation; older results do not prevail |
| `triage_live` | 2 issues, the probe. Either both are handled, and 2 changes and manual runs of one follow; or one is new, and 3 changes, a comment or a closing by the user follow | activity on a handled issue is seen, also where a manual run stamps the refresh time |
| `triage_rerun` | 1 issue, 2 recommendations | violation |
| `host` | 2 processes at a time, every command, 1 release, 1 crash or failure, 1 pid used again | the type invariant; unless two raced for the pid file, the daemon that polls is the one the files name, and a reported stop or update has reached the daemon it is about |
| `host_live` | 2 processes, start, stop and install, 1 crash or failure, 1 pid used again; or a triage and starts only | the type invariant with the lock; a stop ends its daemon; a managed daemon comes back; a dead owner blocks nobody |
| `host_double_start` | 2 starts, no faults | violation |
| `checkout_lock` | 2 processes that do not die | violation |
| `poll_loop` | 1 repository, 1 recommendation, 1 job, 1 item, a buffer of 1, 1 failure or restart | the progress record fits together; no queued job is overlooked; what the daemon did is under way to a subscriber; jobs are run, repositories synced, the inbox comes up to date |
| `inbox` | a maintainer item with a fix and a merge option and 2 recommendations, a contributor item, 1 job, 2 keys besides those that end a dialog, 1 disturbance | both lists agree; decisions recorded are on GitHub and the reverse; an approved fix has its job; the cursor stays on its recommendation; the view converges |

Three jobs let one item have an ended, a superseded and a live job, or two items
compete while one of them is superseded; with faults two jobs are enough to have one
superseded, reclaimed or completed late beside the other. One crash is enough to leave a
row mid-agent, and a second finds the same states as the lost write already gives.
Three recommendations are a live one, the daemon's and the rerun's. Three changes are a
label, an answer and activity after both; where the issues are handled at the start, two
are activity and the time of a manual run. Issues of one repository meet only in its
refresh time, so one issue is enough but for `triage_live`. There the two starts are
apart (`OneScenario`): all of it at once has too many states.

Two processes are two daemons that race, or a daemon and a triage with the lock, or a
daemon and a program that has its pid. One pid used again is in the pid file, in the
lock or in both. A managed daemon, such a program and a triage would be three; in
`host_live` the checkout is therefore used while there is no unit and the user gives
starts only (`CheckoutAlone`). Both are action constraints: they prune steps to which no
fairness is given, so that what is left out is behaviours, not fairness. A buffer of one is full at the second event, as the code's 16 is at the seventeenth;
one job suffices for a wake-up that comes during a cycle. Two keys are an approval
or a rerun of one entry and an edit, a move, a filter or a second decision before,
while or after it runs. Edits turn an option into a close, which GitHub may refuse
when it is merged by then, or into a fix.

No run uses symmetry. Deadlock is checked in every run.

### What the violations show

- `fix_contributor`: the runner decides by the item's row whether to push to a
  contributor's head branch or to open a PR. The sweep may delete the row between
  the request and the claim; the job then opens a new upstream PR, where the
  repository's README says that contributor fixes never do.
- `triage_rerun`: whether a result is newer is judged by its insertion against the
  start of the other cycle. The result of a daemon cycle older than the rerun,
  inserted while the rerun is under way, makes the rerun's own be discarded.
- `checkout_lock`: the owner's pid is written after the file is created. A process
  that looks in between takes the file for stale, removes it, and both work in the
  checkout, which each has reset and cleaned; two that judge one stale lock may do the
  same. The repository's test (`cli/triage_test.go:991`) is for one process that waits
  for another, where it happens to hold.
- `host_double_start`: `RunWithOptions` reads the pid file and writes it later, and
  "daemon start" reports success before the daemon has written it. Two starts, one after
  the other, give two daemons that poll one database, of which the file names one.

## Fairness

`FixStage`: `WF(DaemonStep)`, because the service manager restarts the daemon
(`Restart=always` in `daemon/service_systemd.go`, KeepAlive in
`daemon/service_launchd.go`), the poll loop runs for ever, and a run has a timeout.
`WF(TimePasses(j))`: clocks advance. `SF(DetectFound(j))`, `SF(CompleteDetected)`,
`SF(Claim(j))`: gh and SQLite do not fail each time they are asked. Nothing is
assumed of users, of crashes or of the no-mistakes pipeline.

`Triage`: `WF(DaemonStep)` for the same reason, and `SF(ProbeList)`: the fix stage
and errors may end a cycle early, and the probe's interval passes again and again.
The repository's own refresh is given no fairness: the activity is seen by the probe
alone.

`Host`: `WF(CmdStep)`, `WF` of the respawn, of booting, of the clean-up and of the
lock steps outside the agent's stay: processes go on. No fairness is given to a poll
cycle, an agent or the closing of connections, which may take for ever, nor to users and
other programs.

`PollLoop`: `WF` of the loop, of the ticker, of the IPC handlers and of the inbox;
`SF(DiscoveryDue)`: the discovery interval passes, whatever the loop does. A stopped
daemon is started again (service manager), and failures are bounded, so that what
fails may be tried again.

`Inbox`: `WF(RefreshTick)`, the timer that fires every 5 seconds, and nothing more.
Background work may hang, a reload that was read may never be delivered, and nobody
has to press a key: the reload reads the database and not what the session believes.

## Proofs

The proofs hold for any sets of items, pids, recommendations and repositories, any
bounds and any switches. Every safety invariant and every action property of a
passing run is a theorem, and so is the refinement of the fix stage.

`FixStageProofs` proves `TypeCorrect`, `OneActive`, `RunnerKeepsRow`,
`SuccessIsReal`, `Refinement` and `FailureIsClean`. `OneActiveJobPerItem` is not
inductive: creation supersedes the oldest active job, so the new job is alone only if
there was one before, and a late update could make an ended job active again. The
inductive invariant `IInv` is `Typed /\ OneActiveJobPerItem /\ RunnerOwnsRow`:
`Typed` adds to the type invariant that in every step of a job the daemon has a job
in hand (`CurOK`), and `RunnerOwnsRow` says that this job's row is mid-agent until it
is recorded: such a row is neither superseded nor reclaimed, so no late update
revives an ended job. `EInv` adds `SucceededHasEffect` and `CarriesEffect`, which
ties the result held in memory, not yet recorded, to its effect on GitHub;
`SuccessIsReal` rests on it. `Refinement` maps each action to an action of
`FixJobLifecycle` or to a stutter under `IInv`. `FailureIsClean` has a hypothesis,
`Reliable`: no lost writes, no late errors, no crashes. The property is false
without it, and `fix_reliable` is the same case. `RInv` adds to `IInv` that no row but
the runner's is mid-agent, so that the reclaim finds nothing, and that GitHub knows
of no job whose run is not over (`EffectsComeLast`).

`TriageProofs` proves `OneLive`, `TriageTypes` and `NewerStay`.
`OneLiveRecommendation` with the typing of `recs` is inductive: `Recommend` is enabled
only when the issue has no live recommendation since the cycle began, and supersedes
those before; every other action only supersedes. The types need `CycleOK`, which
says for each stage what is left to do in it and what was read. It also says
that what a later cycle has recommended was inserted after this one began
(`newer` lies beyond `cutoff`), and that a cycle that is not under way has neither
later cycles nor their results. `NewerStay` follows: `Recommend` accepts no live
recommendation beyond the cutoff.

`HostProofs` proves `HostTypes`, `DaemonIsReachable`, `UpdateReachesDaemon` and
`StopIsDone`, in three layers. Nothing is assumed of the users' patience or of faults,
and of pids only that none is used again while a stop waits for its process to go.

- `Types` is `TypeOK`, with the stages of those alive, and a newer release to come for
  an update that downloads.
- `Held`. That the daemon which polls is the one its files name is not inductive. Its
  file was written before the socket and both stay until it closes (`Reachable`). As
  long as nobody raced, one process at most is deciding about the pid file
  (`OneDecides`); a daemon that decides found a file that named nobody alive, so that no
  other daemon polls, and a stop or a start that decides knows whose pid the file has
  (`CmdKnowsHolder`). A second one that begins to decide sets `raced`, by `Decides`, and
  from then on nothing is claimed.
- `Knows`, for the commands: from the look of a stop or a reset on, each place of the
  command says which of the daemons it is about may still live (`KnowsSeen`), and with a
  unit what the manager's daemon runs (`KnowsManaged`).

`~raced` is in the properties because they are false without it: `host_double_start` is
the counterexample. Without `unseen` `UpdateTakesEffect` is false for a start followed by
an update, and `StopLeavesNobody` for a start followed by a stop.

`PollLoopProofs` proves the type invariant and the three other invariants of the
poll loop.

- `WakeUpIsNotLost`. `WakeReachesFixStage` with the typing of the rows is inductive:
  before its fix stage a cycle needs no wake-up, the fix stage and `GiveUp` mark
  every job there is as seen, and an IPC handler raises the wake-up after the row
  is there.
- `ProgressFits`. `ProgressIsConsistent` says nothing of where the loop is, so it is
  not inductive: `ProgressFollowsLoop` ties each part of the record to the loop's
  place, and says that items done, in hand and to do add up to the total. The typing
  of the record rests on it too (`AgentItemEnd` counts no further than `MaxItems`).
- `NewsIsNotLost`. `NewsIsUnderWay` is about the moment between cycles; within a
  cycle news may be nowhere but in rows that the comparison has still to find
  (`NewsToCome`). That they will be found, whatever others do to the rows meanwhile,
  rests on two facts: rows only move forward (`RowsMove`), and what the cycle
  compares with is never ahead of the database (`SnapshotIsOld`). A recommendation
  that another process wrote and this cycle supersedes would escape the comparison;
  it is none of the daemon's news. A full buffer does no harm because what is in it
  makes the inbox reload as well.

`InboxProofs` proves `TypesHold`, `InboxSafetyProofs` the five other safety properties
of the inbox.

- `Typed` strengthens `TypeOK` by what a task may be doing where it is (`FitsAt`), what
  it will show, and what a late reload holds. No list has two entries of one item:
  the lists are searched by recommendation, and the first hit has to be the only one.
- `CursorIsKept` is about one step and follows from `Typed`.
- `ViewFiltered`. The property compares entries, whose contents may differ;
  `FilteredRecs` says the same of the recommendations alone and is inductive. A
  replacement keeps the item, and the filter asks for nothing else.
- `DecisionsAreOnGitHub` and `ApprovedFixesHaveJobs`. Whether a decision was carried
  out is known before its row is written, from where its task is: labels are there
  once it is past them (`LabelledFirst`), comment and state when it is at the row
  (`CarriedOut`), the job once it is past the queue (`QueuedFirst`). Nothing on
  GitHub is undone and no job is removed (`GithubGrows`, `JobsStay`).
- `EffectsAreRecorded`. Either a row is there or the task is on its way to write it,
  unless there is an excuse (`Excuses`), and an excuse is for good.

`ListTheorems` has the lemmas about the part of a list that a filter keeps. `Only` is
a recursive function, and what it returns is proved by induction over the length of
the list. The library's induction theorems take an operator as a parameter, which the
provers cannot instantiate; `SetInduction` says the same of a set of numbers, from
the well-foundedness of `<`.

TLC has checked the strengthenings as invariants before they were proved: `RInv` on
`fix_reliable`, `Held` and `Knows` on `host`, `InOrder` and
the lists of `Typed` on `inbox`, and `ProgressFollowsLoop`, `SnapshotIsOld` and
`NewsToCome` on `poll_loop`.

The assumptions are those on the constants, which TLC evaluates in each run. The code
justifies each: `Dead` and `None` stand for no process and for no disturbance, a
recommendation has an option at least, and what a user may make of an option is one of
the state changes that the editor accepts.

Only model-checked are the liveness properties, which are out of the provers' reach:
`QueuedJobLeavesQueue`, `MidAgentEnds`, `LatePRIsRecorded`, `ActivityIsSeen`,
`StopEndsDaemon`, `ServiceKeepsDaemonUp`, `DeadOwnerBlocksNobody`, `JobIsRun`,
`EveryRepoIsSynced`, `InboxComesUpToDate` and `ViewConverges`. The four properties that
the code violates have counterexamples instead.

## Not modelled

- The stale detector, self-authored PRs, contributor items and age limits in
  `Triage`; the refresh of items of finished jobs, `fix attach` and the `fix` command
  without a daemon in `FixStage`. `OneLiveRecommendation` says nothing about the
  stale detector, whose insertion replaces nothing.
- Two daemons on one database: `host_double_start` shows that two may poll; the other
  modules have one daemon, beside which commands and sessions run.
- In `Host`: a pid that is used again while a stop is waiting for its process to end (it
  looks ten times a second, and the model takes the process for gone); a pid file that
  does not hold a number at all, other than an empty one; an error of
  the look itself (`processRunning`).
- Fix jobs have precedence over agents: with fix work in every cycle no issue is
  triaged. `triage_live` does not claim that an agent runs, only that the issue is
  put before it.
- Lost database writes in `Triage`: a failed write ends the stage, as `SyncFails`,
  `TriageFails` and `UserFails` do at the gh calls beside it.
- How long a back-off lasts; launchd's and Windows' differences from systemd; archives,
  checksums and versions of an update.
- Git plumbing of worktrees and checkouts: commands that succeed or fail.
- Text: prompts, parsing, formatting, rendering; vendors' agent protocols;
  configuration, set-up, diagnostics, telemetry, installation. They keep no state that
  the other parts meet in.

## Plan

1. `FixJobs`, `FixStage`, `FixJobLifecycle`, with proofs. Done.
2. `Triage` with its violations and proofs. Done. Next in it: the stale detector and
   waiting-on, self-authored PRs, contributor items; an abstract specification of the
   inbox (an item enters, is handled, re-enters) and its refinement, proved.
3. `CheckoutLock`, `Host`, `PollLoop`, `Inbox`, with proofs of all their safety
   properties. Done.
4. Pure algorithms against reference definitions: managed label edits, retry delay
   of joined errors, resolution of the PR creator, the diff of snapshots.
5. A daemon life cycle of which `Host` is shown to be an implementation, as
   `FixStage` is of `FixJobLifecycle`.
